-------------------------- MODULE P2PServerProofs --------------------------
(***************************************************************************)
(* What the operators of the dialer do, for any nodes, lists and history:  *)
(* newTasks makes a task of every node it marks, once, and is idle only    *)
(* when nobody on the lists is left to connect to; but for taskDone, no    *)
(* other operator touches the marks.  Then the server, for every set of    *)
(* nodes, number of connections and limit: the peers of the run loop are   *)
(* those that have a goroutine, and the limits hold, whatever the dialer   *)
(* does; and the dialer with it: it never forgets a node on its lists, and *)
(* it never has more tasks running than it may.                            *)
(***************************************************************************)
EXTENDS P2PServer, FiniteSetTheorems, TLAPS

\* Time limits for every step below.
USE SMTT(60), ZenonT(60)

-----------------------------------------------------------------------------
(* The operators of the dialer.                                            *)

\* What a list of tasks is made of.
Elems(s) == {s[i] : i \in 1..Len(s)}

\* No node is twice in a list.
Distinct(s) == \A i, j \in 1..Len(s) : s[i] \in Nodes /\ s[i] = s[j] => i = j

\* The tasks of two lists, one after the other.
LEMMA ElemsConcat ==
  ASSUME NEW S, NEW s \in Seq(S), NEW t \in Seq(S)
  PROVE  s \o t \in Seq(S) /\ Elems(s \o t) = Elems(s) \cup Elems(t)
<1>1. /\ s \o t \in Seq(S) /\ Len(s \o t) = Len(s) + Len(t)
      /\ Len(s) \in Nat /\ Len(t) \in Nat
      /\ \A i \in 1..(Len(s) + Len(t)) :
           (s \o t)[i] = IF i <= Len(s) THEN s[i] ELSE t[i - Len(s)]
  OBVIOUS
<1>2. ASSUME NEW x \in Elems(s \o t) PROVE x \in Elems(s) \cup Elems(t)
  <2>1. PICK i \in 1..(Len(s) + Len(t)) : x = (s \o t)[i]
    BY <1>1 DEF Elems
  <2>2. CASE i <= Len(s)
    BY <1>1, <2>1, <2>2 DEF Elems
  <2>3. CASE ~(i <= Len(s))
    <3>1. i - Len(s) \in 1..Len(t) /\ x = t[i - Len(s)]
      BY <1>1, <2>1, <2>3
    <3> QED  BY <3>1 DEF Elems
  <2> QED  BY <2>2, <2>3
<1>3. ASSUME NEW x \in Elems(s) PROVE x \in Elems(s \o t)
  <2>1. PICK i \in 1..Len(s) : x = s[i]
    BY DEF Elems
  <2>2. i \in 1..(Len(s) + Len(t)) /\ x = (s \o t)[i]
    BY <1>1, <2>1
  <2> QED  BY <1>1, <2>2 DEF Elems
<1>4. ASSUME NEW x \in Elems(t) PROVE x \in Elems(s \o t)
  <2>1. PICK i \in 1..Len(t) : x = t[i]
    BY DEF Elems
  <2>2. Len(s) + i \in 1..(Len(s) + Len(t)) /\ x = (s \o t)[Len(s) + i]
    BY <1>1, <2>1
  <2> QED  BY <1>1, <2>2 DEF Elems
<1> QED  BY <1>1, <1>2, <1>3, <1>4

\* They are distinct when the lists have no node in common.
LEMMA DistinctConcat ==
  ASSUME NEW S, NEW s \in Seq(S), NEW t \in Seq(S), Distinct(s), Distinct(t),
         \A x \in Nodes : ~(x \in Elems(s) /\ x \in Elems(t))
  PROVE  Distinct(s \o t)
<1>1. /\ Len(s \o t) = Len(s) + Len(t) /\ Len(s) \in Nat /\ Len(t) \in Nat
      /\ \A i \in 1..(Len(s) + Len(t)) :
           (s \o t)[i] = IF i <= Len(s) THEN s[i] ELSE t[i - Len(s)]
  OBVIOUS
<1> SUFFICES ASSUME NEW i \in 1..(Len(s) + Len(t)), NEW j \in 1..(Len(s) + Len(t)),
                    (s \o t)[i] \in Nodes, (s \o t)[i] = (s \o t)[j]
             PROVE  i = j
  BY <1>1 DEF Distinct
<1>2. ASSUME NEW k \in 1..(Len(s) + Len(t)), k > Len(s)
      PROVE  k - Len(s) \in 1..Len(t) /\ (s \o t)[k] = t[k - Len(s)]
  BY <1>1, <1>2
<1>3. CASE i <= Len(s) /\ j <= Len(s)
  BY <1>1, <1>3 DEF Distinct
<1>4. CASE i > Len(s) /\ j > Len(s)
  <2>1. i - Len(s) = j - Len(s)
    BY ZenonT(60), <1>2, <1>4 DEF Distinct
  <2> QED  BY <1>1, <2>1
<1>5. CASE i <= Len(s) /\ j > Len(s)
  <2>1. (s \o t)[i] \in Elems(s)
    BY <1>1, <1>5 DEF Elems
  <2>2. (s \o t)[j] \in Elems(t)
    BY ZenonT(60), <1>1, <1>2, <1>5 DEF Elems
  <2> QED  BY <2>1, <2>2
<1>6. CASE i > Len(s) /\ j <= Len(s)
  <2>1. (s \o t)[j] \in Elems(s)
    BY <1>1, <1>6 DEF Elems
  <2>2. (s \o t)[i] \in Elems(t)
    BY <1>1, <1>2, <1>6 DEF Elems
  <2> QED  BY <2>1, <2>2
<1> QED  BY <1>1, <1>3, <1>4, <1>5, <1>6

\* A listing of S has the members of S, each once.
LEMMA ListingElems ==
  ASSUME NEW S, IsFiniteSet(S), NEW T, S \subseteq T, NEW f \in Listings(S)
  PROVE  f \in Seq(T) /\ Elems(f) = S /\ Distinct(f)
<1> DEFINE k == Cardinality(S)
<1>1. k \in Nat /\ f \in [1..k -> S] /\ \A i, j \in 1..k : f[i] = f[j] => i = j
  BY FS_CardinalityType DEF Listings
<1>2. f \in Seq(T) /\ Len(f) = k
  BY <1>1
<1>3. f \in Surjection(1..k, S)
  <2>1. f \in Injection(1..k, S)
    BY <1>1 DEF Injection, IsInjective
  <2>2. Cardinality(1..k) = Cardinality(S)
    BY <1>1, FS_Interval
  <2> QED  BY <2>1, <2>2, FS_Injection
<1>4. Elems(f) = S
  BY <1>1, <1>2, <1>3 DEF Elems, Surjection
<1> QED  BY <1>1, <1>2, <1>4 DEF Distinct

-----------------------------------------------------------------------------
(* newTasks.                                                               *)

Flags == {"no", "static", "storeman", "dyn"}
DialRec == [static : SUBSET Nodes, storeman : SUBSET StoremanNodes,
            dialing : [Nodes -> Flags], lookupRunning : BOOLEAN, hist : Seq(Nodes)]

\* What marking the nodes in S as dialled does to the dialer, and taking nodes off
\* its lists.
LEMMA DialMarks ==
  ASSUME NEW e \in DialRec, NEW S, NEW flag \in Flags
  PROVE  /\ Dial(e, S, flag) \in DialRec
         /\ Dial(e, S, flag).static = e.static
         /\ Dial(e, S, flag).storeman = e.storeman
         /\ Dial(e, S, flag).hist = e.hist
         /\ \A n \in Nodes :
              Dial(e, S, flag).dialing[n] = IF n \in S THEN flag ELSE e.dialing[n]
BY DEF DialRec, Dial

\* removeStatic and removeStoreman change a list and nothing else of the dialer.
LEMMA OffTheLists ==
  ASSUME NEW e \in DialRec, NEW S
  PROVE  /\ [e EXCEPT !.static = S] =
              [static |-> S, storeman |-> e.storeman, dialing |-> e.dialing,
               lookupRunning |-> e.lookupRunning, hist |-> e.hist]
         /\ [e EXCEPT !.storeman = S] =
              [static |-> e.static, storeman |-> S, dialing |-> e.dialing,
               lookupRunning |-> e.lookupRunning, hist |-> e.hist]
         /\ [e EXCEPT !.lookupRunning = S] =
              [static |-> e.static, storeman |-> e.storeman, dialing |-> e.dialing,
               lookupRunning |-> S, hist |-> e.hist]
BY DEF DialRec

\* A node is dialled only when no dial task has it.
LEMMA NotDialled ==
  ASSUME NEW e, NEW S, NEW C, NEW n \in Dialable(e, S, C)
  PROVE  n \in S /\ e.dialing[n] = "no"
BY DEF Dialable, checkDial

\* A node on a list that is neither dialled nor refused is connected, or was dialled
\* lately.
LEMMA NotDialable ==
  ASSUME NEW e, NEW S, NEW C, NEW n \in S \ Refused(e, S, C), n \notin Dialable(e, S, C),
         e.dialing[n] = "no", e.hist = <<>>
  PROVE  n \in C
BY DEF Dialable, Refused, checkDial, contains

\* newTasks lists every node it marks, once, and no node that is a task already; when
\* it has nothing to do at all, nobody on the lists is left to connect to.
LEMMA NewTasks ==
  ASSUME NEW e \in DialRec, NEW nRunning, NEW C, NEW nDyn,
         NEW x \in newTasks(e, nRunning, C, nDyn)
  PROVE  /\ x.d \in DialRec /\ x.tasks \in Seq(Tasks) /\ Distinct(x.tasks)
         /\ \A n \in Nodes :
              /\ n \in Elems(x.tasks) => e.dialing[n] = "no"
              /\ x.d.dialing[n] # "no" <=> e.dialing[n] # "no" \/ n \in Elems(x.tasks)
         /\ x.tasks = <<>> /\ nRunning = 0 /\ (\A n \in Nodes : e.dialing[n] = "no") =>
              \A n \in x.d.static \cup x.d.storeman : n \in C
<1> USE DialAssumption
<1> DEFINE st == Dialable(e, e.static, C)
           d1 == DialStatic(e, C)
           sm == Dialable(d1, d1.storeman, C)
           d2 == DialStoremen(d1, C)
           need == DynNeeded(e, nDyn)
           look(dyn) == Cardinality(dyn) < need /\ ~e.lookupRunning
           list(a, b, c, dyn) == a \o b \o c \o (IF look(dyn) THEN <<Lookup>> ELSE <<>>)
           res(a, b, c, dyn) ==
             WithLookup(e, Dial(d2, dyn, "dyn"), nRunning, Cardinality(dyn) < need, a \o b \o c)
<1>0. PICK dyn \in SUBSET Dialable(d2, Nodes, C) :
        \E a \in Listings(st), b \in Listings(sm), c \in Listings(dyn) :
          x = res(a, b, c, dyn)
  <2> DEFINE dyns == {y \in SUBSET Dialable(d2, Nodes, C) : y = {} \/ Cardinality(y) <= need}
             all(dyn) == {res(a, b, c, dyn) :
                            a \in Listings(st), b \in Listings(sm), c \in Listings(dyn)}
  <2>1. x \in UNION {all(dyn) : dyn \in dyns}
    BY DEF newTasks
  <2>2. dyns \subseteq SUBSET Dialable(d2, Nodes, C)
    BY ZenonT(60)
  <2> HIDE DEF dyns, all, st, d1, sm, d2, need, res
  <2>3. PICK dyn \in dyns : x \in all(dyn)
    BY <2>1
  <2> USE DEF all
  <2> QED  BY <2>2, <2>3
<1>1. PICK a \in Listings(st), b \in Listings(sm), c \in Listings(dyn) :
        x = res(a, b, c, dyn)
  BY <1>0
<1>2. /\ d1 \in DialRec /\ d1.static = e.static \ Refused(e, e.static, C)
      /\ d1.storeman = e.storeman /\ d1.hist = e.hist
      /\ \A n \in Nodes : d1.dialing[n] = IF n \in st THEN "static" ELSE e.dialing[n]
  <2> DEFINE f == Dial(e, st, "static")
  <2>1. /\ f \in DialRec /\ f.static = e.static /\ f.storeman = e.storeman /\ f.hist = e.hist
        /\ \A n \in Nodes : f.dialing[n] = IF n \in st THEN "static" ELSE e.dialing[n]
    <3>1. "static" \in Flags
      BY DEF Flags
    <3> HIDE DEF st
    <3> QED  BY <3>1, DialMarks
  <2>2. d1 = [f EXCEPT !.static = f.static \ Refused(e, f.static, C)]
    BY DEF DialStatic
  <2> HIDE DEF f, st, d1
  <2>3. d1 = [static |-> f.static \ Refused(e, f.static, C), storeman |-> f.storeman,
              dialing |-> f.dialing, lookupRunning |-> f.lookupRunning, hist |-> f.hist]
    BY ZenonT(60), <2>1, <2>2, OffTheLists
  <2> QED  BY <2>1, <2>3 DEF DialRec
<1> HIDE DEF d1
<1>3. /\ d2 \in DialRec /\ d2.static = d1.static
      /\ d2.storeman = d1.storeman \ Refused(d1, d1.storeman, C)
      /\ \A n \in Nodes : d2.dialing[n] = IF n \in sm THEN "storeman" ELSE d1.dialing[n]
  <2> DEFINE f == Dial(d1, sm, "storeman")
  <2>1. /\ f \in DialRec /\ f.static = d1.static /\ f.storeman = d1.storeman
        /\ \A n \in Nodes : f.dialing[n] = IF n \in sm THEN "storeman" ELSE d1.dialing[n]
    <3>1. "storeman" \in Flags
      BY DEF Flags
    <3> HIDE DEF sm
    <3> QED  BY <1>2, <3>1, DialMarks
  <2>2. d2 = [f EXCEPT !.storeman = f.storeman \ Refused(d1, f.storeman, C)]
    BY DEF DialStoremen
  <2> HIDE DEF f, sm, d2
  <2>3. d2 = [static |-> f.static, storeman |-> f.storeman \ Refused(d1, f.storeman, C),
              dialing |-> f.dialing, lookupRunning |-> f.lookupRunning, hist |-> f.hist]
    BY ZenonT(60), <2>1, <2>2, OffTheLists
  <2> QED  BY <2>1, <2>3 DEF DialRec
<1> HIDE DEF d2
<1>4. /\ x.d \in DialRec /\ x.d.static = d2.static /\ x.d.storeman = d2.storeman
      /\ \A n \in Nodes : x.d.dialing[n] = IF n \in dyn THEN "dyn" ELSE d2.dialing[n]
  <2> DEFINE f == Dial(d2, dyn, "dyn")
  <2>1. /\ f \in DialRec /\ f.static = d2.static /\ f.storeman = d2.storeman
        /\ \A n \in Nodes : f.dialing[n] = IF n \in dyn THEN "dyn" ELSE d2.dialing[n]
    <3>1. "dyn" \in Flags
      BY DEF Flags
    <3> QED  BY <1>3, <3>1, DialMarks
  <2>2. x.d = [f EXCEPT !.lookupRunning = f.lookupRunning \/ look(dyn)]
    BY <1>1 DEF WithLookup
  <2>3. (f.lookupRunning \/ look(dyn)) \in BOOLEAN
    OBVIOUS
  <2> HIDE DEF f, look
  <2>4. x.d = [static |-> f.static, storeman |-> f.storeman, dialing |-> f.dialing,
               lookupRunning |-> f.lookupRunning \/ look(dyn), hist |-> f.hist]
    BY ZenonT(60), <2>1, <2>2, OffTheLists
  <2> QED  BY <2>1, <2>3, <2>4 DEF DialRec
<1>5. /\ \A n \in st : n \in Nodes /\ e.dialing[n] = "no"
      /\ \A n \in sm : n \in Nodes /\ d1.dialing[n] = "no"
      /\ \A n \in dyn : n \in Nodes /\ d2.dialing[n] = "no"
  BY <1>2, <1>3, NotDialled DEF DialRec
<1>6. \A n \in Nodes : ~(n \in st /\ n \in sm) /\ ~(n \in st /\ n \in dyn) /\ ~(n \in sm /\ n \in dyn)
  BY <1>2, <1>3, <1>5
<1> DEFINE last == IF look(dyn) THEN <<Lookup>> ELSE <<>>
           ts == list(a, b, c, dyn)
<1>7. /\ a \in Seq(Tasks) /\ Elems(a) = st /\ Distinct(a)
      /\ b \in Seq(Tasks) /\ Elems(b) = sm /\ Distinct(b)
      /\ c \in Seq(Tasks) /\ Elems(c) = dyn /\ Distinct(c)
  <2>1. \A S \in SUBSET Nodes : IsFiniteSet(S) /\ S \subseteq Tasks
    BY FS_Subset DEF Tasks
  <2>2. st \in SUBSET Nodes /\ sm \in SUBSET Nodes /\ dyn \in SUBSET Nodes
    BY <1>5
  <2> HIDE DEF st, sm
  <2> QED  BY ZenonT(60), <2>1, <2>2, ListingElems
<1> HIDE DEF st, sm
<1>8. /\ last \in Seq(Tasks) /\ Distinct(last) /\ \A n \in Nodes : n \notin Elems(last)
  <2>1. <<>> \in Seq(Tasks) /\ Distinct(<<>>) /\ Elems(<<>>) = {}
    BY DEF Distinct, Elems
  <2>2. <<Lookup>> \in Seq(Tasks) /\ Distinct(<<Lookup>>) /\ Elems(<<Lookup>>) = {Lookup}
    BY DEF Distinct, Elems, Tasks
  <2> QED  BY <2>1, <2>2
<1>9. ts = a \o b \o c \o last
  OBVIOUS
<1>9a. x.tasks = IF needsWait(e, nRunning, ts) THEN <<WaitExpire>> ELSE ts
  BY <1>1 DEF WithLookup
<1> HIDE DEF last, list, look
<1> DEFINE ab == a \o b
           abc == ab \o c
<1>10. ab \in Seq(Tasks) /\ Elems(ab) = st \cup sm /\ Distinct(ab)
  BY <1>6, <1>7, ElemsConcat, DistinctConcat
<1>11. abc \in Seq(Tasks) /\ Elems(abc) = st \cup sm \cup dyn /\ Distinct(abc)
  <2> HIDE DEF ab
  <2>1. \A n \in Nodes : ~(n \in Elems(ab) /\ n \in Elems(c))
    BY <1>6, <1>7, <1>10
  <2>2. abc \in Seq(Tasks) /\ Elems(abc) = Elems(ab) \cup Elems(c)
    BY <1>7, <1>10, ElemsConcat
  <2>3. Distinct(abc)
    BY <1>7, <1>10, <2>1, DistinctConcat
  <2> QED  BY <1>7, <1>10, <2>2, <2>3
<1>12. /\ ts \in Seq(Tasks) /\ Elems(ts) = st \cup sm \cup dyn \cup Elems(last) /\ Distinct(ts)
  <2>1. ts = abc \o last
    BY <1>9
  <2> HIDE DEF abc, ts
  <2>2. \A n \in Nodes : ~(n \in Elems(abc) /\ n \in Elems(last))
    BY <1>8
  <2>3. ts \in Seq(Tasks) /\ Elems(ts) = Elems(abc) \cup Elems(last)
    BY <1>8, <1>11, <2>1, ElemsConcat
  <2>4. Distinct(ts)
    BY <1>8, <1>11, <2>1, <2>2, DistinctConcat
  <2> QED  BY <1>11, <2>3, <2>4
<1>13. \A n \in Nodes : n \in Elems(ts) <=> n \in st \/ n \in sm \/ n \in dyn
  BY <1>8, <1>12
<1>14. \A n \in Nodes :
         /\ n \in Elems(ts) => e.dialing[n] = "no"
         /\ x.d.dialing[n] # "no" <=> e.dialing[n] # "no" \/ n \in Elems(ts)
  BY <1>2, <1>3, <1>4, <1>5, <1>13
<1>15. CASE needsWait(e, nRunning, ts)
  <2>1. x.tasks = <<WaitExpire>> /\ ts = <<>>
    BY <1>1, <1>9a, <1>15 DEF needsWait
  <2>2. <<WaitExpire>> \in Seq(Tasks) /\ Distinct(<<WaitExpire>>)
        /\ Elems(<<WaitExpire>>) = {WaitExpire} /\ <<WaitExpire>> # <<>>
    BY DEF Distinct, Elems, Tasks
  <2>3. Elems(<<>>) = {}
    BY DEF Elems
  <2> QED  BY <1>4, <1>14, <2>1, <2>2, <2>3
<1>16. CASE ~needsWait(e, nRunning, ts)
  <2>1. x.tasks = ts
    BY <1>9a, <1>16
  <2>2. ASSUME ts = <<>>, nRunning = 0, \A n \in Nodes : e.dialing[n] = "no"
        PROVE  \A n \in x.d.static \cup x.d.storeman : n \in C
    <3>1. Elems(<<>>) = {}
      BY DEF Elems
    <3>2. \A n \in Nodes : n \notin st /\ n \notin sm
      BY <1>13, <2>2, <3>1
    <3>3. e.hist = <<>> /\ d1.hist = <<>>
      BY <1>2, <1>16, <2>2 DEF needsWait
    <3>4. ASSUME NEW n \in x.d.static PROVE n \in C
      <4>1. n \in e.static \ Refused(e, e.static, C) /\ n \in Nodes
        BY <1>2, <1>3, <1>4 DEF DialRec
      <4> QED  BY <2>2, <3>2, <3>3, <4>1, NotDialable DEF st
    <3>5. ASSUME NEW n \in x.d.storeman PROVE n \in C
      <4>1. n \in d1.storeman \ Refused(d1, d1.storeman, C) /\ n \in Nodes
        BY <1>2, <1>3, <1>4 DEF DialRec
      <4>2. d1.dialing[n] = "no"
        BY <1>2, <2>2, <3>2, <4>1
      <4> QED  BY <3>2, <3>3, <4>1, <4>2, NotDialable DEF sm
    <3> QED  BY <3>4, <3>5
  <2> QED  BY <1>4, <1>12, <1>14, <2>1, <2>2
<1> QED  BY <1>15, <1>16

-----------------------------------------------------------------------------
(* The other operators.                                                    *)

\* What else is done to the dialer leaves its marks alone.
LEMMA DialerOps ==
  ASSUME NEW e \in DialRec, NEW n \in Nodes, NEW f,
         \/ f = addStatic(e, n) \/ f = removeStatic(e, n)
         \/ n \in StoremanNodes /\ \E b \in BOOLEAN : f = addStoreman(e, n, b)
         \/ f = removeStoreman(e, n)
         \/ e.hist # <<>> /\ f = expire(e)
  PROVE  f \in DialRec /\ f.dialing = e.dialing
<1> DEFINE h == histRemove(e, n)
<1>1. /\ h \in DialRec /\ h.dialing = e.dialing /\ h.static = e.static /\ h.storeman = e.storeman
  <2>1. CASE \E i \in 1..Len(e.hist) : e.hist[i] = n
    <3> DEFINE i == CHOOSE i \in 1..Len(e.hist) : e.hist[i] = n
               l == SubSeq(e.hist, 1, i - 1)
               r == SubSeq(e.hist, i + 1, Len(e.hist))
    <3>1. h = [e EXCEPT !.hist = l \o r]
      BY <2>1 DEF histRemove
    <3>2. i \in 1..Len(e.hist) /\ e.hist \in Seq(Nodes) /\ Len(e.hist) \in Nat
      BY <2>1 DEF DialRec
    <3> HIDE DEF i
    <3>3. l \in Seq(Nodes) /\ r \in Seq(Nodes)
      <4>1. /\ \A j \in 1..(i - 1) : e.hist[j] \in Nodes
            /\ \A j \in (i + 1)..Len(e.hist) : e.hist[j] \in Nodes
            /\ i - 1 \in Int /\ i + 1 \in Int /\ Len(e.hist) \in Int
        BY <3>2
      <4> QED  BY <4>1
    <3>4. l \o r \in Seq(Nodes)
      BY <3>3
    <3> HIDE DEF l, r
    <3> QED  BY ZenonT(60), <3>1, <3>4 DEF DialRec
  <2>2. CASE ~\E i \in 1..Len(e.hist) : e.hist[i] = n
    BY <2>2 DEF histRemove
  <2> QED  BY <2>1, <2>2
<1>2. CASE f = addStatic(e, n)
  BY <1>2 DEF addStatic, DialRec
<1>3. CASE f = removeStatic(e, n)
  <2>1. f = [h EXCEPT !.static = h.static \ {n}]
    BY <1>3 DEF removeStatic
  <2> HIDE DEF h
  <2> QED  BY ZenonT(60), <1>1, <2>1 DEF DialRec
<1>4. CASE f = removeStoreman(e, n)
  <2>1. f = [h EXCEPT !.storeman = h.storeman \ {n}]
    BY <1>4 DEF removeStoreman
  <2> HIDE DEF h
  <2> QED  BY ZenonT(60), <1>1, <2>1 DEF DialRec
<1>5. CASE n \in StoremanNodes /\ \E b \in BOOLEAN : f = addStoreman(e, n, b)
  <2>1. CASE f = removeStoreman(e, n)
    BY <1>4, <2>1
  <2>2. CASE f = [e EXCEPT !.storeman = @ \cup {n}]
    BY <1>5, <2>2 DEF DialRec
  <2> QED  BY <1>5, <2>1, <2>2 DEF addStoreman
<1>6. CASE e.hist # <<>> /\ f = expire(e)
  <2>1. e.hist \in Seq(Nodes)
    BY DEF DialRec
  <2>2. Tail(e.hist) \in Seq(Nodes)
    BY <1>6, <2>1
  <2>3. f = [e EXCEPT !.hist = Tail(e.hist)]
    BY <1>6 DEF expire
  <2> QED  BY ZenonT(60), <2>2, <2>3 DEF DialRec
<1> QED  BY <1>2, <1>3, <1>4, <1>5, <1>6

-----------------------------------------------------------------------------
(* The connections and peers of the server.                                *)

Fields(c) == [st |-> conn[c].st, flag |-> conn[c].flag, id |-> conn[c].id]

\* A connection has a peer exactly in the state "peer", and its node is known from
\* the first checkpoint on, or from the start when it was dialled.
ConnInv ==
  /\ conn = [c \in Conns |-> Fields(c)]
  /\ peer \in [Conns -> {"none", "run", "closed", "self"}]
  /\ peers \in [Nodes -> Conns \cup {None}]
  /\ \A c \in Conns :
       /\ conn[c].st = "peer" <=> peer[c] # "none"
       /\ conn[c].st \in {"proto", "peer"} => conn[c].id \in Nodes
       /\ conn[c].st # "free" /\ conn[c].flag # "inbound" => conn[c].id \in Nodes

IInv == ConnInv /\ PeersAreKnown /\ LimitsHold

-----------------------------------------------------------------------------
(* The initial state, and steps that add and remove no peer.               *)

\* The server starts without connections and peers.
LEMMA InitIInv == Init => IInv
<1> SUFFICES ASSUME Init PROVE IInv  OBVIOUS
<1> USE DialAssumption, ServerAssumption
<1>1. ConnInv
  BY DEF Init, ConnInv, Fields, Free
<1>2. Connected = {} /\ Inbound = {} /\ \A F : Limited(F) = {}
  BY DEF Init, Connected, Inbound, Limited
<1>3. PeersAreKnown
  BY <1>2 DEF Init, PeersAreKnown
<1>4. Cardinality({}) = 0
  BY FS_EmptySet
<1>5. 0 <= MaxPeers /\ 0 <= maxInboundConns /\ inboundCount = 0
  BY DEF Init, maxInboundConns
<1>6. LimitsHold
  BY <1>2, <1>4, <1>5 DEF LimitsHold
<1> QED  BY <1>1, <1>3, <1>6 DEF IInv

\* A step that leaves peers and their connections as they are keeps the limits.
LEMMA SamePeers ==
  ASSUME IInv, peers' = peers,
         \A c \in Conns : peer[c] # "none" => conn'[c] = conn[c],
         loop' = "select" => loop = "select" /\ inboundCount' = inboundCount
  PROVE  LimitsHold' /\ Connected' = Connected
<1>1. Connected' = Connected
  BY DEF Connected
<1>2. \A n \in Connected : conn'[peers'[n]] = conn[peers[n]]
  BY DEF Connected, IInv, ConnInv, PeersAreKnown
<1>3. Inbound' = Inbound
  BY <1>1, <1>2 DEF Inbound
<1>4. \A F : Limited(F)' = Limited(F)
  BY <1>1, <1>2 DEF Limited
<1> QED  BY <1>1, <1>3, <1>4 DEF IInv, LimitsHold, maxInboundConns

\* Neither do setups that begin, go on or fail change anything about peers.
LEMMA SetupKeeps ==
  ASSUME IInv, NEW c \in Conns, peer[c] = "none",
         NEW new, new = [st |-> new.st, flag |-> new.flag, id |-> new.id],
         new.st \in {"free", "start", "enc", "proto"},
         new.st = "proto" => new.id \in Nodes,
         new.st # "free" /\ new.flag # "inbound" => new.id \in Nodes,
         conn' = [conn EXCEPT ![c] = new],
         UNCHANGED <<loop, peer, peers, inboundCount>>
  PROVE  IInv'
<1>1. conn'[c] = new /\ \A b \in Conns \ {c} : conn'[b] = conn[b]
  BY ZenonT(60) DEF IInv, ConnInv
<1>2. conn' = [b \in Conns |-> Fields(b)']
  BY <1>1 DEF IInv, ConnInv, Fields
<1>3. ConnInv'
  BY <1>1, <1>2 DEF IInv, ConnInv
<1>4. LimitsHold' /\ Connected' = Connected
  BY <1>1, SamePeers
<1>5. \A n \in Nodes : peers[n] # None => peers[n] \in Conns \ {c}
  BY DEF IInv, ConnInv, PeersAreKnown
<1>6. \A n \in Nodes : peers'[n] # None => conn'[peers'[n]].id = n
  BY <1>1, <1>5 DEF IInv, PeersAreKnown
<1>7. PeersAreKnown'
  BY <1>4, <1>6 DEF IInv, PeersAreKnown
<1> QED  BY <1>3, <1>4, <1>7 DEF IInv

\* A connection whose setup ends is free again.
LEMMA FreeKeeps ==
  ASSUME IInv, NEW c \in Conns, peer[c] = "none", conn' = [conn EXCEPT ![c] = Free],
         UNCHANGED <<loop, peer, peers, inboundCount>>
  PROVE  IInv'
<1>1. Free = [st |-> Free.st, flag |-> Free.flag, id |-> Free.id] /\ Free.st = "free"
  BY DEF Free
<1> QED  BY <1>1, SetupKeeps, ZenonT(60)

\* Accept and DialConnects take a connection that has no peer.
LEMMA FreeConn ==
  ASSUME IInv, \E c \in Conns : IsFree(c)
  PROVE  NewConn \in Conns /\ peer[NewConn] = "none"
<1>1. NewConn \in Conns /\ conn[NewConn] = Free
  BY DEF NewConn, IsFree
<1> QED  BY <1>1 DEF Free, IInv, ConnInv

\* Steps of goroutines that set up a connection keep the invariant.
LEMMA SetupSteps ==
  ASSUME IInv,
         \/ Accept \/ DialConnects
         \/ \E c \in Conns : SetupStart(c) \/ SetupFails(c)
  PROVE  IInv'
<1>1. CASE Accept
  <2> DEFINE new == [st |-> "start", flag |-> "inbound", id |-> None]
  <2>1. [Free EXCEPT !.st = "start"] = new
    BY DEF Free
  <2>2. NewConn \in Conns /\ peer[NewConn] = "none" /\ conn' = [conn EXCEPT ![NewConn] = new]
    BY <1>1, <2>1, FreeConn, ZenonT(60) DEF Accept
  <2>3. UNCHANGED <<loop, peer, peers, inboundCount>>
    BY <1>1 DEF Accept
  <2>4. new = [st |-> new.st, flag |-> new.flag, id |-> new.id]
        /\ new.st = "start" /\ new.flag = "inbound"
    OBVIOUS
  <2> HIDE DEF new
  <2> QED  BY <2>2, <2>3, <2>4, SetupKeeps, ZenonT(60)
<1>2. CASE DialConnects
  <2>1. PICK n \in Nodes :
          /\ \E c \in Conns : IsFree(c)
          /\ conn' = [conn EXCEPT ![NewConn] = [st |-> "start", flag |-> d.dialing[n], id |-> n]]
          /\ UNCHANGED <<loop, peer, peers, inboundCount>>
    BY <1>2, ZenonT(60) DEF DialConnects
  <2> DEFINE new == [st |-> "start", flag |-> d.dialing[n], id |-> n]
  <2>2. NewConn \in Conns /\ peer[NewConn] = "none" /\ conn' = [conn EXCEPT ![NewConn] = new]
    BY <2>1, FreeConn
  <2>3. new = [st |-> new.st, flag |-> new.flag, id |-> new.id]
        /\ new.st = "start" /\ new.id \in Nodes
    OBVIOUS
  <2> HIDE DEF new
  <2> QED  BY <2>1, <2>2, <2>3, SetupKeeps, ZenonT(60)
<1>3. ASSUME NEW c \in Conns, conn[c].st \in {"start", "enc", "proto"}, EndSetup(c),
             UNCHANGED <<loop, peer, peers, inboundCount>>
      PROVE  IInv'
  <2>1. peer[c] = "none"
    BY <1>3 DEF IInv, ConnInv
  <2> QED  BY <1>3, <2>1, FreeKeeps, ZenonT(60) DEF EndSetup
<1>4. ASSUME NEW c \in Conns, SetupStart(c)  PROVE IInv'
  <2>1. CASE Quit
    BY <1>3, <1>4, <2>1 DEF SetupStart
  <2>2. CASE ~Quit
    <3>1. conn[c] = [st |-> "start", flag |-> conn[c].flag, id |-> conn[c].id] /\ peer[c] = "none"
      BY <1>4 DEF SetupStart, IInv, ConnInv, Fields
    <3>2. conn' = [conn EXCEPT ![c] = [st |-> "enc", flag |-> conn[c].flag, id |-> conn[c].id]]
      BY <1>4, <2>2, <3>1 DEF SetupStart, IInv, ConnInv
    <3>3. conn[c].flag # "inbound" => conn[c].id \in Nodes
      BY ZenonT(60), <1>4 DEF SetupStart, IInv, ConnInv
    <3> DEFINE new == [st |-> "enc", flag |-> conn[c].flag, id |-> conn[c].id]
    <3>4. new = [st |-> new.st, flag |-> new.flag, id |-> new.id] /\ new.st = "enc"
          /\ (new.flag # "inbound" => new.id \in Nodes)
      BY <3>3
    <3>5. conn' = [conn EXCEPT ![c] = new] /\ UNCHANGED <<loop, peer, peers, inboundCount>>
      BY <1>4, <3>2 DEF SetupStart
    <3> HIDE DEF new
    <3> QED  BY <3>1, <3>4, <3>5, SetupKeeps, ZenonT(60)
  <2> QED  BY <2>1, <2>2
<1>5. ASSUME NEW c \in Conns, SetupFails(c)  PROVE IInv'
  BY <1>3, <1>5 DEF SetupFails
<1> QED  BY <1>1, <1>2, <1>4, <1>5

\* A run loop that blocks in Self changes nothing.
LEMMA BlocksKeeps == ASSUME IInv, Blocks PROVE IInv'
<1>1. LimitsHold' /\ Connected' = Connected
  BY SamePeers DEF Blocks
<1>2. ConnInv'
  BY DEF Blocks, IInv, ConnInv, Fields
<1>3. PeersAreKnown'
  BY <1>1 DEF Blocks, IInv, PeersAreKnown
<1> QED  BY <1>1, <1>2, <1>3 DEF IInv

\* Posthandshake: a connection that is not refused has a node from then on.
LEMMA PosthandshakeStep ==
  ASSUME IInv, NEW c \in Conns, Posthandshake(c)  PROVE IInv'
<1>1. PICK n \in IF conn[c].flag = "inbound" THEN Nodes ELSE {conn[c].id} :
        \/ /\ conn' = [conn EXCEPT ![c] = IF encHandshakeChecks(c, n) = "nil"
                                          THEN [st |-> "proto", flag |-> @.flag, id |-> n] ELSE Free]
           /\ UNCHANGED <<loop, peer, peers, inboundCount>>
        \/ Blocks
  BY DEF Posthandshake
<1>2. conn[c] = [st |-> "enc", flag |-> conn[c].flag, id |-> conn[c].id] /\ peer[c] = "none"
  BY DEF Posthandshake, IInv, ConnInv, Fields
<1>3. n \in Nodes
  BY <1>1, <1>2 DEF Posthandshake, IInv, ConnInv
<1>4. CASE Blocks
  BY <1>4, BlocksKeeps
<1>5. ASSUME conn' = [conn EXCEPT ![c] = [st |-> "proto", flag |-> @.flag, id |-> n]],
             UNCHANGED <<loop, peer, peers, inboundCount>>
      PROVE  IInv'
  <2> DEFINE new == [st |-> "proto", flag |-> conn[c].flag, id |-> n]
  <2>2. conn' = [conn EXCEPT ![c] = new]
    BY <1>5
  <2>3. new = [st |-> new.st, flag |-> new.flag, id |-> new.id]
        /\ new.st = "proto" /\ new.id \in Nodes
    BY <1>3
  <2> HIDE DEF new
  <2> QED  BY <1>2, <1>5, <2>2, <2>3, SetupKeeps, ZenonT(60)
<1>6. ASSUME conn' = [conn EXCEPT ![c] = Free], UNCHANGED <<loop, peer, peers, inboundCount>>
      PROVE  IInv'
  BY <1>2, <1>6, FreeKeeps, ZenonT(60)
<1> QED  BY <1>1, <1>4, <1>5, <1>6
-----------------------------------------------------------------------------
(* Steps that add, disconnect or remove a peer.                            *)

\* A connection that passes the checks is within the limits, and its node has no
\* peer.
LEMMA ChecksPassed ==
  ASSUME NEW c, NEW useless \in BOOLEAN, protoHandshakeChecks(c, useless) = "nil"
  PROVE  /\ peers[conn[c].id] = None
         /\ conn[c].id \notin TrustedNodes =>
              /\ conn[c].flag \in {"inbound", "dyn"} => ~(Cardinality(Connected) >= MaxPeers)
              /\ conn[c].flag = "inbound" => ~(inboundCount >= maxInboundConns)
BY DEF protoHandshakeChecks, encHandshakeChecks

\* A set of nodes with one node more.
LEMMA OneMore ==
  ASSUME NEW S, S \subseteq Nodes, NEW n \in Nodes \ S
  PROVE  /\ Cardinality(S) \in Nat
         /\ Cardinality(S \cup {n}) = Cardinality(S) + 1
<1>1. IsFiniteSet(S)
  BY DialAssumption, FS_Subset
<1> QED  BY <1>1, FS_AddElement, FS_CardinalityType

\* Addpeer: the new peer is in the map, and counted.
LEMMA NewPeer ==
  ASSUME IInv, NEW c \in Conns, conn[c].st = "proto", loop = "select",
         NEW useless \in BOOLEAN, protoHandshakeChecks(c, useless) = "nil",
         conn' = [conn EXCEPT ![c] = [@ EXCEPT !.st = "peer"]],
         peers' = [peers EXCEPT ![conn[c].id] = c],
         peer' = [peer EXCEPT ![c] = "run"],
         inboundCount' = inboundCount + (IF conn[c].flag = "inbound" THEN 1 ELSE 0),
         loop' = loop
  PROVE  IInv'
<1> DEFINE n == conn[c].id
<1> USE DialAssumption, ServerAssumption
<1>1. n \in Nodes /\ peer[c] = "none" /\ peers[n] = None /\ c # None
      /\ \A m \in Nodes : peers[m] # c
  BY ChecksPassed, ZenonT(60) DEF IInv, ConnInv, PeersAreKnown
<1>2. \A f, i : [[st |-> "proto", flag |-> f, id |-> i] EXCEPT !.st = "peer"]
                = [st |-> "peer", flag |-> f, id |-> i]
  OBVIOUS
<1>3. conn[c] = [st |-> "proto", flag |-> conn[c].flag, id |-> n]
  BY DEF IInv, ConnInv, Fields
<1>4. /\ conn'[c] = [st |-> "peer", flag |-> conn[c].flag, id |-> n]
      /\ \A b \in Conns \ {c} : conn'[b] = conn[b]
  <2>1. DOMAIN conn = Conns
    BY DEF IInv, ConnInv
  <2>2. conn'[c] = [conn[c] EXCEPT !.st = "peer"] /\ \A b \in Conns \ {c} : conn'[b] = conn[b]
    BY <2>1
  <2> QED  BY <1>2, <1>3, <2>2
<1>5. /\ peers' \in [Nodes -> Conns \cup {None}] /\ peers'[n] = c
      /\ \A m \in Nodes \ {n} : peers'[m] = peers[m]
  BY <1>1 DEF IInv, ConnInv
<1>6. /\ peer' \in [Conns -> {"none", "run", "closed", "self"}] /\ peer'[c] = "run"
      /\ \A b \in Conns \ {c} : peer'[b] = peer[b]
  BY DEF IInv, ConnInv
<1> HIDE DEF n
<1>7. ConnInv'
  <2>1. conn' = [b \in Conns |-> Fields(b)']
    BY <1>4 DEF IInv, ConnInv, Fields
  <2> QED  BY <1>1, <1>4, <1>5, <1>6, <2>1 DEF IInv, ConnInv
<1>8. PeersAreKnown'
  <2>1. \A b \in Conns : peer'[b] # "none" <=> \E m \in Nodes : peers'[m] = b
    BY <1>1, <1>5, <1>6 DEF IInv, PeersAreKnown
  <2>2. \A m \in Nodes : peers'[m] # None => conn'[peers'[m]].id = m
    <3>1. conn'[peers'[n]].id = n
      BY <1>4, <1>5
    <3>2. \A m \in Nodes \ {n} : peers[m] # None => peers[m] \in Conns \ {c}
      BY <1>1 DEF IInv, ConnInv
    <3>3. \A m \in Nodes \ {n} : peers'[m] # None => conn'[peers'[m]].id = m
      BY <1>4, <1>5, <3>2 DEF IInv, PeersAreKnown
    <3> QED  BY <3>1, <3>3
  <2> QED  BY <2>1, <2>2 DEF PeersAreKnown
<1>9. LimitsHold'
  <2>1. Connected' = Connected \cup {n} /\ n \notin Connected /\ Connected \subseteq Nodes
    BY <1>1, <1>5 DEF Connected
  <2>2. \A m \in Connected : conn'[peers'[m]] = conn[peers[m]]
    BY <1>1, <1>4, <1>5, <2>1 DEF Connected, IInv, ConnInv
  <2>3. conn'[peers'[n]].flag = conn[c].flag
    BY <1>4, <1>5
  <2>4. Cardinality(Connected) \in Nat
    BY <1>1, <2>1, OneMore, ZenonT(60)
  <2>5. inboundCount' = Cardinality(Inbound')
    <3>1. Inbound' = IF conn[c].flag = "inbound" THEN Inbound \cup {n} ELSE Inbound
      BY <2>1, <2>2, <2>3, ZenonT(60) DEF Inbound
    <3>2. Cardinality(Inbound) \in Nat /\ Cardinality(Inbound \cup {n}) = Cardinality(Inbound) + 1
      BY ZenonT(60), <1>1, <2>1, OneMore DEF Inbound
    <3> QED  BY <3>1, <3>2 DEF IInv, LimitsHold
  <2>6. ASSUME NEW F
        PROVE  /\ Limited(F)' = IF n \notin TrustedNodes /\ conn[c].flag \in F
                                THEN Limited(F) \cup {n} ELSE Limited(F)
               /\ Cardinality(Limited(F)) \in Nat
               /\ Cardinality(Limited(F) \cup {n}) = Cardinality(Limited(F)) + 1
               /\ Cardinality(Limited(F)) <= Cardinality(Connected)
    <3>1. Limited(F)' = IF n \notin TrustedNodes /\ conn[c].flag \in F
                        THEN Limited(F) \cup {n} ELSE Limited(F)
      BY <2>1, <2>2, <2>3, ZenonT(60) DEF Limited
    <3>2. Limited(F) \subseteq Connected
      BY DEF Limited
    <3>3. Limited(F) \subseteq Nodes /\ n \in Nodes \ Limited(F)
      BY <1>1, <2>1, <3>2
    <3>4. Cardinality(Limited(F)) <= Cardinality(Connected)
      BY <2>1, <3>2, FS_Subset
    <3> QED  BY ZenonT(60), <3>1, <3>3, <3>4, OneMore
  <2>7. Cardinality(Limited({"inbound", "dyn"})') <= MaxPeers
    <3> DEFINE F == {"inbound", "dyn"}
    <3>1. CASE n \notin TrustedNodes /\ conn[c].flag \in F
      <4>1. Limited(F)' = Limited(F) \cup {n}
        BY <2>6, <3>1, ZenonT(60)
      <4>2. ~(Cardinality(Connected) >= MaxPeers)
        BY <3>1, ChecksPassed DEF n
      <4>3. Cardinality(Limited(F) \cup {n}) <= MaxPeers
        <5>1. /\ Cardinality(Limited(F)) \in Nat
              /\ Cardinality(Limited(F) \cup {n}) = Cardinality(Limited(F)) + 1
              /\ Cardinality(Limited(F)) <= Cardinality(Connected)
          BY <2>6
        <5> HIDE DEF F
        <5> QED  BY <2>4, <4>2, <5>1
      <4> QED  BY <4>1, <4>3, ZenonT(60)
    <3>2. CASE ~(n \notin TrustedNodes /\ conn[c].flag \in F)
      <4>1. Limited(F)' = Limited(F)
        BY <2>6, <3>2, ZenonT(60)
      <4> QED  BY <4>1 DEF IInv, LimitsHold
    <3> QED  BY <3>1, <3>2
  <2>8. Cardinality(Limited({"inbound"})') <= maxInboundConns
    <3>1. Limited({"inbound"}) \subseteq Inbound /\ Inbound \subseteq Nodes
      BY <2>1 DEF Limited, Inbound
    <3>2. Cardinality(Limited({"inbound"})) <= Cardinality(Inbound) /\ Cardinality(Inbound) \in Nat
      BY <3>1, FS_Subset, FS_CardinalityType
    <3> DEFINE F == {"inbound"}
    <3>3. CASE n \notin TrustedNodes /\ conn[c].flag \in F
      <4>1. Limited(F)' = Limited(F) \cup {n}
        BY <2>6, <3>3, ZenonT(60)
      <4>2. ~(inboundCount >= maxInboundConns) /\ inboundCount = Cardinality(Inbound)
        BY <3>3, ChecksPassed DEF n, IInv, LimitsHold
      <4>3. Cardinality(Limited(F) \cup {n}) <= maxInboundConns
        <5>1. /\ Cardinality(Limited(F)) \in Nat
              /\ Cardinality(Limited(F) \cup {n}) = Cardinality(Limited(F)) + 1
          BY ZenonT(60), <2>6
        <5>2. maxInboundConns \in Nat
          BY DEF maxInboundConns
        <5> HIDE DEF F
        <5>3. Cardinality(Limited(F)) <= Cardinality(Inbound)
          BY <3>2 DEF F
        <5> QED  BY <3>2, <4>2, <5>1, <5>2, <5>3
      <4> QED  BY <4>1, <4>3, ZenonT(60)
    <3>4. CASE ~(n \notin TrustedNodes /\ conn[c].flag \in F)
      <4>1. Limited(F)' = Limited(F)
        BY <2>6, <3>4, ZenonT(60)
      <4> QED  BY <4>1 DEF IInv, LimitsHold
    <3> QED  BY <3>3, <3>4
  <2> QED  BY <2>5, <2>7, <2>8 DEF LimitsHold, maxInboundConns
<1> QED  BY <1>7, <1>8, <1>9 DEF IInv
\* Addpeer: the connection becomes a peer, is refused, or the run loop blocks.
LEMMA AddpeerStep ==
  ASSUME IInv, NEW c \in Conns, Addpeer(c)  PROVE IInv'
<1>1. PICK useless \in BOOLEAN :
        LET r == protoHandshakeChecks(c, useless)
        IN  \/ /\ r = "nil"
               /\ conn' = [conn EXCEPT ![c] = [@ EXCEPT !.st = "peer"]]
               /\ peers' = [peers EXCEPT ![conn[c].id] = c]
               /\ peer' = [peer EXCEPT ![c] = "run"]
               /\ inboundCount' = inboundCount + (IF conn[c].flag = "inbound" THEN 1 ELSE 0)
               /\ loop' = loop
            \/ /\ r # "nil"
               /\ conn' = [conn EXCEPT ![c] = Free]
               /\ UNCHANGED <<loop, peer, peers, inboundCount>>
            \/ Blocks
  BY DEF Addpeer
<1>2. conn[c].st = "proto" /\ loop = "select" /\ peer[c] = "none"
  BY DEF Addpeer, IInv, ConnInv
<1> QED  BY <1>1, <1>2, NewPeer, FreeKeeps, BlocksKeeps

\* A step that only moves peers out of "run" or "closed".
LEMMA Disconnects ==
  ASSUME IInv, UNCHANGED <<conn, peers>>,
         peer' \in [Conns -> {"none", "run", "closed", "self"}],
         \A c \in Conns : peer'[c] # "none" <=> peer[c] # "none",
         loop' = "select" => loop = "select" /\ inboundCount' = inboundCount,
         loop' = "spindown" => \A c \in Conns : peer'[c] # "run",
         loop' = "done" => Connected = {}
  PROVE  IInv'
<1>1. LimitsHold' /\ Connected' = Connected
  BY SamePeers
<1>2. ConnInv'
  BY DEF IInv, ConnInv, Fields
<1>3. PeersAreKnown'
  BY <1>1 DEF IInv, PeersAreKnown
<1> QED  BY <1>1, <1>2, <1>3 DEF IInv

\* SpinDown tells all peers, RemovePeer one, PeerEnds is one that ends itself, and
\* the handler of one waits.
LEMMA DisconnectSteps ==
  ASSUME IInv,
         \/ SpinDown \/ \E n \in Nodes : RemovePeer(n)
         \/ \E c \in Conns : PeerEnds(c) \/ HandlerWaits(c)
  PROVE  IInv'
<1>1. CASE SpinDown
  <2>1. /\ peer' \in [Conns -> {"none", "run", "closed", "self"}]
        /\ \A c \in Conns : peer'[c] # "none" <=> peer[c] # "none"
    BY <1>1 DEF SpinDown, IInv, ConnInv, PeersAreKnown
  <2>2. /\ UNCHANGED <<conn, peers>> /\ loop' # "select"
        /\ loop' = "done" => Connected = {}
    BY <1>1 DEF SpinDown
  <2>3. \A c \in Conns : peer'[c] # "run"
    BY <1>1 DEF SpinDown, IInv, PeersAreKnown
  <2> QED  BY <2>1, <2>2, <2>3, Disconnects
<1>2. ASSUME NEW n \in Nodes, RemovePeer(n)  PROVE IInv'
  <2>1. /\ peer' \in [Conns -> {"none", "run", "closed", "self"}]
        /\ \A c \in Conns : peer'[c] # "none" <=> peer[c] # "none"
    BY ZenonT(60), <1>2 DEF RemovePeer, IInv, ConnInv
  <2>2. UNCHANGED <<conn, peers, loop, inboundCount>> /\ loop = "select"
    BY <1>2 DEF RemovePeer
  <2> QED  BY <2>1, <2>2, Disconnects
<1>3. ASSUME NEW c \in Conns, PeerEnds(c) \/ HandlerWaits(c)  PROVE IInv'
  <2>1. /\ peer' \in [Conns -> {"none", "run", "closed", "self"}]
        /\ \A b \in Conns : peer'[b] # "none" <=> peer[b] # "none"
    BY ZenonT(60), <1>3 DEF PeerEnds, HandlerWaits, IInv, ConnInv
  <2>2. UNCHANGED <<conn, peers, loop, inboundCount>> /\ (loop = "done" => Connected = {})
    BY <1>3 DEF PeerEnds, HandlerWaits, IInv, PeersAreKnown
  <2>3. loop' = "spindown" => \A b \in Conns : peer'[b] # "run"
    BY <1>3 DEF PeerEnds, HandlerWaits, IInv, ConnInv, PeersAreKnown
  <2> QED  BY <2>1, <2>2, <2>3, Disconnects
<1> QED  BY <1>1, <1>2, <1>3

\* A set of nodes with one node less.
LEMMA OneLess ==
  ASSUME NEW S, S \subseteq Nodes, NEW n \in S
  PROVE  /\ Cardinality(S) \in Nat
         /\ Cardinality(S \ {n}) = Cardinality(S) - 1
<1>1. IsFiniteSet(S)
  BY DialAssumption, FS_Subset
<1> QED  BY <1>1, FS_RemoveElement, FS_CardinalityType

\* Delpeer: the peer leaves the map and the counts.
LEMMA DelpeerStep ==
  ASSUME IInv, NEW c \in Conns, Delpeer(c)  PROVE IInv'
<1> DEFINE n == conn[c].id
<1> USE DialAssumption, ServerAssumption
<1>1. n \in Nodes /\ peers[n] = c /\ c # None /\ \A m \in Nodes \ {n} : peers[m] # c
  <2>1. c # None
    OBVIOUS
  <2>2. PICK m \in Nodes : peers[m] = c
    BY DEF Delpeer, IInv, PeersAreKnown
  <2>3. \A k \in Nodes : peers[k] = c => conn[c].id = k
    BY ZenonT(60), <2>1 DEF IInv, PeersAreKnown
  <2> QED  BY <2>1, <2>2, <2>3
<1>2. conn'[c] = Free /\ \A b \in Conns \ {c} : conn'[b] = conn[b]
  BY ZenonT(60) DEF Delpeer, IInv, ConnInv
<1>3. /\ peers' \in [Nodes -> Conns \cup {None}] /\ peers'[n] = None
      /\ \A m \in Nodes \ {n} : peers'[m] = peers[m]
  BY ZenonT(60), <1>1 DEF Delpeer, IInv, ConnInv
<1>4. /\ peer' \in [Conns -> {"none", "run", "closed", "self"}] /\ peer'[c] = "none"
      /\ \A b \in Conns \ {c} : peer'[b] = peer[b]
  BY DEF Delpeer, IInv, ConnInv
<1>5. Connected' = Connected \ {n} /\ n \in Connected /\ Connected \subseteq Nodes
  BY <1>1, <1>3 DEF Connected
<1>6. /\ loop' = "select" =>
            /\ loop = "select"
            /\ inboundCount' = inboundCount - (IF conn[c].flag = "inbound" THEN 1 ELSE 0)
      /\ loop' = "done" => \A m \in Nodes : peers'[m] = None
      /\ loop' = "spindown" => loop = "spindown"
  BY DEF Delpeer
<1> HIDE DEF n
<1>7. ConnInv'
  <2>1. Free = [st |-> Free.st, flag |-> Free.flag, id |-> Free.id] /\ Free.st = "free"
    BY DEF Free
  <2>2. \A b \in Conns : conn'[b] = Fields(b)'
    <3>1. conn'[c] = Fields(c)'
      BY <1>2, <2>1 DEF Fields
    <3>2. \A b \in Conns : conn[b] = Fields(b)
      BY ZenonT(60) DEF IInv, ConnInv
    <3>3. \A b \in Conns \ {c} : conn'[b] = Fields(b)'
      BY ZenonT(60), <1>2, <3>2 DEF Fields
    <3> QED  BY <3>1, <3>3
  <2>3. conn' = [b \in Conns |-> conn'[b]]
    BY DEF Delpeer, IInv, ConnInv
  <2>4. conn' = [b \in Conns |-> Fields(b)']
    BY ZenonT(60), <2>2, <2>3
  <2> QED  BY <1>2, <1>3, <1>4, <2>1, <2>4 DEF IInv, ConnInv
<1>8. PeersAreKnown'
  <2>1. \A b \in Conns : peer'[b] # "none" <=> \E m \in Nodes : peers'[m] = b
    BY <1>1, <1>3, <1>4 DEF IInv, PeersAreKnown
  <2>2. \A m \in Nodes \ {n} : peers[m] # None => peers[m] \in Conns \ {c}
    BY ZenonT(60), <1>1 DEF IInv, ConnInv
  <2>3. \A m \in Nodes : peers'[m] # None => conn'[peers'[m]].id = m
    BY <1>2, <1>3, <2>2 DEF IInv, PeersAreKnown
  <2>4. loop' = "done" => Connected' = {}
    BY <1>6 DEF Connected
  <2>5. loop' = "spindown" => \A b \in Conns : peer'[b] # "run"
    BY <1>4, <1>6 DEF IInv, PeersAreKnown
  <2> QED  BY ZenonT(60), <2>1, <2>3, <2>4, <2>5 DEF PeersAreKnown
<1>9. LimitsHold'
  <2>1. \A m \in Connected \ {n} : conn'[peers'[m]] = conn[peers[m]]
    BY ZenonT(60), <1>1, <1>2, <1>3 DEF Connected, IInv, ConnInv
  <2>2. Inbound' = Inbound \ {n} /\ Inbound \subseteq Nodes
    BY ZenonT(60), <1>5, <2>1 DEF Inbound
  <2>3. n \in Inbound <=> conn[c].flag = "inbound"
    BY <1>1, <1>5 DEF Inbound
  <2>4. loop' = "select" => inboundCount' = Cardinality(Inbound')
    <3>1. CASE conn[c].flag = "inbound"
      BY ZenonT(60), <1>6, <2>2, <2>3, <3>1, OneLess DEF IInv, LimitsHold
    <3>2. CASE conn[c].flag # "inbound"
      <4>1. Inbound' = Inbound
        BY <2>2, <2>3, <3>2
      <4>2. Cardinality(Inbound) \in Nat
        BY ZenonT(60), <2>2, FS_Subset, FS_CardinalityType
      <4> QED  BY <1>6, <3>2, <4>1, <4>2 DEF IInv, LimitsHold
    <3> QED  BY ZenonT(60), <3>1, <3>2
  <2>5. ASSUME NEW F
        PROVE  /\ Cardinality(Limited(F)) \in Nat /\ Cardinality(Limited(F)') \in Nat
               /\ Cardinality(Limited(F)') <= Cardinality(Limited(F))
    <3>1. Limited(F)' \subseteq Limited(F) /\ Limited(F) \subseteq Nodes
      BY <1>5, <2>1 DEF Limited
    <3>2. IsFiniteSet(Limited(F))
      BY <3>1, FS_Subset
    <3> QED  BY ZenonT(60), <3>1, <3>2, FS_Subset, FS_CardinalityType
  <2>6. Cardinality(Limited({"inbound", "dyn"})') <= MaxPeers
    BY <2>5 DEF IInv, LimitsHold
  <2>7. Cardinality(Limited({"inbound"})') <= maxInboundConns
    BY <2>5 DEF IInv, LimitsHold, maxInboundConns
  <2> QED  BY ZenonT(60), <2>4, <2>6, <2>7 DEF LimitsHold, maxInboundConns
<1> QED  BY <1>7, <1>8, <1>9 DEF IInv
-----------------------------------------------------------------------------
(* The theorems.                                                           *)

\* Every step of the server keeps the invariant.
LEMMA StepIInv == ASSUME IInv, [Next]_vars PROVE IInv'
<1>1. ASSUME UNCHANGED <<loop, conn, peer, peers, inboundCount>>  PROVE IInv'
  BY <1>1, Disconnects, ZenonT(60) DEF IInv, ConnInv, PeersAreKnown
<1>2. CASE Accept \/ DialConnects \/ \E c \in Conns : SetupStart(c) \/ SetupFails(c)
  BY ZenonT(60), <1>2, SetupSteps
<1>3. CASE ListenEnds \/ DialFails \/ OtherTask \/ PeerOp \/ Expire \/ Stop \/ StopReturns
  BY <1>1, <1>3 DEF ListenEnds, DialFails, OtherTask, PeerOp, Expire, Stop, StopReturns
<1>4. CASE \E t \in Tasks : TaskDone(t)
  BY <1>1, <1>4 DEF TaskDone
<1>5. CASE \E n \in Nodes : AddPeer(n)
  BY <1>1, <1>5 DEF AddPeer
<1>6. CASE SpinDown \/ (\E n \in Nodes : RemovePeer(n))
           \/ \E c \in Conns : PeerEnds(c) \/ HandlerWaits(c)
  BY <1>6, DisconnectSteps
<1>7. CASE \E c \in Conns : Posthandshake(c)
  BY <1>7, PosthandshakeStep
<1>8. CASE \E c \in Conns : Addpeer(c)
  BY <1>8, AddpeerStep
<1>9. CASE \E c \in Conns : Delpeer(c)
  BY <1>9, DelpeerStep
<1>10. CASE UNCHANGED vars
  BY <1>1, <1>10 DEF vars
<1> QED  BY ZenonT(60), <1>2, <1>3, <1>4, <1>5, <1>6, <1>7, <1>8, <1>9, <1>10 DEF Next

\* However connections race at the checkpoints of the run loop, the peers in its map
\* are the peers with a goroutine, one for each node, and none is left at its end.
THEOREM OnePeerPerNode == Spec => []PeersAreKnown
<1>1. IInv => PeersAreKnown
  BY DEF IInv
<1> QED  BY <1>1, InitIInv, StepIInv, PTL DEF Spec

\* encHandshakeChecks keeps the limits for peers and for inbound connections, with
\* trusted nodes, static nodes and storemen exempt as they are in the code.
THEOREM LimitsAreKept == Spec => []LimitsHold
<1>1. IInv => LimitsHold
  BY DEF IInv
<1> QED  BY <1>1, InitIInv, StepIInv, PTL DEF Spec
-----------------------------------------------------------------------------
(* The dialer.  First startTasks.                                          *)

\* There are finitely many tasks.
LEMMA TasksFinite ==
  ASSUME NEW S, S \subseteq Tasks
  PROVE  IsFiniteSet(S) /\ Cardinality(S) \in Nat
<1>1. IsFiniteSet({Lookup, WaitExpire})
  <2>1. IsFiniteSet({Lookup}) /\ {Lookup, WaitExpire} = {Lookup} \cup {WaitExpire}
    BY ZenonT(60), FS_Singleton
  <2> QED  BY <2>1, FS_AddElement
<1>2. IsFiniteSet(Tasks)
  BY ZenonT(60), <1>1, DialAssumption, FS_Union DEF Tasks
<1> QED  BY <1>2, FS_Subset, FS_CardinalityType

\* The first m tasks of a list are m at most.
LEMMA FirstTasks ==
  ASSUME NEW s \in Seq(Tasks), NEW m \in 0..Len(s)
  PROVE  LET new == {s[i] : i \in 1..m}
         IN  new \subseteq Tasks /\ Cardinality(new) <= m
<1> DEFINE new == {s[i] : i \in 1..m}
           f == [i \in 1..m |-> s[i]]
<1>1. Len(s) \in Nat /\ m \in Nat /\ \A i \in 1..m : s[i] \in Tasks
  OBVIOUS
<1>2. new \subseteq Tasks
  BY <1>1
<1>3. f \in Surjection(1..m, new)
  BY DEF Surjection
<1>4. IsFiniteSet(1..m) /\ Cardinality(1..m) = m
  BY <1>1, FS_Interval
<1>5. Cardinality(new) <= m
  <2> DEFINE I == 1..m
  <2>1. IsFiniteSet(I) /\ f \in Surjection(I, new) /\ Cardinality(I) = m
    BY ZenonT(60), <1>3, <1>4
  <2> HIDE DEF f, new, I
  <2>2. Cardinality(new) <= Cardinality(I)
    BY ZenonT(60), <2>1, FS_Surjection
  <2> QED  BY ZenonT(60), <2>1, <2>2
<1> QED  BY <1>2, <1>5

\* startTasks starts tasks from the front of the list, up to the limit, and keeps
\* the rest; nothing is lost, and nothing runs twice.
LEMMA StartedTasks ==
  ASSUME NEW running, DOMAIN running \subseteq Tasks,
         Cardinality(DOMAIN running) <= maxActiveDialTasks,
         NEW ts \in Seq(Tasks)
  PROVE  LET s == Started(running, ts)
         IN  /\ DOMAIN s.running \subseteq Tasks
             /\ Cardinality(DOMAIN s.running) <= maxActiveDialTasks
             /\ s.rest \in Seq(Tasks)
             /\ DOMAIN s.running \cup Elems(s.rest) = DOMAIN running \cup Elems(ts)
             /\ DOMAIN s.running = {} =>
                  DOMAIN running = {} /\ ts = <<>> /\ s.rest = <<>>
             /\ Distinct(ts) /\ (\A x \in Nodes : ~(x \in Elems(ts) /\ x \in DOMAIN running)) =>
                  /\ Distinct(s.rest)
                  /\ \A x \in Nodes : ~(x \in Elems(s.rest) /\ x \in DOMAIN s.running)
<1> DEFINE k == maxActiveDialTasks - Cardinality(DOMAIN running)
           m == IF k < Len(ts) THEN k ELSE Len(ts)
           new == {ts[i] : i \in 1..m}
           run == [t \in DOMAIN running \cup new |-> IF t \in new THEN "dial" ELSE running[t]]
           rest == SubSeq(ts, m + 1, Len(ts))
<1>1. Started(running, ts).running = run /\ Started(running, ts).rest = rest
  BY ZenonT(60) DEF Started
<1>2. /\ Len(ts) \in Nat /\ maxActiveDialTasks \in Nat \ {0}
      /\ Cardinality(DOMAIN running) \in Nat /\ k \in Nat /\ m \in 0..Len(ts)
      /\ IsFiniteSet(DOMAIN running)
  BY ServerAssumption, TasksFinite
<1>3. new \subseteq Tasks /\ Cardinality(new) <= m
  BY <1>2, FirstTasks
<1>4. DOMAIN run = DOMAIN running \cup new
  OBVIOUS
<1>5. /\ rest \in Seq(Tasks) /\ Len(rest) = Len(ts) - m
      /\ \A i \in 1..(Len(ts) - m) : rest[i] = ts[m + i]
  <2>1. \A i \in (m + 1)..Len(ts) : ts[i] \in Tasks
    BY <1>2
  <2>2. m + 1 \in Int /\ Len(ts) \in Int
    BY <1>2
  <2> HIDE DEF m
  <2>3. /\ rest \in Seq(Tasks)
        /\ Len(rest) = IF m + 1 <= Len(ts) THEN Len(ts) - (m + 1) + 1 ELSE 0
        /\ \A i \in 1..(Len(ts) - (m + 1) + 1) : rest[i] = ts[(m + 1) + i - 1]
    BY <2>1, <2>2
  <2>4. m \in Nat /\ m <= Len(ts)
    BY <1>2
  <2>5. Len(ts) - (m + 1) + 1 = Len(ts) - m /\ \A i \in Nat : (m + 1) + i - 1 = m + i
    BY <2>4, <1>2
  <2> HIDE DEF rest
  <2>6. Len(rest) = Len(ts) - m
    BY <2>3, <2>4, <1>2
  <2>7. ASSUME NEW i \in 1..(Len(ts) - m) PROVE rest[i] = ts[m + i]
    <3>1. i \in 1..(Len(ts) - (m + 1) + 1) /\ i \in Nat
      BY <2>5, <1>2
    <3>2. rest[i] = ts[(m + 1) + i - 1]
      BY ZenonT(60), <2>3, <3>1
    <3> QED  BY <2>5, <3>1, <3>2
  <2> QED  BY <2>3, <2>6, <2>7
<1>6. Cardinality(DOMAIN running \cup new) <= maxActiveDialTasks
  <2>1. IsFiniteSet(new) /\ Cardinality(new) \in Nat
    BY <1>3, TasksFinite
  <2>2. Cardinality(DOMAIN running \cap new) \in Nat
    BY ZenonT(60), <1>3, TasksFinite
  <2>3. Cardinality(DOMAIN running \cup new)
          = Cardinality(DOMAIN running) + Cardinality(new) - Cardinality(DOMAIN running \cap new)
    BY <1>2, <2>1, FS_Union
  <2>4. m <= maxActiveDialTasks - Cardinality(DOMAIN running) /\ m \in Nat
    BY <1>2
  <2> DEFINE a == Cardinality(DOMAIN running)
             b == Cardinality(new)
             c == Cardinality(DOMAIN running \cap new)
             u == Cardinality(DOMAIN running \cup new)
  <2>5. /\ a \in Nat /\ b \in Nat /\ c \in Nat /\ b <= m /\ u = a + b - c
        /\ m <= maxActiveDialTasks - a /\ maxActiveDialTasks \in Nat
    BY ZenonT(60), <1>2, <1>3, <2>1, <2>2, <2>3, <2>4
  <2> HIDE DEF a, b, c, u, m, k, new, run, rest
  <2>6. u <= maxActiveDialTasks
    BY <2>4, <2>5
  <2> QED  BY ZenonT(60), <2>6 DEF u
<1>7. DOMAIN run = {} => DOMAIN running = {} /\ ts = <<>> /\ rest = <<>>
  <2> SUFFICES ASSUME DOMAIN run = {} PROVE DOMAIN running = {} /\ ts = <<>> /\ rest = <<>>
    BY ZenonT(60)
  <2>1. DOMAIN running = {} /\ new = {}
    BY ZenonT(60), <1>4
  <2>2. k >= 1
    BY <1>2, <2>1, FS_EmptySet
  <2>3. m = 0
    <3>1. m \in Nat
      BY <1>2
    <3> HIDE DEF m
    <3>2. m >= 1 => ts[1] \in new
      BY <3>1
    <3> HIDE DEF new
    <3> QED  BY <2>1, <3>1, <3>2
  <2>4. Len(ts) = 0
    BY <1>2, <2>2, <2>3
  <2>5. ts = <<>> /\ rest = <<>>
    BY <1>5, <2>3, <2>4
  <2> QED  BY <2>1, <2>5
<1> HIDE DEF m
<1>8. new \cup Elems(rest) = Elems(ts)
  <2>1. m \in Nat /\ m <= Len(ts)
    BY <1>2
  <2>2. new \subseteq Elems(ts)
    BY <1>2, <2>1 DEF Elems
  <2>3. Elems(rest) \subseteq Elems(ts)
    <3> SUFFICES ASSUME NEW i \in 1..(Len(ts) - m) PROVE rest[i] \in Elems(ts)
      BY ZenonT(60), <1>5 DEF Elems
    <3>1. m + i \in 1..Len(ts) /\ rest[i] = ts[m + i]
      BY <1>2, <1>5, <2>1
    <3> QED  BY ZenonT(60), <3>1 DEF Elems
  <2>4. ASSUME NEW j \in 1..Len(ts) PROVE ts[j] \in new \cup Elems(rest)
    <3>1. CASE j <= m
      BY <3>1, <1>2, <2>1
    <3>2. CASE ~(j <= m)
      <4>1. j - m \in 1..(Len(ts) - m) /\ m + (j - m) = j
        BY <3>2, <1>2, <2>1
      <4>2. rest[j - m] = ts[j]
        BY ZenonT(60), <4>1, <1>5
      <4> QED  BY <4>1, <4>2, <1>5 DEF Elems
    <3> QED  BY <3>1, <3>2
  <2> QED  BY ZenonT(60), <2>2, <2>3, <2>4 DEF Elems
<1>9. ASSUME Distinct(ts), \A x \in Nodes : ~(x \in Elems(ts) /\ x \in DOMAIN running)
      PROVE  /\ Distinct(rest)
             /\ \A x \in Nodes : ~(x \in Elems(rest) /\ x \in DOMAIN run)
  <2>1. m \in Nat /\ m <= Len(ts)
    BY <1>2
  <2>2. \A i \in 1..(Len(ts) - m) : m + i \in 1..Len(ts) /\ rest[i] = ts[m + i]
    BY <1>2, <1>5, <2>1
  <2>3. Distinct(rest)
    <3> SUFFICES ASSUME NEW i \in 1..(Len(ts) - m), NEW j \in 1..(Len(ts) - m),
                        rest[i] \in Nodes, rest[i] = rest[j]
                 PROVE  i = j
      BY <1>5 DEF Distinct
    <3>1. m + i = m + j
      BY ZenonT(60), <1>9, <2>2 DEF Distinct
    <3> QED  BY <3>1, <2>1, <1>2
  <2>4. ASSUME NEW x \in Nodes, x \in Elems(rest), x \in new PROVE FALSE
    <3>1. PICK i \in 1..(Len(ts) - m) : x = rest[i]
      BY <2>4, <1>5 DEF Elems
    <3>2. PICK j \in 1..m : x = ts[j]
      BY <2>4
    <3>3. m + i = j
      <4>1. m + i \in 1..Len(ts) /\ x = ts[m + i]
        BY ZenonT(60), <2>2, <3>1
      <4>2. j \in 1..Len(ts)
        BY <2>1, <1>2
      <4> QED  BY ZenonT(60), <1>9, <3>2, <4>1, <4>2 DEF Distinct
    <3> QED  BY <3>3, <2>1, <1>2
  <2>5. \A x \in Nodes : ~(x \in Elems(rest) /\ x \in DOMAIN running)
    BY ZenonT(60), <1>8, <1>9
  <2> QED  BY ZenonT(60), <1>4, <2>3, <2>4, <2>5
<1> HIDE DEF run, rest, new
<1> QED  BY <1>1, <1>3, <1>4, <1>5, <1>6, <1>7, <1>8, <1>9

-----------------------------------------------------------------------------
-----------------------------------------------------------------------------
(* The run loop and the dialer.                                            *)

\* The dialer e, with the tasks that run and the tasks that wait: a node is marked as
\* dialled exactly when it is one of these tasks, and it is one of them once.
Dialer(e, running, waiting) ==
  /\ e \in DialRec /\ DOMAIN running \subseteq Tasks /\ waiting \in Seq(Tasks)
  /\ Cardinality(DOMAIN running) <= maxActiveDialTasks
  /\ \A n \in Nodes : e.dialing[n] # "no" <=> n \in DOMAIN running \cup Elems(waiting)
  /\ Distinct(waiting)
  /\ \A n \in Nodes : ~(n \in Elems(waiting) /\ n \in DOMAIN running)

\* With no task running nobody on the lists of the dialer is without a connection.
Ticks(e, running, ps) == DOMAIN running = {} => \A n \in e.static \cup e.storeman : ps[n] # None

\* From the dialer e, newTasks returns x, and startTasks leaves s2 of its tasks.
NewStarted(e, running, waiting, x, s2) ==
  /\ Dialer(e, running, waiting) /\ s2 = Started(running, x.tasks)
  /\ \E nRunning, C, nDyn : x \in newTasks(e, nRunning, C, nDyn)

\* newTasks and startTasks keep the marks and the tasks together.
LEMMA AfterNewTasks ==
  ASSUME NEW e, NEW running, NEW waiting, NEW x, NEW s2, NewStarted(e, running, waiting, x, s2)
  PROVE  /\ Dialer(x.d, s2.running, waiting \o s2.rest)
         /\ DOMAIN s2.running = {} => DOMAIN running = {} /\ x.tasks = <<>>
<1>a. Dialer(e, running, waiting) /\ s2 = Started(running, x.tasks)
  BY ZenonT(60) DEF NewStarted
<1>b. PICK nRunning, C, nDyn : x \in newTasks(e, nRunning, C, nDyn)
  BY ZenonT(60) DEF NewStarted
<1>1. /\ x.d \in DialRec /\ x.tasks \in Seq(Tasks) /\ Distinct(x.tasks)
      /\ \A n \in Nodes :
           /\ n \in Elems(x.tasks) => e.dialing[n] = "no"
           /\ x.d.dialing[n] # "no" <=> e.dialing[n] # "no" \/ n \in Elems(x.tasks)
  BY ZenonT(60), <1>a, <1>b, NewTasks DEF Dialer
<1> DEFINE ts == x.tasks
<1>2. /\ DOMAIN running \subseteq Tasks /\ Cardinality(DOMAIN running) <= maxActiveDialTasks
      /\ waiting \in Seq(Tasks) /\ Distinct(waiting)
      /\ \A n \in Nodes : e.dialing[n] # "no" <=> n \in DOMAIN running \cup Elems(waiting)
      /\ \A n \in Nodes : ~(n \in Elems(waiting) /\ n \in DOMAIN running)
  BY ZenonT(60), <1>a DEF Dialer
<1>3. \A n \in Nodes : /\ ~(n \in Elems(ts) /\ n \in DOMAIN running)
                       /\ ~(n \in Elems(ts) /\ n \in Elems(waiting))
  BY ZenonT(60), <1>1, <1>2
<1>4. /\ DOMAIN s2.running \subseteq Tasks
      /\ Cardinality(DOMAIN s2.running) <= maxActiveDialTasks
      /\ s2.rest \in Seq(Tasks)
      /\ DOMAIN s2.running \cup Elems(s2.rest) = DOMAIN running \cup Elems(ts)
      /\ DOMAIN s2.running = {} => DOMAIN running = {} /\ ts = <<>> /\ s2.rest = <<>>
      /\ Distinct(s2.rest)
      /\ \A n \in Nodes : ~(n \in Elems(s2.rest) /\ n \in DOMAIN s2.running)
  <2> HIDE DEF ts
  <2>1. ts \in Seq(Tasks) /\ Distinct(ts) /\ s2 = Started(running, ts)
    BY ZenonT(60), <1>a, <1>1 DEF ts
  <2>2. /\ DOMAIN running \subseteq Tasks /\ Cardinality(DOMAIN running) <= maxActiveDialTasks
        /\ \A n \in Nodes : ~(n \in Elems(ts) /\ n \in DOMAIN running)
    BY ZenonT(60), <1>2, <1>3
  <2> QED  BY ZenonT(60), <2>1, <2>2, StartedTasks
<1> DEFINE q == waiting \o s2.rest
<1>5. \A n \in Nodes : n \in Elems(s2.rest) => n \notin Elems(waiting)
  BY ZenonT(60), <1>2, <1>3, <1>4
<1>6. q \in Seq(Tasks) /\ Elems(q) = Elems(waiting) \cup Elems(s2.rest)
  <2>1. waiting \in Seq(Tasks) /\ s2.rest \in Seq(Tasks)
    BY ZenonT(60), <1>2, <1>4
  <2> QED  BY <2>1, ElemsConcat
<1>7. Distinct(q)
  BY ZenonT(60), <1>2, <1>4, <1>5, DistinctConcat
<1> HIDE DEF q
<1>8. \A n \in Nodes : x.d.dialing[n] # "no" <=> n \in DOMAIN s2.running \cup Elems(q)
  BY ZenonT(60), <1>1, <1>2, <1>4, <1>6
<1>9. \A n \in Nodes : ~(n \in Elems(q) /\ n \in DOMAIN s2.running)
  BY ZenonT(60), <1>2, <1>3, <1>4, <1>6
<1> QED  BY ZenonT(60), <1>1, <1>4, <1>6, <1>7, <1>8, <1>9 DEF Dialer, q

\* scheduleTasks does, and leaves the loop with something to wake it.
LEMMA Schedules ==
  ASSUME NEW e, NEW running, NEW ps, Dialer(e, running, queued),
         scheduleTasks(e, running, ps)
  PROVE  Dialer(d', tasks', queued') /\ Ticks(d', tasks', ps)
<1> USE DialAssumption, ServerAssumption
<1> DEFINE s == Started(running, queued)
           k == Cardinality(DOMAIN s.running)
           C == {m \in Nodes : ps[m] # None}
           new == newTasks(e, k + Len(s.rest), C, NDyn(ps))
<1>1. /\ DOMAIN s.running \subseteq Tasks /\ Cardinality(DOMAIN s.running) <= maxActiveDialTasks
      /\ s.rest \in Seq(Tasks)
      /\ DOMAIN s.running \cup Elems(s.rest) = DOMAIN running \cup Elems(queued)
      /\ DOMAIN s.running = {} => DOMAIN running = {} /\ queued = <<>> /\ s.rest = <<>>
      /\ Distinct(s.rest)
      /\ \A n \in Nodes : ~(n \in Elems(s.rest) /\ n \in DOMAIN s.running)
  BY ZenonT(60), StartedTasks DEF Dialer
<1>2. IF k < maxActiveDialTasks
      THEN \E x \in new :
             d' = x.d /\ tasks' = Started(s.running, x.tasks).running
             /\ queued' = s.rest \o Started(s.running, x.tasks).rest
      ELSE d' = e /\ tasks' = s.running /\ queued' = s.rest
  BY ZenonT(60) DEF scheduleTasks
<1> HIDE DEF s
<1>3. Dialer(e, s.running, s.rest)
  BY ZenonT(60), <1>1 DEF Dialer
<1>4. CASE ~(k < maxActiveDialTasks)
  <2>1. d' = e /\ tasks' = s.running /\ queued' = s.rest
    BY <1>2, <1>4, ZenonT(60)
  <2>2. DOMAIN tasks' # {}
    <3>1. DOMAIN s.running = {} => k = 0
      BY ZenonT(60), FS_EmptySet
    <3>2. 0 < maxActiveDialTasks
      OBVIOUS
    <3> HIDE DEF k
    <3> QED  BY ZenonT(60), <1>4, <2>1, <3>1, <3>2
  <2> QED  BY <1>3, <2>1, <2>2 DEF Ticks
<1>5. CASE k < maxActiveDialTasks
  <2> HIDE DEF new
  <2>1. PICK x \in new :
          d' = x.d /\ tasks' = Started(s.running, x.tasks).running
          /\ queued' = s.rest \o Started(s.running, x.tasks).rest
    BY <1>2, <1>5, ZenonT(60)
  <2> DEFINE s2 == Started(s.running, x.tasks)
  <2>2. x \in newTasks(e, k + Len(s.rest), C, NDyn(ps))
    BY ZenonT(60) DEF new
  <2>3. /\ Dialer(x.d, s2.running, s.rest \o s2.rest)
        /\ DOMAIN s2.running = {} => DOMAIN s.running = {} /\ x.tasks = <<>>
    <3> DEFINE r == s.running
               w == s.rest
    <3>1. NewStarted(e, r, w, x, s2)
      BY ZenonT(60), <1>3, <2>2 DEF NewStarted
    <3> HIDE DEF s2, r, w
    <3>2. /\ Dialer(x.d, s2.running, w \o s2.rest)
          /\ DOMAIN s2.running = {} => DOMAIN r = {} /\ x.tasks = <<>>
      BY ZenonT(60), <3>1, AfterNewTasks
    <3> QED  BY ZenonT(60), <3>2 DEF r, w
  <2>4. d' = x.d /\ tasks' = s2.running /\ queued' = s.rest \o s2.rest
    BY <2>1
  <2> HIDE DEF s2
  <2>5. ASSUME DOMAIN tasks' = {} PROVE \A n \in d'.static \cup d'.storeman : ps[n] # None
    <3>1. DOMAIN s.running = {} /\ x.tasks = <<>> /\ s.rest = <<>>
      BY ZenonT(60), <1>1, <2>3, <2>4, <2>5
    <3>2. k + Len(s.rest) = 0
      <4>1. k = 0
        BY ZenonT(60), <3>1, FS_EmptySet
      <4>2. Len(s.rest) = 0
        BY <3>1
      <4> HIDE DEF k
      <4> QED  BY <4>1, <4>2
    <3>3. Elems(<<>>) = {}
      BY DEF Elems
    <3>4. \A n \in Nodes : e.dialing[n] = "no"
      BY ZenonT(60), <1>3, <3>1, <3>3 DEF Dialer
    <3>5. \A n \in x.d.static \cup x.d.storeman : n \in C
      <4>1. e \in DialRec
        BY <1>3 DEF Dialer
      <4> HIDE DEF k, C
      <4>2. x.tasks = <<>> /\ k + Len(s.rest) = 0 /\ (\A n \in Nodes : e.dialing[n] = "no") =>
              \A n \in x.d.static \cup x.d.storeman : n \in C
        BY ZenonT(60), <2>2, <4>1, NewTasks
      <4> QED  BY ZenonT(60), <3>1, <3>2, <3>4, <4>2
    <3> QED  BY ZenonT(60), <2>4, <3>5
  <2> QED  BY <2>3, <2>4, <2>5 DEF Ticks
<1> QED  BY ZenonT(60), <1>4, <1>5

\* The dialer and its tasks only depend on the marks.
LEMMA SameMarks ==
  ASSUME NEW e, NEW running, NEW waiting, Dialer(e, running, waiting),
         NEW f \in DialRec, f.dialing = e.dialing, NEW run2, DOMAIN run2 = DOMAIN running
  PROVE  Dialer(f, run2, waiting)
BY DEF Dialer

\* A task that is done, and no longer runs, leaves its node unmarked.
LEMMA TaskEnds ==
  ASSUME NEW t \in Tasks, Dialer(d, tasks, queued), t \in DOMAIN tasks
  PROVE  Dialer(taskDone(d, t), [x \in DOMAIN tasks \ {t} |-> tasks[x]], queued)
<1> USE DialAssumption, ServerAssumption
<1> DEFINE f == taskDone(d, t)
           run == [x \in DOMAIN tasks \ {t} |-> tasks[x]]
<1>1. DOMAIN run = DOMAIN tasks \ {t}
  BY ZenonT(60)
<1>2. f \in DialRec /\ \A n \in Nodes : f.dialing[n] = IF n = t THEN "no" ELSE d.dialing[n]
  <2>1. d \in DialRec
    BY DEF Dialer
  <2>2. CASE t \in Nodes
    <3>1. f = [d EXCEPT !.hist = Append(d.hist, t), !.dialing = [d.dialing EXCEPT ![t] = "no"]]
      BY <2>1, <2>2 DEF taskDone, DialRec
    <3>2. Append(d.hist, t) \in Seq(Nodes)
      BY <2>1, <2>2 DEF DialRec
    <3>3. [d.dialing EXCEPT ![t] = "no"] \in [Nodes -> Flags]
      BY ZenonT(60), <2>1 DEF DialRec, Flags
    <3> QED  BY ZenonT(60), <2>1, <2>2, <3>1, <3>2, <3>3 DEF DialRec
  <2>3. CASE t \notin Nodes
    BY ZenonT(60), <2>1, <2>3 DEF taskDone, DialRec
  <2> QED  BY ZenonT(60), <2>2, <2>3
<1>3. Cardinality(DOMAIN run) <= maxActiveDialTasks
  <2>1. /\ IsFiniteSet(DOMAIN tasks) /\ DOMAIN run \subseteq DOMAIN tasks
        /\ Cardinality(DOMAIN tasks) <= maxActiveDialTasks
    BY ZenonT(60), <1>1, TasksFinite DEF Dialer
  <2> HIDE DEF run
  <2>2. Cardinality(DOMAIN run) <= Cardinality(DOMAIN tasks)
        /\ Cardinality(DOMAIN run) \in Nat /\ Cardinality(DOMAIN tasks) \in Nat
    BY ZenonT(60), <2>1, FS_Subset, FS_CardinalityType
  <2> QED  BY <2>1, <2>2
<1> HIDE DEF f, run
<1>4. \A n \in Nodes : f.dialing[n] # "no" <=> n \in DOMAIN run \cup Elems(queued)
  BY ZenonT(60), <1>1, <1>2 DEF Dialer
<1>5. Dialer(f, run, queued)
  BY ZenonT(60), <1>1, <1>2, <1>3, <1>4 DEF Dialer
<1> QED  BY <1>5 DEF f, run

-----------------------------------------------------------------------------
(* The steps of the server.                                                *)

ConnTypes ==
  \A c \in Conns :
    /\ conn[c].st \in {"free", "start", "enc", "proto", "peer"}
    /\ conn[c].flag \in {"inbound", "static", "storeman", "dyn"}
    /\ conn[c].id \in Nodes \cup {None}

DialInv ==
  /\ stop \in {"no", "wait", "returned"} /\ listening \in BOOLEAN
  /\ loop \in {"select", "blocked", "spindown", "done"}
  /\ inboundCount \in Nat /\ ConnTypes
  /\ Dialer(d, tasks, queued)
  /\ loop = "select" => Ticks(d, tasks, peers)

\* A new dialer, without tasks.
LEMMA NewDialer == newDialState \in DialRec /\ Dialer(newDialState, <<>>, <<>>)
<1> USE DialAssumption, ServerAssumption
<1>1. newDialState \in DialRec /\ \A n \in Nodes : newDialState.dialing[n] = "no"
  BY DEF newDialState, DialRec, Flags
<1>2. DOMAIN <<>> = {} /\ <<>> \in Seq(Tasks) /\ Elems(<<>>) = {} /\ Distinct(<<>>)
  BY DEF Elems, Distinct
<1>3. Cardinality({}) = 0
  BY FS_EmptySet
<1>4. 0 <= maxActiveDialTasks
  OBVIOUS
<1> QED  BY ZenonT(60), <1>1, <1>2, <1>3, <1>4 DEF Dialer

\* The server starts with an empty list of peers, and the leader to be dialled.
LEMMA InitDialInv == Init => DialInv
<1> SUFFICES ASSUME Init PROVE DialInv  OBVIOUS
<1> USE DialAssumption, ServerAssumption
<1>1. ConnTypes
  BY DEF Init, ConnTypes, Free
<1>2. PICK x \in newTasks(newDialState, 0, {}, 0) :
        d = x.d /\ tasks = Started(<<>>, x.tasks).running /\ queued = Started(<<>>, x.tasks).rest
  BY ZenonT(60) DEF Init
<1> DEFINE s2 == Started(<<>>, x.tasks)
<1>3. /\ Dialer(x.d, s2.running, <<>> \o s2.rest)
      /\ DOMAIN s2.running = {} => x.tasks = <<>>
  <2> DEFINE none == <<>>
             new == newDialState
  <2>1. NewStarted(new, none, none, x, s2)
    BY ZenonT(60), NewDialer DEF NewStarted
  <2> HIDE DEF none, new, s2
  <2>2. /\ Dialer(x.d, s2.running, none \o s2.rest)
        /\ DOMAIN s2.running = {} => x.tasks = <<>>
    BY ZenonT(60), <2>1, AfterNewTasks
  <2> QED  BY <2>2 DEF none
<1>4. s2.rest \in Seq(Tasks)
  <2>1. x.tasks \in Seq(Tasks)
    BY ZenonT(60), NewDialer, NewTasks
  <2>2. DOMAIN <<>> \subseteq Tasks /\ Cardinality(DOMAIN <<>>) <= maxActiveDialTasks
    BY NewDialer DEF Dialer
  <2> QED  BY ZenonT(60), <2>1, <2>2, StartedTasks
<1>5. <<>> \o s2.rest = s2.rest
  <2> HIDE DEF s2
  <2> QED  BY <1>4
<1>6. Dialer(d, tasks, queued)
  BY ZenonT(60), <1>2, <1>3, <1>5
<1>7. Ticks(d, tasks, peers)
  <2> SUFFICES ASSUME DOMAIN tasks = {} PROVE \A n \in d.static \cup d.storeman : peers[n] # None
    BY ZenonT(60) DEF Ticks
  <2>1. x.tasks = <<>>
    BY ZenonT(60), <1>2, <1>3
  <2>2. \A n \in Nodes : newDialState.dialing[n] = "no"
    BY ZenonT(60) DEF newDialState
  <2>3. \A n \in x.d.static \cup x.d.storeman : n \in {}
    BY ZenonT(60), <2>1, <2>2, NewDialer, NewTasks
  <2> QED  BY ZenonT(60), <1>2, <2>3
<1> QED  BY ZenonT(60), <1>1, <1>6, <1>7 DEF DialInv, Init

\* A connection changes its state, and knows its node when it has one.
LEMMA ConnStep ==
  ASSUME IInv, DialInv, Next
  PROVE  ConnTypes'
<1>1. ASSUME NEW c \in Conns, NEW new, conn' = [conn EXCEPT ![c] = new],
             new.st \in {"free", "start", "enc", "proto", "peer"},
             new.flag \in {"inbound", "static", "storeman", "dyn"},
             new.id \in Nodes \cup {None}
      PROVE  ConnTypes'
  <2>1. \A b \in Conns : conn'[b] = IF b = c THEN new ELSE conn[b]
    BY <1>1 DEF IInv, ConnInv
  <2> QED  BY ZenonT(60), <1>1, <2>1 DEF DialInv, ConnTypes
<1>2. ASSUME NEW c \in Conns, conn' = [conn EXCEPT ![c] = Free] PROVE ConnTypes'
  BY <1>1, <1>2, ZenonT(60) DEF Free
<1>3. ASSUME conn' = conn PROVE ConnTypes'
  BY <1>3 DEF DialInv, ConnTypes
<1>4. CASE Accept
  <2>1. NewConn \in Conns
    BY <1>4, FreeConn DEF Accept
  <2>2. [Free EXCEPT !.st = "start"] = [st |-> "start", flag |-> "inbound", id |-> None]
    BY DEF Free
  <2> QED  BY <1>1, <1>4, <2>1, <2>2, ZenonT(60) DEF Accept
<1>5. CASE DialConnects
  <2>1. PICK n \in Nodes \cap DOMAIN tasks :
          /\ \E c \in Conns : IsFree(c)
          /\ conn' = [conn EXCEPT ![NewConn] = [st |-> "start", flag |-> d.dialing[n], id |-> n]]
    BY <1>5, ZenonT(60) DEF DialConnects
  <2>2. NewConn \in Conns
    BY ZenonT(60), <2>1, FreeConn
  <2>3. d.dialing[n] \in {"static", "storeman", "dyn"}
    BY ZenonT(60) DEF DialInv, Dialer, DialRec, Flags
  <2> DEFINE new == [st |-> "start", flag |-> d.dialing[n], id |-> n]
             c   == NewConn
  <2>4. /\ new.st \in {"free", "start", "enc", "proto", "peer"}
        /\ new.flag \in {"inbound", "static", "storeman", "dyn"}
        /\ new.id \in Nodes \cup {None}
    BY <2>3
  <2>5. conn' = [conn EXCEPT ![c] = new] /\ c \in Conns
    BY <2>1, <2>2, ZenonT(60)
  <2> HIDE DEF new, c
  <2> QED  BY <1>1, <2>4, <2>5, ZenonT(60)
<1>6. ASSUME NEW c \in Conns, SetupStart(c) \/ SetupFails(c) PROVE ConnTypes'
  <2>1. CASE conn' = [conn EXCEPT ![c] = Free]
    BY <1>2, <2>1, ZenonT(60)
  <2>2. CASE conn' = [conn EXCEPT ![c].st = "enc"]
    <3> DEFINE new == [st |-> "enc", flag |-> conn[c].flag, id |-> conn[c].id]
    <3>1. \A b \in Conns : conn'[b] = IF b = c THEN new ELSE conn[b]
      BY <2>2 DEF IInv, ConnInv, Fields
    <3> QED  BY <3>1 DEF DialInv, ConnTypes
  <2> QED  BY <1>6, <2>1, <2>2 DEF SetupStart, SetupFails, EndSetup
<1>7. ASSUME NEW c \in Conns, Posthandshake(c) PROVE ConnTypes'
  <2>1. CASE conn' = [conn EXCEPT ![c] = Free]
    BY <1>2, <2>1, ZenonT(60)
  <2>2. ASSUME NEW n \in Nodes \cup {None},
               conn' = [conn EXCEPT ![c] = [st |-> "proto", flag |-> @.flag, id |-> n]]
        PROVE  ConnTypes'
    <3> DEFINE new == [st |-> "proto", flag |-> conn[c].flag, id |-> n]
    <3>1. \A b \in Conns : conn'[b] = IF b = c THEN new ELSE conn[b]
      BY <2>2 DEF IInv, ConnInv
    <3> QED  BY <3>1 DEF DialInv, ConnTypes
  <2>3. PICK n \in IF conn[c].flag = "inbound" THEN Nodes ELSE {conn[c].id} :
          LET r == encHandshakeChecks(c, n)
          IN  \/ conn' = [conn EXCEPT ![c] =
                            IF r = "nil" THEN [st |-> "proto", flag |-> @.flag, id |-> n] ELSE Free]
              \/ conn' = conn
    BY ZenonT(60), <1>7 DEF Posthandshake, Blocks
  <2>4. n \in Nodes \cup {None}
    BY DEF DialInv, ConnTypes
  <2> QED  BY ZenonT(60), <1>3, <2>1, <2>2, <2>3, <2>4
<1>8. ASSUME NEW c \in Conns, Addpeer(c) PROVE ConnTypes'
  <2>1. CASE conn' = [conn EXCEPT ![c] = Free]
    BY ZenonT(60), <1>2, <2>1
  <2>2. CASE conn' = [conn EXCEPT ![c] = [@ EXCEPT !.st = "peer"]]
    <3> DEFINE new == [st |-> "peer", flag |-> conn[c].flag, id |-> conn[c].id]
    <3>1. \A b \in Conns : conn'[b] = IF b = c THEN new ELSE conn[b]
      BY <2>2 DEF IInv, ConnInv, Fields
    <3> QED  BY <3>1 DEF DialInv, ConnTypes
  <2>3. PICK r \in {protoHandshakeChecks(c, u) : u \in BOOLEAN} :
          \/ conn' = [conn EXCEPT ![c] = IF r = "nil" THEN [@ EXCEPT !.st = "peer"] ELSE Free]
          \/ conn' = conn
    BY <1>8 DEF Addpeer, Blocks
  <2> QED  BY ZenonT(60), <1>3, <2>1, <2>2, <2>3
<1>9. ASSUME NEW c \in Conns, Delpeer(c) PROVE ConnTypes'
  BY <1>2, <1>9, ZenonT(60) DEF Delpeer
<1>10. CASE ListenEnds \/ DialFails \/ OtherTask \/ SpinDown \/ PeerOp \/ Expire \/ Stop \/ StopReturns
  BY <1>3, <1>10 DEF ListenEnds, DialFails, OtherTask, SpinDown, PeerOp, Expire, Stop, StopReturns
<1>11. CASE \/ \E c \in Conns : PeerEnds(c) \/ HandlerWaits(c)
            \/ \E t \in Tasks : TaskDone(t)
            \/ \E n \in Nodes : AddPeer(n) \/ RemovePeer(n)
  BY <1>3, <1>11, ZenonT(60) DEF PeerEnds, HandlerWaits, TaskDone, AddPeer, RemovePeer
<1> QED  BY ZenonT(60), <1>4, <1>5, <1>6, <1>7, <1>8, <1>9, <1>10, <1>11 DEF Next

DialerKept == Dialer(d', tasks', queued') /\ (loop' = "select" => Ticks(d', tasks', peers'))

\* A step of other goroutines: it may move a task on, but starts and ends none.
LEMMA OthersStep ==
  ASSUME DialInv,
         \/ Accept \/ ListenEnds \/ DialConnects \/ DialFails \/ OtherTask \/ Expire
         \/ Stop \/ StopReturns \/ UNCHANGED vars
         \/ \E c \in Conns : SetupStart(c) \/ SetupFails(c) \/ PeerEnds(c) \/ HandlerWaits(c)
  PROVE  DialerKept
<1>1. ASSUME DOMAIN tasks' = DOMAIN tasks, UNCHANGED <<loop, peers, queued>>,
             d' \in DialRec, d'.dialing = d.dialing,
             d'.static = d.static, d'.storeman = d.storeman
      PROVE  DialerKept
  <2>1. Dialer(d', tasks', queued)
    BY ZenonT(60), <1>1, SameMarks DEF DialInv
  <2> QED  BY ZenonT(60), <1>1, <2>1 DEF DialInv, Ticks, DialerKept
<1>2. d \in DialRec
  BY DEF DialInv, Dialer
<1>3. ASSUME DOMAIN tasks' = DOMAIN tasks, UNCHANGED <<loop, peers, queued, d>> PROVE DialerKept
  BY <1>1, <1>2, <1>3, ZenonT(60)
<1>4. CASE Accept \/ ListenEnds \/ Stop \/ StopReturns \/ UNCHANGED vars
  BY ZenonT(60), <1>3, <1>4 DEF Accept, ListenEnds, Stop, StopReturns, vars
<1>5. CASE DialConnects \/ DialFails \/ OtherTask
  <2>1. PICK t, v : tasks' = [tasks EXCEPT ![t] = v]
    BY ZenonT(60), <1>5 DEF DialConnects, DialFails, OtherTask
  <2>2. DOMAIN tasks' = DOMAIN tasks
    BY <2>1
  <2> QED  BY ZenonT(60), <1>3, <1>5, <2>2 DEF DialConnects, DialFails, OtherTask
<1>6. ASSUME NEW c \in Conns, SetupStart(c) \/ SetupFails(c) \/ PeerEnds(c) \/ HandlerWaits(c)
      PROVE  DialerKept
  <2>1. tasks' = TasksAfter(c) \/ tasks' = tasks
    BY <1>6 DEF SetupStart, SetupFails, PeerEnds, HandlerWaits, EndSetup
  <2>2. DOMAIN tasks' = DOMAIN tasks
    BY ZenonT(60), <2>1 DEF TasksAfter
  <2> QED  BY ZenonT(60), <1>3, <1>6, <2>2 DEF SetupStart, SetupFails, PeerEnds, HandlerWaits
<1>7. CASE Expire
  <2>1. d' \in DialRec /\ d'.dialing = d.dialing
    <3>1. Self \in Nodes
      BY DialAssumption
    <3> QED  BY ZenonT(60), <1>2, <1>7, <3>1, DialerOps DEF Expire
  <2>2. d'.static = d.static /\ d'.storeman = d.storeman
    BY <1>2, <1>7 DEF Expire, expire, DialRec
  <2>3. tasks' = tasks /\ loop' = loop /\ peers' = peers /\ queued' = queued
    BY ZenonT(60), <1>7 DEF Expire
  <2> QED  BY ZenonT(60), <1>1, <2>1, <2>2, <2>3
<1> QED  BY ZenonT(60), <1>4, <1>5, <1>6, <1>7

\* A step of the run loop that stays in the select, and so ends in scheduleTasks.
LEMMA SelectStep ==
  ASSUME IInv, DialInv,
         \/ \E t \in Tasks : TaskDone(t)
         \/ \E n \in Nodes : AddPeer(n) \/ RemovePeer(n)
         \/ PeerOp
  PROVE  DialerKept
<1> USE DialAssumption, ServerAssumption
<1>1. Dialer(d, tasks, queued) /\ d \in DialRec
  BY ZenonT(60) DEF DialInv, Dialer
<1>2. ASSUME NEW e \in DialRec, e.dialing = d.dialing, scheduleTasks(e, tasks, peers),
             UNCHANGED peers
      PROVE  DialerKept
  <2>1. Dialer(e, tasks, queued)
    BY <1>1, <1>2, SameMarks
  <2> QED  BY ZenonT(60), <1>2, <2>1, Schedules DEF DialerKept
<1>3. CASE PeerOp
  BY <1>1, <1>2, <1>3, ZenonT(60) DEF PeerOp
<1>4. ASSUME NEW t \in Tasks, TaskDone(t) PROVE DialerKept
  <2> DEFINE run == [x \in DOMAIN tasks \ {t} |-> tasks[x]]
  <2>1. scheduleTasks(taskDone(d, t), run, peers) /\ peers' = peers /\ t \in DOMAIN tasks
    BY <1>4 DEF TaskDone
  <2>2. Dialer(taskDone(d, t), run, queued)
    BY ZenonT(60), <1>1, <2>1, TaskEnds
  <2> HIDE DEF run
  <2> QED  BY ZenonT(60), <2>1, <2>2, Schedules DEF DialerKept
<1>5. ASSUME NEW n \in Nodes, AddPeer(n) PROVE DialerKept
  <2>1. PICK b \in BOOLEAN :
          scheduleTasks(IF n \in StoremanNodes THEN addStoreman(d, n, b)
                                               ELSE addStatic(d, n), tasks, peers)
    BY <1>5, ZenonT(60) DEF AddPeer
  <2> DEFINE f == IF n \in StoremanNodes THEN addStoreman(d, n, b) ELSE addStatic(d, n)
  <2>2. f \in DialRec /\ f.dialing = d.dialing
    BY ZenonT(60), <1>1, DialerOps
  <2>3. scheduleTasks(f, tasks, peers) /\ peers' = peers
    BY ZenonT(60), <1>5, <2>1 DEF AddPeer
  <2> HIDE DEF f
  <2> QED  BY ZenonT(60), <1>2, <2>2, <2>3
<1>6. ASSUME NEW n \in Nodes, RemovePeer(n) PROVE DialerKept
  <2> DEFINE f == IF n = Leader THEN d ELSE IF n \in StoremanNodes THEN removeStoreman(d, n)
                  ELSE removeStatic(d, n)
  <2>1. f \in DialRec /\ f.dialing = d.dialing
    BY ZenonT(60), <1>1, DialerOps
  <2>2. scheduleTasks(f, tasks, peers) /\ peers' = peers
    BY <1>6, ZenonT(60) DEF RemovePeer
  <2> HIDE DEF f
  <2> QED  BY ZenonT(60), <1>2, <2>1, <2>2
<1> QED  BY <1>3, <1>4, <1>5, <1>6

\* A step at a checkpoint, and the end of a peer.
LEMMA PeerStep ==
  ASSUME IInv, DialInv,
         NEW c \in Conns, Posthandshake(c) \/ Addpeer(c) \/ Delpeer(c)
  PROVE  DialerKept
<1>1. Dialer(d, tasks, queued) /\ d \in DialRec
  BY ZenonT(60) DEF DialInv, Dialer
<1>2. ASSUME NEW run, DOMAIN run = DOMAIN tasks, scheduleTasks(d, run, peers')
      PROVE  DialerKept
  <2>1. Dialer(d, run, queued)
    BY ZenonT(60), <1>1, <1>2, SameMarks
  <2> QED  BY ZenonT(60), <1>2, <2>1, Schedules DEF DialerKept
<1>3. DOMAIN TasksAfter(c) = DOMAIN tasks
  BY DEF TasksAfter
<1>4. ASSUME LeaveSelect, loop' # "select" PROVE DialerKept
  BY <1>4, NewDialer DEF LeaveSelect, DialerKept
<1>5. ASSUME Blocks PROVE DialerKept
  BY <1>4, <1>5 DEF Blocks
<1>6. CASE Posthandshake(c)
  <2>1. \/ \E run \in {tasks, TasksAfter(c)} : scheduleTasks(d, run, peers) /\ peers' = peers
        \/ Blocks
    BY <1>6, ZenonT(60) DEF Posthandshake
  <2>2. ASSUME NEW run \in {tasks, TasksAfter(c)}, scheduleTasks(d, run, peers), peers' = peers
        PROVE  DialerKept
    <3>1. DOMAIN run = DOMAIN tasks /\ scheduleTasks(d, run, peers')
      BY ZenonT(60), <1>3, <2>2
    <3> QED  BY <1>2, <3>1
  <2> QED  BY <1>5, <2>1, <2>2
<1>7. CASE Addpeer(c)
  <2>1. scheduleTasks(d, TasksAfter(c), peers') \/ Blocks
    BY <1>7, ZenonT(60) DEF Addpeer
  <2> QED  BY <1>2, <1>3, <1>5, <2>1
<1>8. CASE Delpeer(c)
  <2>1. CASE loop = "select"
    <3>1. scheduleTasks(d, tasks, peers')
      BY <1>8, <2>1, ZenonT(60) DEF Delpeer
    <3> QED  BY <1>2, <3>1
  <2>2. CASE loop # "select"
    <3>1. loop' # "select" /\ d' = d /\ tasks' = tasks /\ queued' = queued
      BY ZenonT(60), <1>8, <2>2 DEF Delpeer
    <3> QED  BY ZenonT(60), <1>1, <3>1 DEF DialerKept
  <2> QED  BY <2>1, <2>2
<1> QED  BY ZenonT(60), <1>6, <1>7, <1>8

\* Every step of the server keeps the invariant; that the limits hold after it too is
\* known already, and says what the counter of inbound connections counts.
LEMMA StepDialInv ==
  ASSUME IInv, IInv', DialInv, [Next]_vars
  PROVE  DialInv'
<1> USE DialAssumption, ServerAssumption
<1>1. DialerKept
  <2>1. CASE SpinDown
    <3>1. LeaveSelect /\ loop' # "select"
      BY <2>1 DEF SpinDown
    <3> QED  BY <3>1, NewDialer DEF LeaveSelect, DialerKept
  <2> QED  BY ZenonT(60), <2>1, OthersStep, SelectStep, PeerStep DEF Next
<1>2. ConnTypes'
  <2>1. CASE UNCHANGED vars
    BY ZenonT(60), <2>1 DEF vars, DialInv, ConnTypes
  <2> QED  BY ZenonT(60), <2>1, ConnStep
<1>3. loop' = "select" \/ inboundCount' = inboundCount \/ inboundCount' = 0
  <2>1. ASSUME LeaveSelect PROVE inboundCount' = 0
    BY <2>1 DEF LeaveSelect
  <2>2. ASSUME NEW c \in Conns, Posthandshake(c) \/ Addpeer(c)
        PROVE  loop' = "select" \/ inboundCount' = 0
    BY <2>1, <2>2, ZenonT(60) DEF Posthandshake, Addpeer, Blocks
  <2>3. ASSUME NEW c \in Conns, Delpeer(c)
        PROVE  loop' = "select" \/ inboundCount' = inboundCount
    BY <2>3, ZenonT(60) DEF Delpeer
  <2>4. CASE SpinDown
    BY <2>1, <2>4 DEF SpinDown
  <2>5. CASE \/ Accept \/ ListenEnds \/ DialConnects \/ DialFails \/ OtherTask \/ Expire
             \/ Stop \/ StopReturns \/ PeerOp \/ UNCHANGED vars
    BY <2>5, ZenonT(60) DEF Accept, ListenEnds, DialConnects, DialFails, OtherTask, Expire, Stop,
         StopReturns, PeerOp, vars
  <2>6. CASE \/ \E c \in Conns : SetupStart(c) \/ SetupFails(c) \/ PeerEnds(c) \/ HandlerWaits(c)
             \/ \E t \in Tasks : TaskDone(t)
             \/ \E n \in Nodes : AddPeer(n) \/ RemovePeer(n)
    BY <2>6, ZenonT(60) DEF SetupStart, SetupFails, PeerEnds, HandlerWaits, TaskDone,
       AddPeer, RemovePeer
  <2> QED  BY ZenonT(60), <2>2, <2>3, <2>4, <2>5, <2>6 DEF Next
<1>4. inboundCount' \in Nat
  <2>1. ASSUME loop' = "select" PROVE inboundCount' \in Nat
    <3>1. inboundCount' = Cardinality(Inbound')
      BY <2>1 DEF IInv, LimitsHold
    <3>2. Inbound' \subseteq Nodes
      BY ZenonT(60) DEF Inbound, Connected
    <3> QED  BY ZenonT(60), <3>1, <3>2, FS_Subset, FS_CardinalityType
  <2> QED  BY <1>3, <2>1 DEF DialInv
<1>5. /\ stop' \in {"no", "wait", "returned"} /\ listening' \in BOOLEAN
      /\ loop' \in {"select", "blocked", "spindown", "done"}
  <2> USE DEF DialInv
  <2>1. ASSUME NEW c \in Conns, Posthandshake(c) \/ Addpeer(c) \/ Delpeer(c)
        PROVE  /\ stop' = stop /\ listening' = listening
               /\ loop' \in {loop, "blocked", "spindown", "done"}
    BY <2>1, ZenonT(60) DEF Posthandshake, Addpeer, Delpeer, Blocks
  <2>2. CASE SpinDown \/ ListenEnds \/ Stop \/ StopReturns
    <3>1. /\ stop' \in {stop, "wait", "returned"} /\ (listening' = listening \/ listening' = FALSE)
          /\ loop' \in {loop, "spindown", "done"}
      BY <2>2, ZenonT(60) DEF SpinDown, ListenEnds, Stop, StopReturns
    <3> QED  BY <3>1, ZenonT(60)
  <2>3. CASE \/ Accept \/ DialConnects \/ DialFails \/ OtherTask \/ Expire
             \/ PeerOp \/ UNCHANGED vars
    BY <2>3, ZenonT(60) DEF Accept, DialConnects, DialFails, OtherTask, Expire, PeerOp, vars
  <2>4. CASE \/ \E c \in Conns : SetupStart(c) \/ SetupFails(c) \/ PeerEnds(c) \/ HandlerWaits(c)
             \/ \E t \in Tasks : TaskDone(t)
             \/ \E n \in Nodes : AddPeer(n) \/ RemovePeer(n)
    BY <2>4, ZenonT(60) DEF SetupStart, SetupFails, PeerEnds, HandlerWaits, TaskDone,
       AddPeer, RemovePeer
  <2> QED  BY <2>1, <2>2, <2>3, <2>4 DEF Next
<1> QED  BY ZenonT(60), <1>1, <1>2, <1>4, <1>5 DEF DialInv, DialerKept

\* The types of the server, the dialer and its tasks; among them that no more dials
\* run than maxActiveDialTasks, and that a connection has a flag the code knows.
THEOREM TypeCorrect == Spec => []TypeOK
<1>1. IInv /\ DialInv => TypeOK
  <2> SUFFICES ASSUME IInv, DialInv PROVE TypeOK  OBVIOUS
  <2> QED  BY ZenonT(60) DEF TypeOK, IInv, ConnInv, DialInv, ConnTypes, Dialer, DialRec
<1> QED  BY <1>1, InitIInv, StepIInv, InitDialInv, StepDialInv, PTL DEF Spec

\* For any nodes, lists and limits, whatever connects, fails and expires: as long as a
\* node of the lists is not connected, a task runs whose end calls newTasks again.
THEOREM DialerAlwaysTicks == Spec => []DialerTicks
<1>1. DialInv => DialerTicks
  <2> SUFFICES ASSUME DialInv, loop = "select", DOMAIN tasks = {},
                      NEW n \in d.static \cup d.storeman
               PROVE  n \in Connected
    BY DEF DialerTicks
  <2>1. peers[n] # None
    BY ZenonT(60) DEF DialInv, Ticks
  <2>2. n \in Nodes
    BY ZenonT(60), DialAssumption DEF DialInv, Dialer, DialRec
  <2> QED  BY ZenonT(60), <2>1, <2>2 DEF Connected
<1> QED  BY <1>1, InitIInv, StepIInv, InitDialInv, StepDialInv, PTL DEF Spec
=============================================================================
