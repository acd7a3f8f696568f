-------------------------- MODULE ValidatorProofs --------------------------
(***************************************************************************)
(* Proofs about Validator for any number of goroutines, keys, Externs and  *)
(* calls.                                                                  *)
(***************************************************************************)
EXTENDS Validator, TLAPS

\* Time limits for every step below.
USE SMTT(60), ZenonT(60)

\* A call has its data.
DataInv == \A p \in Procs : pc[p] # "idle" \/ res[p] # "none" => d[p] \in Data

\* What a call knows of the database from what it has done itself.
CallInv ==
  \A p \in Procs :
    /\ \A k \in seen[p] : Recorded(k)
    /\ pc[p] \in {"addReadBack", "addPutKeys"} => Recorded(d[p].key)
    /\ pc[p] \in {"approvePutKeys", "approveDelete", "get"}
         => approved[d[p].key] # None

\* Whatever is in the approved table was granted, and is under its own key.
GrantInv ==
  /\ \A k \in Keys : approved[k] # None => approved[k] \in granted /\ approved[k].key = k
  /\ \A p \in Procs :
       pc[p] \in {"approve", "approveHas", "approvePut", "valid", "validPut"}
         => d[p] \in granted

\* A key whose value AddReadBack has missed is approved.
OvertakenInv ==
  \A p \in Procs : res[p] = "errFailedAddApproving" => approved[d[p].key] # None

ResInv == ValidatedWasApproved /\ WaitedKeyIsThere /\ OvertakenInv

IInv == TypeOK /\ DataInv /\ ListedIsRecorded /\ CallInv /\ GrantInv /\ ResInv

-----------------------------------------------------------------------------
\* A step of a call changes only its own entries, and leaves its data alone
\* unless the call begins.
LEMMA OwnStep ==
  ASSUME TypeOK, NEW p \in Procs, Step(p)
  PROVE  /\ \A q \in Procs \ {p} : /\ pc'[q] = pc[q] /\ d'[q] = d[q]
                                   /\ seen'[q] = seen[q] /\ res'[q] = res[q]
         /\ pc[p] # "idle" => d'[p] = d[p]
<1> USE DEF TypeOK
<1> QED
  BY ZenonT(60) DEF Step, Begin, AddHasApproved, AddGetKeys, AddHasApproving, AddPut,
     AddReadBack, AddPutKeys, WaitKeyFromDB, Validate, ApproveGetKeys,
     ApproveHasApproving, ApprovePut, ApprovePutKeys, ApproveDelete, ValidHas,
     ValidPut, IOError, Goto, Return, ReturnAdded, At

\* The types of the entries that belong to a call.
LEMMA CallType ==
  ASSUME TypeOK, DataInv, NEW p \in Procs, Step(p)
  PROVE  /\ pc' \in [Procs -> {"idle", "add", "addGetKeys", "addHasApproving",
                       "addPut", "addReadBack", "addPutKeys", "wait", "get",
                       "approve", "approveHas", "approvePut", "approvePutKeys",
                       "approveDelete", "valid", "validPut"}]
         /\ res' \in [Procs -> {"none", "nil", "true", "errIO", "errNotFound",
                        "errExists", "errFailedAddApproving", "errWaitApproved",
                        "errGetApproved", "errApprovedNotConsistent"}]
         /\ calls' \in [Procs -> 0..MaxCalls]
<1>1. calls' \in [Procs -> 0..MaxCalls]
  <2>1. calls \in [Procs -> 0..MaxCalls] /\ MaxCalls \in Nat
    BY ValidatorAssumption DEF ValidatorAssumption, TypeOK
  <2>2. CASE \E l \in {"add", "wait", "approve", "valid"}, x \in Data : Begin(p, l, x)
    BY <2>1, <2>2 DEF Begin
  <2>3. CASE UNCHANGED calls
    BY <2>1, <2>3
  <2> QED
    BY ZenonT(60), <2>2, <2>3 DEF Step, Begin, AddHasApproved, AddGetKeys, AddHasApproving,
       AddPut, AddReadBack, AddPutKeys, WaitKeyFromDB, Validate, ApproveGetKeys,
       ApproveHasApproving, ApprovePut, ApprovePutKeys, ApproveDelete, ValidHas,
       ValidPut, IOError, Goto, Return, ReturnAdded
<1>2. /\ pc' \in [Procs -> {"idle", "add", "addGetKeys", "addHasApproving",
                       "addPut", "addReadBack", "addPutKeys", "wait", "get",
                       "approve", "approveHas", "approvePut", "approvePutKeys",
                       "approveDelete", "valid", "validPut"}]
      /\ res' \in [Procs -> {"none", "nil", "true", "errIO", "errNotFound",
                        "errExists", "errFailedAddApproving", "errWaitApproved",
                        "errGetApproved", "errApprovedNotConsistent"}]
  BY DEF TypeOK, Step, Begin, AddHasApproved, AddGetKeys, AddHasApproving, AddPut,
     AddReadBack, AddPutKeys, WaitKeyFromDB, Validate, ApproveGetKeys,
     ApproveHasApproving, ApprovePut, ApprovePutKeys, ApproveDelete, ValidHas,
     ValidPut, IOError, Goto, Return, ReturnAdded, At
<1> QED
  BY <1>1, <1>2

\* The types of the tables and of the copies of the list.
LEMMA TableType ==
  ASSUME TypeOK, DataInv, NEW p \in Procs, Step(p)
  PROVE  /\ keys' \in (SUBSET Keys) \cup {None}
         /\ approving' \in [Keys -> Data \cup {None}]
         /\ approved' \in [Keys -> Data \cup {None}]
         /\ d' \in [Procs -> Data \cup {None}]
         /\ seen' \in [Procs -> SUBSET Keys]
         /\ received' \in SUBSET Keys
         /\ granted' \in SUBSET Data
<1>1. CASE \E l \in {"add", "wait", "approve", "valid"}, x \in Data : Begin(p, l, x)
  BY <1>1 DEF Begin, TypeOK
<1>2. CASE pc[p] # "idle"
  <2>1. d[p] \in Data /\ d[p].key \in Keys
    BY <1>2 DEF DataInv, Data
  <2>2. ReadKeys \subseteq Keys
    <3>1. keys \in SUBSET Keys \/ keys = None
      BY DEF TypeOK
    <3> QED
      BY <3>1 DEF ReadKeys
  <2>3. keys' = keys \/ keys' = seen[p] \cup {d[p].key} \/ keys' = seen[p] \ {d[p].key}
    BY ZenonT(60), <1>2 DEF Step, Begin, AddHasApproved, AddGetKeys, AddHasApproving, AddPut,
       AddReadBack, AddPutKeys, WaitKeyFromDB, Validate, ApproveGetKeys,
       ApproveHasApproving, ApprovePut, ApprovePutKeys, ApproveDelete, ValidHas,
       ValidPut, IOError, At
  <2>4. /\ \/ approving' = approving
           \/ approving' = [approving EXCEPT ![d[p].key] = d[p]]
           \/ approving' = [approving EXCEPT ![d[p].key] = None]
        /\ approved' = approved \/ approved' = [approved EXCEPT ![d[p].key] = d[p]]
    BY ZenonT(60), <1>2 DEF Step, Begin, AddHasApproved, AddGetKeys, AddHasApproving, AddPut,
       AddReadBack, AddPutKeys, WaitKeyFromDB, Validate, ApproveGetKeys,
       ApproveHasApproving, ApprovePut, ApprovePutKeys, ApproveDelete, ValidHas,
       ValidPut, IOError, At
  <2>5. /\ \/ seen' = seen
           \/ seen' = [seen EXCEPT ![p] = {}]
           \/ seen' = [seen EXCEPT ![p] = ReadKeys]
        /\ received' = received \/ received' = received \cup {d[p].key}
        /\ granted' = granted /\ d' = d
    BY ZenonT(60), <1>2 DEF Step, Begin, AddHasApproved, AddGetKeys, AddHasApproving, AddPut,
       AddReadBack, AddPutKeys, WaitKeyFromDB, Validate, ApproveGetKeys,
       ApproveHasApproving, ApprovePut, ApprovePutKeys, ApproveDelete, ValidHas,
       ValidPut, IOError, Goto, Return, ReturnAdded, At, ReadKeys
  <2>6. keys' \in (SUBSET Keys) \cup {None}
    BY <2>1, <2>3 DEF TypeOK
  <2>7. /\ approving' \in [Keys -> Data \cup {None}]
        /\ approved' \in [Keys -> Data \cup {None}]
    BY <2>1, <2>4 DEF TypeOK
  <2>8. seen' \in [Procs -> SUBSET Keys]
    BY <2>2, <2>5 DEF TypeOK
  <2> QED
    BY <2>1, <2>5, <2>6, <2>7, <2>8 DEF TypeOK
<1> QED
  BY ZenonT(60), <1>1, <1>2 DEF Step, AddHasApproved, AddGetKeys, AddHasApproving, AddPut,
     AddReadBack, AddPutKeys, WaitKeyFromDB, Validate, ApproveGetKeys,
     ApproveHasApproving, ApprovePut, ApprovePutKeys, ApproveDelete, ValidHas,
     ValidPut, IOError, At

\* What a call does to the tables: nothing approved ever goes away, and an
\* approving value goes away only when the key is approved.
LEMMA Stable ==
  ASSUME TypeOK, DataInv, CallInv, NEW p \in Procs, Step(p), NEW k \in Keys
  PROVE  /\ approved[k] # None => approved'[k] # None
         /\ Recorded(k) => Recorded(k)'
         /\ granted \subseteq granted'
<1>1. CASE pc[p] = "approveDelete"
  <2>1. /\ \/ approving' = [approving EXCEPT ![d[p].key] = None]
           \/ approving' = approving
        /\ approved' = approved /\ granted' = granted
    BY ZenonT(60), <1>1 DEF Step, Begin, AddHasApproved, AddGetKeys, AddHasApproving, AddPut,
     AddReadBack, AddPutKeys, WaitKeyFromDB, Validate, ApproveGetKeys,
     ApproveHasApproving, ApprovePut, ApprovePutKeys, ApproveDelete, ValidHas,
     ValidPut, IOError, Return, At
  <2>2. approved[d[p].key] # None
    BY <1>1 DEF CallInv
  <2> QED
    BY <2>1, <2>2 DEF Recorded, TypeOK
<1>2. CASE pc[p] # "approveDelete"
  <2>1. d[p] \in Data => d[p] # None
    BY ValidatorAssumption DEF ValidatorAssumption, Data
  <2>2. \/ UNCHANGED <<approving, approved>>
        \/ pc[p] # "idle" /\ approving' = [approving EXCEPT ![d[p].key] = d[p]]
                          /\ UNCHANGED approved
        \/ pc[p] # "idle" /\ approved' = [approved EXCEPT ![d[p].key] = d[p]]
                          /\ UNCHANGED approving
    BY ZenonT(60), <1>2 DEF Step, Begin, AddHasApproved, AddGetKeys, AddHasApproving, AddPut,
     AddReadBack, AddPutKeys, WaitKeyFromDB, Validate, ApproveGetKeys,
     ApproveHasApproving, ApprovePut, ApprovePutKeys, ApproveDelete, ValidHas,
     ValidPut, IOError, At
  <2>3. granted \subseteq granted'
    BY ZenonT(60) DEF Step, Begin, AddHasApproved, AddGetKeys, AddHasApproving, AddPut,
     AddReadBack, AddPutKeys, WaitKeyFromDB, Validate, ApproveGetKeys,
     ApproveHasApproving, ApprovePut, ApprovePutKeys, ApproveDelete, ValidHas,
     ValidPut, IOError, Goto, Return, ReturnAdded
  <2> QED
    BY <2>1, <2>2, <2>3 DEF Recorded, TypeOK, DataInv
<1> QED
  BY <1>1, <1>2

\* A call that goes on knows what CallInv says: it has just read or written it.
LEMMA CallStep ==
  ASSUME IInv, NEW p \in Procs, Step(p)
  PROVE  CallInv' /\ ListedIsRecorded'
<1>a. TypeOK /\ DataInv /\ CallInv /\ ListedIsRecorded
  BY DEF IInv
<1>b. /\ \A k \in Keys : Recorded(k) => Recorded(k)'
      /\ \A k \in Keys : approved[k] # None => approved'[k] # None
  BY <1>a, Stable
<1>c. seen \in [Procs -> SUBSET Keys] /\ pc = [q \in Procs |-> pc[q]]
  BY <1>a DEF TypeOK
<1>d. \A q \in Procs : pc[q] # "idle" => d[q] \in Data /\ d[q].key \in Keys
  BY <1>a DEF DataInv, Data
<1>e. \A k \in ReadKeys : k \in Keys /\ Recorded(k)
  BY <1>a DEF ListedIsRecorded, TypeOK, ReadKeys
<1>f. \A q \in Procs : \A k \in seen[q] : k \in Keys /\ Recorded(k)
  BY <1>a, <1>c DEF CallInv
<1>1. ASSUME NEW q \in Procs, q # p
      PROVE  /\ \A k \in seen'[q] : Recorded(k)'
             /\ pc'[q] \in {"addReadBack", "addPutKeys"} => Recorded(d[q].key)'
             /\ pc'[q] \in {"approvePutKeys", "approveDelete", "get"}
                  => approved'[d[q].key] # None
             /\ d'[q] = d[q]
  <2>1. seen'[q] = seen[q] /\ pc'[q] = pc[q] /\ d'[q] = d[q]
    BY <1>a, <1>1, OwnStep
  <2> QED
    BY <1>1, <1>a, <1>b, <1>d, <1>f, <2>1 DEF CallInv
<1>2. \A k \in seen'[p] : Recorded(k)'
  <2>1. seen'[p] \in {seen[p], {}, ReadKeys}
    BY ZenonT(60), <1>c DEF ReadKeys, Step, Begin, AddHasApproved, AddGetKeys, AddHasApproving,
     AddPut, AddReadBack, AddPutKeys, WaitKeyFromDB, Validate, ApproveGetKeys,
     ApproveHasApproving, ApprovePut, ApprovePutKeys, ApproveDelete, ValidHas,
     ValidPut, IOError, Goto, Return, ReturnAdded, At
  <2> QED
    BY <1>b, <1>e, <1>f, <2>1
<1>3. pc'[p] \in {"addReadBack", "addPutKeys"} => Recorded(d[p].key)'
  <2>1. CASE pc[p] = "addPut" /\ pc'[p] = "addReadBack"
    <3>1. approving' = [approving EXCEPT ![d[p].key] = d[p]] /\ d'[p] = d[p]
      BY ZenonT(60), <1>c, <2>1 DEF Step, Begin, AddHasApproved, AddGetKeys, AddHasApproving,
     AddPut, AddReadBack, AddPutKeys, WaitKeyFromDB, Validate, ApproveGetKeys,
     ApproveHasApproving, ApprovePut, ApprovePutKeys, ApproveDelete, ValidHas,
     ValidPut, IOError, Goto, Return, ReturnAdded, At
    <3>2. d[p] # None
      BY <1>d, <2>1, ValidatorAssumption DEF ValidatorAssumption, Data
    <3> QED
      BY <1>a, <1>d, <2>1, <3>1, <3>2 DEF Recorded, TypeOK
  <2>2. CASE pc[p] # "idle" /\ Recorded(d[p].key) /\ d'[p] = d[p]
    BY <1>b, <1>d, <2>2
  <2>3. \/ pc'[p] \notin {"addReadBack", "addPutKeys"}
        \/ pc[p] = "addPut" /\ pc'[p] = "addReadBack"
        \/ pc[p] # "idle" /\ Recorded(d[p].key) /\ d'[p] = d[p]
    BY ZenonT(60), <1>c DEF Recorded, Step, Begin, AddHasApproved, AddGetKeys, AddHasApproving,
     AddPut, AddReadBack, AddPutKeys, WaitKeyFromDB, Validate, ApproveGetKeys,
     ApproveHasApproving, ApprovePut, ApprovePutKeys, ApproveDelete, ValidHas,
     ValidPut, IOError, Goto, Return, ReturnAdded, At
  <2> QED
    BY <2>1, <2>2, <2>3
<1>4. pc'[p] \in {"approvePutKeys", "approveDelete", "get"}
        => approved'[d'[p].key] # None
  <2>1. CASE pc[p] = "approvePut" /\ pc'[p] = "approvePutKeys"
    <3>1. approved' = [approved EXCEPT ![d[p].key] = d[p]] /\ d'[p] = d[p]
      BY ZenonT(60), <1>c, <2>1 DEF Step, Begin, AddHasApproved, AddGetKeys, AddHasApproving,
     AddPut, AddReadBack, AddPutKeys, WaitKeyFromDB, Validate, ApproveGetKeys,
     ApproveHasApproving, ApprovePut, ApprovePutKeys, ApproveDelete, ValidHas,
     ValidPut, IOError, Goto, Return, ReturnAdded, At
    <3>2. d[p] # None
      BY <1>d, <2>1, ValidatorAssumption DEF ValidatorAssumption, Data
    <3> QED
      BY <1>a, <1>d, <2>1, <3>1, <3>2 DEF TypeOK
  <2>2. CASE pc[p] # "idle" /\ approved[d[p].key] # None /\ d'[p] = d[p]
    BY <1>b, <1>d, <2>2
  <2>3. \/ pc'[p] \notin {"approvePutKeys", "approveDelete", "get"}
        \/ pc[p] = "approvePut" /\ pc'[p] = "approvePutKeys"
        \/ pc[p] # "idle" /\ approved[d[p].key] # None /\ d'[p] = d[p]
    BY ZenonT(60), <1>a, <1>c DEF CallInv, Step, Begin, AddHasApproved, AddGetKeys, AddHasApproving,
     AddPut, AddReadBack, AddPutKeys, WaitKeyFromDB, Validate, ApproveGetKeys,
     ApproveHasApproving, ApprovePut, ApprovePutKeys, ApproveDelete, ValidHas,
     ValidPut, IOError, Goto, Return, ReturnAdded, At
  <2> QED
    BY <2>1, <2>2, <2>3
<1>5. ListedIsRecorded'
  <2>1. \/ keys' = keys
        \/ keys' = seen[p] \cup {d[p].key} /\ pc[p] = "addPutKeys"
        \/ keys' = seen[p] \ {d[p].key}
    BY ZenonT(60) DEF Step, Begin, AddHasApproved, AddGetKeys, AddHasApproving,
     AddPut, AddReadBack, AddPutKeys, WaitKeyFromDB, Validate, ApproveGetKeys,
     ApproveHasApproving, ApprovePut, ApprovePutKeys, ApproveDelete, ValidHas,
     ValidPut, IOError, Goto, Return, ReturnAdded, At
  <2>2. \A k \in ReadKeys' : k \in Keys /\ Recorded(k)
    BY <1>a, <1>d, <1>e, <1>f, <2>1 DEF ReadKeys, CallInv
  <2> QED
    BY <1>b, <2>2 DEF ListedIsRecorded
<1> QED
  BY <1>1, <1>2, <1>3, <1>4, <1>5 DEF CallInv

\* Only granted data is put under an approved key.
LEMMA GrantStep ==
  ASSUME IInv, NEW p \in Procs, Step(p)
  PROVE  DataInv' /\ GrantInv'
<1>a. TypeOK /\ DataInv /\ CallInv /\ GrantInv
  BY DEF IInv
<1>b. granted \subseteq granted'
  BY ZenonT(60) DEF Step, Begin, AddHasApproved, AddGetKeys, AddHasApproving,
     AddPut, AddReadBack, AddPutKeys, WaitKeyFromDB, Validate, ApproveGetKeys,
     ApproveHasApproving, ApprovePut, ApprovePutKeys, ApproveDelete, ValidHas,
     ValidPut, IOError, Goto, Return, ReturnAdded, At
<1>c. /\ pc = [q \in Procs |-> pc[q]] /\ d = [q \in Procs |-> d[q]]
      /\ res = [q \in Procs |-> res[q]]
      /\ approved = [k \in Keys |-> approved[k]]
  BY <1>a DEF TypeOK
<1>d. \A q \in Procs \ {p} : pc'[q] = pc[q] /\ d'[q] = d[q] /\ res'[q] = res[q]
  BY <1>a, OwnStep
<1>1. DataInv'
  <2>1. d'[p] \in Data
    <3>1. CASE pc[p] = "idle"
      BY ZenonT(60), <1>c, <3>1 DEF Step, Begin, AddHasApproved, AddGetKeys, AddHasApproving,
     AddPut, AddReadBack, AddPutKeys, WaitKeyFromDB, Validate, ApproveGetKeys,
     ApproveHasApproving, ApprovePut, ApprovePutKeys, ApproveDelete, ValidHas,
     ValidPut, IOError, Goto, Return, ReturnAdded, At
    <3>2. CASE pc[p] # "idle"
      BY <1>a, <3>2, OwnStep DEF DataInv
    <3> QED
      BY <3>1, <3>2
  <2> QED
    BY <1>a, <1>d, <2>1 DEF DataInv
<1>2. \A k \in Keys : approved'[k] # None => approved'[k] \in granted' /\ approved'[k].key = k
  <2>1. \/ approved' = approved
        \/ /\ approved' = [approved EXCEPT ![d[p].key] = d[p]]
           /\ pc[p] \in {"approvePut", "validPut"}
    BY ZenonT(60) DEF Step, Begin, AddHasApproved, AddGetKeys, AddHasApproving,
     AddPut, AddReadBack, AddPutKeys, WaitKeyFromDB, Validate, ApproveGetKeys,
     ApproveHasApproving, ApprovePut, ApprovePutKeys, ApproveDelete, ValidHas,
     ValidPut, IOError, Goto, Return, ReturnAdded, At
  <2> QED
    BY <1>a, <1>b, <1>c, <2>1 DEF GrantInv
<1>3. pc'[p] \in {"approve", "approveHas", "approvePut", "valid", "validPut"}
        => d'[p] \in granted'
  <2>1. CASE pc[p] = "idle"
    BY ZenonT(60), <1>c, <2>1 DEF Step, Begin, AddHasApproved, AddGetKeys, AddHasApproving,
     AddPut, AddReadBack, AddPutKeys, WaitKeyFromDB, Validate, ApproveGetKeys,
     ApproveHasApproving, ApprovePut, ApprovePutKeys, ApproveDelete, ValidHas,
     ValidPut, IOError, Goto, Return, ReturnAdded, At
  <2>2. CASE pc[p] # "idle"
    <3>1. pc'[p] \in {"approve", "approveHas", "approvePut", "valid", "validPut"}
            => pc[p] \in {"approve", "approveHas", "valid"}
      BY ZenonT(60), <1>c, <2>2 DEF Step, Begin, AddHasApproved, AddGetKeys, AddHasApproving,
     AddPut, AddReadBack, AddPutKeys, WaitKeyFromDB, Validate, ApproveGetKeys,
     ApproveHasApproving, ApprovePut, ApprovePutKeys, ApproveDelete, ValidHas,
     ValidPut, IOError, Goto, Return, ReturnAdded, At
    <3> QED
      BY <1>a, <1>b, <2>2, <3>1, OwnStep DEF GrantInv
  <2> QED
    BY <2>1, <2>2
<1> QED
  BY <1>a, <1>b, <1>d, <1>1, <1>2, <1>3 DEF GrantInv

\* What a call returns is justified by the tables and stays so.
LEMMA ResStep ==
  ASSUME IInv, NEW p \in Procs, Step(p)
  PROVE  ResInv'
<1>a. TypeOK /\ DataInv /\ CallInv /\ GrantInv
  BY DEF IInv
<1>b. /\ granted \subseteq granted'
      /\ \A k \in Keys : approved[k] # None => approved'[k] # None
  <2>1. \A k \in Keys : approved[k] # None => approved'[k] # None
    BY <1>a, Stable
  <2>2. granted \subseteq granted'
    BY ZenonT(60) DEF Step, Begin, AddHasApproved, AddGetKeys, AddHasApproving,
       AddPut, AddReadBack, AddPutKeys, WaitKeyFromDB, Validate, ApproveGetKeys,
       ApproveHasApproving, ApprovePut, ApprovePutKeys, ApproveDelete, ValidHas,
       ValidPut, IOError, Goto, Return, ReturnAdded, At
  <2> QED
    BY <2>1, <2>2
<1>c. pc = [q \in Procs |-> pc[q]] /\ res = [q \in Procs |-> res[q]]
  BY <1>a DEF TypeOK
<1>d. \A q \in Procs : pc[q] # "idle" \/ res[q] # "none" => d[q].key \in Keys
  BY <1>a DEF DataInv, Data
<1>1. ASSUME NEW q \in Procs, res'[q] = res[q], d'[q] = d[q]
      PROVE  /\ res'[q] = "true" => d'[q] \in granted'
             /\ res'[q] # "errGetApproved"
             /\ res'[q] = "errFailedAddApproving" => approved'[d'[q].key] # None
  BY <1>1, <1>b, <1>d DEF IInv, ResInv, ValidatedWasApproved, WaitedKeyIsThere,
     OvertakenInv
<1>2. /\ res'[p] = "true" => d'[p] \in granted'
      /\ res'[p] # "errGetApproved"
      /\ res'[p] = "errFailedAddApproving" => approved'[d'[p].key] # None
  <2>1. CASE pc[p] = "idle"
    BY ZenonT(60), <1>c, <2>1 DEF Step, Begin, AddHasApproved, AddGetKeys, AddHasApproving,
     AddPut, AddReadBack, AddPutKeys, WaitKeyFromDB, Validate, ApproveGetKeys,
     ApproveHasApproving, ApprovePut, ApprovePutKeys, ApproveDelete, ValidHas,
     ValidPut, IOError, Goto, Return, ReturnAdded, At
  <2>2. CASE pc[p] # "idle"
    <3>1. d'[p] = d[p] /\ d[p].key \in Keys
      BY <1>a, <1>d, <2>2, OwnStep
    <3>2. CASE res'[p] = res[p]
      BY <1>1, <3>1, <3>2
    <3>3. CASE res'[p] = "true"
      <4>1. (approved[d[p].key] = d[p] /\ pc[p] = "get") \/ res[p] = "true"
        BY ZenonT(60), <1>c, <2>2, <3>3
     DEF Step, Begin, AddHasApproved, AddGetKeys, AddHasApproving,
     AddPut, AddReadBack, AddPutKeys, WaitKeyFromDB, Validate, ApproveGetKeys,
     ApproveHasApproving, ApprovePut, ApprovePutKeys, ApproveDelete, ValidHas,
     ValidPut, IOError, Goto, Return, ReturnAdded, At
      <4> QED
        BY <1>a, <1>b, <1>1, <3>1, <3>3, <4>1 DEF CallInv, GrantInv
    <3>4. CASE res'[p] = "errGetApproved"
      <4>1. (pc[p] = "get" /\ approved[d[p].key] = None) \/ res[p] = "errGetApproved"
        BY ZenonT(60), <1>c, <2>2, <3>4
     DEF Step, Begin, AddHasApproved, AddGetKeys, AddHasApproving,
     AddPut, AddReadBack, AddPutKeys, WaitKeyFromDB, Validate, ApproveGetKeys,
     ApproveHasApproving, ApprovePut, ApprovePutKeys, ApproveDelete, ValidHas,
     ValidPut, IOError, Goto, Return, ReturnAdded, At
      <4> QED
        BY <1>a, <4>1 DEF CallInv, IInv, ResInv, WaitedKeyIsThere
    <3>5. CASE res'[p] = "errFailedAddApproving"
      <4>1. \/ pc[p] = "addReadBack" /\ approving[d[p].key] = None
            \/ res[p] = "errFailedAddApproving"
        BY ZenonT(60), <1>c, <2>2, <3>5
     DEF Step, Begin, AddHasApproved, AddGetKeys, AddHasApproving,
     AddPut, AddReadBack, AddPutKeys, WaitKeyFromDB, Validate, ApproveGetKeys,
     ApproveHasApproving, ApprovePut, ApprovePutKeys, ApproveDelete, ValidHas,
     ValidPut, IOError, Goto, Return, ReturnAdded, At
      <4> QED
        BY <1>a, <1>b, <1>1, <3>1, <3>5, <4>1 DEF CallInv, Recorded
    <3> QED
      BY <3>2, <3>3, <3>4, <3>5
  <2> QED
    BY <2>1, <2>2
<1>3. \A q \in Procs \ {p} : res'[q] = res[q] /\ d'[q] = d[q]
  BY <1>a, OwnStep
<1>4. ASSUME NEW q \in Procs
      PROVE  /\ res'[q] = "true" => d'[q] \in granted'
             /\ res'[q] # "errGetApproved"
             /\ res'[q] = "errFailedAddApproving" => approved'[d'[q].key] # None
  <2>1. CASE q = p
    BY <1>2, <2>1
  <2>2. CASE q # p
    BY <1>1, <1>3, <2>2
  <2> QED
    BY <2>1, <2>2
<1> QED
  BY <1>4 DEF ResInv, ValidatedWasApproved, WaitedKeyIsThere, OvertakenInv

-----------------------------------------------------------------------------
\* The inductive invariant holds in every state.
THEOREM Invariance == Spec => []IInv
<1>1. Init => IInv
  <2> SUFFICES ASSUME Init PROVE IInv
    OBVIOUS
  <2>1. TypeOK
    BY ValidatorAssumption DEF ValidatorAssumption, Init, TypeOK
  <2>2. DataInv /\ GrantInv /\ ResInv
    BY ZenonT(60) DEF Init, DataInv, GrantInv, ResInv, ValidatedWasApproved,
       WaitedKeyIsThere, OvertakenInv
  <2>3. CallInv /\ ListedIsRecorded
    BY DEF Init, CallInv, ListedIsRecorded, ReadKeys
  <2> QED
    BY <2>1, <2>2, <2>3 DEF IInv
<1>2. IInv /\ [Next]_vars => IInv'
  <2> SUFFICES ASSUME IInv, [Next]_vars PROVE IInv'
    OBVIOUS
  <2>1. ASSUME NEW p \in Procs, Step(p) PROVE IInv'
    <3>1. TypeOK'
      BY <2>1, CallType, TableType DEF IInv, TypeOK
    <3> QED
      BY <2>1, <3>1, CallStep, GrantStep, ResStep DEF IInv
  <2>2. CASE Crash
    <3>1. /\ TypeOK' /\ DataInv' /\ GrantInv'
      BY <2>2 DEF Crash, IInv, TypeOK, DataInv, GrantInv
    <3>2. CallInv' /\ ListedIsRecorded' /\ ResInv'
      BY ZenonT(60), <2>2 DEF Crash, IInv, CallInv, ListedIsRecorded, ReadKeys, Recorded, ResInv,
         ValidatedWasApproved, WaitedKeyIsThere, OvertakenInv
    <3> QED
      BY <3>1, <3>2 DEF IInv
  <2>3. CASE UNCHANGED vars
    BY ZenonT(60), <2>3 DEF vars, IInv, TypeOK, DataInv, CallInv, GrantInv, ResInv,
       ListedIsRecorded, ReadKeys, Recorded, ValidatedWasApproved,
       WaitedKeyIsThere, OvertakenInv
  <2> QED
    BY <2>1, <2>2, <2>3 DEF Next, Terminated
<1> QED
  BY <1>1, <1>2, PTL DEF Spec

\* The variables keep their types.
THEOREM TypeCorrect == Spec => []TypeOK
BY Invariance, PTL DEF IInv

\* A listed key has a value behind it, after any interleaving and any restart.
THEOREM NoDanglingKey == Spec => []ListedIsRecorded
BY Invariance, PTL DEF IInv

\* A request passes only with data that was approved, Extern included.
THEOREM ApprovalGate == Spec => []ValidatedWasApproved
BY Invariance, PTL DEF IInv, ResInv

\* The key waited for is there when it is read.
THEOREM WaitIsNotStale == Spec => []WaitedKeyIsThere
BY Invariance, PTL DEF IInv, ResInv

\* Only an approval under the key of a request, which then is in the table of approved
\* data, makes its read back fail (FailedAddIsApproved).
THEOREM OvertakenAdd == Spec => []FailedAddIsApproved
<1>1. IInv => FailedAddIsApproved
  <2> SUFFICES ASSUME IInv, NEW p \in Procs, res[p] = "errFailedAddApproving"
               PROVE  \E x \in granted : x.key = d[p].key /\ approved[x.key] = x
    BY DEF FailedAddIsApproved
  <2>1. d[p] \in Data /\ approved[d[p].key] # None
    BY DEF IInv, DataInv, ResInv, OvertakenInv
  <2>2. approved[d[p].key] \in granted /\ approved[d[p].key].key = d[p].key
    BY <2>1 DEF IInv, GrantInv, Data
  <2> QED
    BY <2>2
<1> QED
  BY <1>1, Invariance, PTL

-----------------------------------------------------------------------------
(* The database implements Approvals.                                      *)

\* A call has no result before it returns.
BusyInv == \A p \in Procs : pc[p] # "idle" => res[p] = "none"

\* A call that has not returned gets no result by any step.
LEMMA BusyStep == ASSUME TypeOK, BusyInv, [Next]_vars PROVE BusyInv'
<1>1. ASSUME NEW p \in Procs, Step(p) PROVE BusyInv'
  <2>1. \A q \in Procs \ {p} : pc'[q] = pc[q] /\ res'[q] = res[q]
    BY <1>1, OwnStep
  <2>2. pc'[p] = "idle" \/ res'[p] = "none"
    <3> USE DEF TypeOK
    <3>1. ASSUME NEW r, Return(p, r) PROVE pc'[p] = "idle"
      BY <3>1 DEF Return
    <3>2. ASSUME pc[p] # "idle", UNCHANGED res PROVE res'[p] = "none"
      BY <3>2 DEF BusyInv
    <3>3. CASE \E l \in {"add", "wait", "approve", "valid"}, x \in Data : Begin(p, l, x)
      BY <3>3 DEF Begin
    <3> QED
      BY <1>1, <3>1, <3>2, <3>3, ZenonT(60) DEF Step, AddHasApproved, AddGetKeys,
         AddHasApproving, AddPut, AddReadBack, AddPutKeys, WaitKeyFromDB, Validate,
         ApproveGetKeys, ApproveHasApproving, ApprovePut, ApprovePutKeys, ApproveDelete,
         ValidHas, ValidPut, IOError, Goto, ReturnAdded, At
  <2> QED
    BY <2>1, <2>2 DEF BusyInv
<1>2. CASE Crash
  BY <1>2 DEF Crash, BusyInv
<1>3. CASE UNCHANGED vars
  BY <1>3 DEF vars, BusyInv
<1> QED
  BY <1>1, <1>2, <1>3 DEF Next, Terminated

\* The requests that have passed.
Passed == [p \in Procs |-> IF res[p] = "true" THEN {d[p]} ELSE {}]

\* A step that neither begins a call nor lets a request pass changes nothing of it.
LEMMA SamePassed ==
  ASSUME TypeOK, BusyInv, NEW p \in Procs, Step(p), pc[p] # "idle", res'[p] # "true"
  PROVE  Passed' = Passed
<1>1. \A q \in Procs \ {p} : res'[q] = res[q] /\ d'[q] = d[q]
  BY OwnStep
<1>2. res[p] # "true"
  BY DEF BusyInv
<1> QED
  BY <1>1, <1>2 DEF Passed

\* Every step of a call is a step of Approvals or changes nothing it can see.
LEMMA ApprovalStep ==
  ASSUME IInv, BusyInv, [Next]_vars
  PROVE  [AP!Next]_AP!vars
<1> USE DEF IInv
<1>1. CASE UNCHANGED vars
  <2>1. Passed' = Passed /\ UNCHANGED <<granted, approved>>
    BY <1>1 DEF vars, Passed
  <2> QED
    BY <2>1 DEF AP!vars, Passed
<1>2. CASE Crash
  <2>1. Passed' = [p \in Procs |-> {}] /\ UNCHANGED <<granted, approved>>
    BY <1>2 DEF Crash, Passed
  <2> QED
    BY <2>1 DEF AP!Next, AP!Restart, Passed
<1>3. ASSUME NEW p \in Procs, \E l \in {"add", "wait", "approve", "valid"}, x \in Data : Begin(p, l, x)
      PROVE  AP!Next
  <2>1. PICK l \in {"add", "wait", "approve", "valid"}, x \in Data : Begin(p, l, x)
    BY <1>3
  <2>2. Passed' = [Passed EXCEPT ![p] = {}]
    BY <2>1, ZenonT(60) DEF Begin, Passed, TypeOK
  <2>3. granted' = granted \/ (x \in granted' /\ granted' = granted \cup {x})
    BY <2>1 DEF Begin
  <2>4. approved' = approved
    BY <2>1 DEF Begin
  <2>5. AP!Ask(p)
    BY <2>2, <2>3, <2>4 DEF AP!Ask, Passed
  <2> QED
    BY <2>5 DEF AP!Next
<1>4. ASSUME NEW p \in Procs, Step(p), ApprovePut(p) \/ ValidPut(p) PROVE AP!Next
  <2> DEFINE k == d[p].key
  <2>1. /\ approved' = [approved EXCEPT ![k] = d[p]] /\ granted' = granted
        /\ pc[p] \in {"approvePut", "validPut"} /\ res'[p] # "true"
    BY <1>4 DEF ApprovePut, ValidPut, Goto, Return, At, TypeOK, BusyInv
  <2>2. d[p] \in granted /\ d[p] \in Data /\ k \in Keys
    BY <2>1 DEF GrantInv, DataInv, Data
  <2>3. Passed' = Passed
    BY <1>4, <2>1, SamePassed
  <2>4. approved'[k] = d[p]
    BY <2>1, <2>2 DEF TypeOK
  <2>5. AP!Enter(k)
    BY <2>1, <2>2, <2>3, <2>4, ZenonT(60) DEF AP!Enter, Passed
  <2> QED
    BY <2>2, <2>5 DEF AP!Next
<1>5. ASSUME NEW p \in Procs, Step(p), Validate(p), res'[p] = "true" PROVE AP!Next
  <2>1. /\ approved[d[p].key] = d[p] /\ UNCHANGED <<approved, granted, d>> /\ pc[p] # "idle"
    BY <1>5 DEF Validate, Return, At, TypeOK
  <2>2. res[p] # "true" /\ \A q \in Procs \ {p} : res'[q] = res[q]
    BY <1>5, <2>1, OwnStep DEF BusyInv
  <2>3. Passed[p] = {} /\ Passed' = [Passed EXCEPT ![p] = {d[p]}]
    BY <1>5, <2>1, <2>2, ZenonT(60) DEF Passed
  <2>4. d[p] \in Passed'[p]
    BY <1>5, <2>1 DEF Passed
  <2>5. AP!Pass(p)
    BY <2>1, <2>3, <2>4, ZenonT(60) DEF AP!Pass, Passed
  <2> QED
    BY <2>5 DEF AP!Next
<1>6. ASSUME NEW p \in Procs, Step(p), pc[p] # "idle", res'[p] # "true",
             UNCHANGED <<approved, granted>>
      PROVE  UNCHANGED AP!vars
  BY <1>6, SamePassed DEF AP!vars, Passed
<1>7. ASSUME NEW p \in Procs, Step(p) PROVE [AP!Next]_AP!vars
  <2>1. CASE \/ \E l \in {"add", "wait", "approve", "valid"}, x \in Data : Begin(p, l, x)
             \/ ApprovePut(p) \/ ValidPut(p)
    BY <1>3, <1>4, <1>7, <2>1
  <2>2. CASE Validate(p)
    <3>1. pc[p] # "idle" /\ UNCHANGED <<approved, granted>>
      BY <2>2 DEF Validate, Return, At
    <3> QED
      BY <1>5, <1>6, <1>7, <2>2, <3>1
  <2>3. CASE \/ AddHasApproved(p) \/ AddGetKeys(p) \/ AddHasApproving(p) \/ AddPut(p)
             \/ AddReadBack(p) \/ AddPutKeys(p) \/ WaitKeyFromDB(p) \/ ApproveGetKeys(p)
             \/ ApproveHasApproving(p) \/ ApprovePutKeys(p) \/ ApproveDelete(p)
             \/ ValidHas(p) \/ IOError(p)
    <3>1. pc[p] # "idle" /\ UNCHANGED <<approved, granted>>
      BY <2>3, ZenonT(60) DEF AddHasApproved, AddGetKeys, AddHasApproving, AddPut, AddReadBack,
         AddPutKeys, WaitKeyFromDB, ApproveGetKeys, ApproveHasApproving, ApprovePutKeys,
         ApproveDelete, ValidHas, IOError, Goto, Return, ReturnAdded, At
    <3>2. ASSUME NEW r, r # "true", Return(p, r) PROVE res'[p] # "true"
      BY <3>2 DEF Return, TypeOK
    <3>3. ASSUME UNCHANGED res PROVE res'[p] # "true"
      BY <3>1, <3>3 DEF BusyInv
    <3>4. (UNCHANGED res) \/ \E r : r # "true" /\ Return(p, r)
      BY ZenonT(60), <2>3 DEF AddHasApproved, AddGetKeys, AddHasApproving, AddPut, AddReadBack,
         AddPutKeys, WaitKeyFromDB, ApproveGetKeys, ApproveHasApproving, ApprovePutKeys,
         ApproveDelete, ValidHas, IOError, Goto, ReturnAdded
    <3> QED
      BY <1>6, <1>7, <3>1, <3>2, <3>3, <3>4
  <2> QED
    BY <1>7, <2>1, <2>2, <2>3 DEF Step
<1> QED
  BY <1>1, <1>2, <1>7 DEF Next, Terminated

\* Any number of interleaved calls, failing operations and restarts: to those who sign,
\* the three tables are one approved entry for each key, read and written in one step.
THEOREM ApprovalsImplemented == Spec => ImplementsApprovals
<1>1. Init => AP!Init /\ BusyInv
  BY DEF Init, AP!Init, BusyInv
<1>2. IInv /\ BusyInv /\ [Next]_vars => [AP!Next]_AP!vars /\ BusyInv'
  <2>1. IInv => TypeOK
    BY DEF IInv
  <2> QED
    BY <2>1, BusyStep, ApprovalStep
<1> QED
  BY <1>1, <1>2, Invariance, PTL DEF Spec, ImplementsApprovals, AP!Spec
=============================================================================
