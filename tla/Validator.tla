----------------------------- MODULE Validator -----------------------------
(***************************************************************************)
(* The approval database of a node (validator.go) under concurrent calls.  *)
(* createMpcCtx runs in a goroutine per signing request and the API in one *)
(* goroutine per call; nothing locks the database, so every step here is   *)
(* one leveldb operation and the calls interleave between them.            *)
(*                                                                         *)
(* The database is three tables: the list under MpcApprovingKeys, the      *)
(* values under approving keys and the values under approved keys.         *)
(* addKeyValueToDB reads back what it has put; only an approving key is    *)
(* ever deleted, so only that read can fail and is a step of its own.      *)
(***************************************************************************)
EXTENDS Naturals, FiniteSets

CONSTANTS
  Procs,     \* goroutines that use the database
  Keys,      \* PKBytes and Data of a SendData: what buildKeyFromData hashes
  Exts,      \* the Extern of a SendData
  None,      \* nothing stored
  MaxCalls,  \* bound: calls per goroutine
  Faults     \* a subset of {"io", "crash"}

ASSUME ValidatorAssumption ==
  /\ \A K \in SUBSET Keys : None # K
  /\ None \notin [key : Keys, ext : Exts]
  /\ MaxCalls \in Nat

Data == [key : Keys, ext : Exts]

VARIABLES
  keys,      \* the list under MpcApprovingKeys, None when it was never put
  approving, \* [Keys -> Data \cup {None}]
  approved,  \* [Keys -> Data \cup {None}]
  pc,        \* where each goroutine is in its call
  d,         \* the data of the call
  seen,      \* the call's copy of the list
  res,       \* what the call returned
  calls,     \* number of calls begun
  received,  \* history: keys for which addApprovingData returned nil
  granted    \* history: data somebody called ApproveData or AddValidData for
vars == <<keys, approving, approved, pc, d, seen, res, calls, received, granted>>

Init ==
  /\ keys = None
  /\ approving = [k \in Keys |-> None]
  /\ approved = [k \in Keys |-> None]
  /\ pc = [p \in Procs |-> "idle"]
  /\ d = [p \in Procs |-> None]
  /\ seen = [p \in Procs |-> {}]
  /\ res = [p \in Procs |-> "none"]
  /\ calls = [p \in Procs |-> 0]
  /\ received = {}
  /\ granted = {}

At(p, l) == pc[p] = l

Goto(p, l) ==
  /\ pc' = [pc EXCEPT ![p] = l]
  /\ UNCHANGED <<d, res, calls, granted>>

\* addApprovingData returns nil and createMpcCtx goes on to ValidateData.
ReturnAdded(p) ==
  /\ Goto(p, "wait")
  /\ received' = received \cup {d[p].key}

Return(p, r) ==
  /\ pc' = [pc EXCEPT ![p] = "idle"]
  /\ res' = [res EXCEPT ![p] = r]
  /\ seen' = [seen EXCEPT ![p] = {}]
  /\ UNCHANGED <<d, calls, received, granted>>

\* json.Unmarshal of a missing or empty list.
ReadKeys == IF keys = None THEN {} ELSE keys

\* A call begins: a signing request with or without approval (createMpcCtx),
\* ApproveData, or AddValidData.
Begin(p, l, x) ==
  /\ At(p, "idle") /\ calls[p] < MaxCalls
  /\ pc' = [pc EXCEPT ![p] = l]
  /\ d' = [d EXCEPT ![p] = x]
  /\ res' = [res EXCEPT ![p] = "none"]
  /\ calls' = [calls EXCEPT ![p] = @ + 1]
  /\ granted' = IF l \in {"approve", "valid"} THEN granted \cup {x} ELSE granted
  /\ UNCHANGED <<keys, approving, approved, seen, received>>

-----------------------------------------------------------------------------
(* addApprovingData.                                                       *)

AddHasApproved(p) ==
  /\ At(p, "add")
  /\ \/ approved[d[p].key] # None /\ ReturnAdded(p)
     \/ /\ approved[d[p].key] = None
        /\ Goto(p, "addGetKeys") /\ UNCHANGED received
  /\ UNCHANGED <<keys, approving, approved, seen>>

AddGetKeys(p) ==
  /\ At(p, "addGetKeys")
  /\ seen' = [seen EXCEPT ![p] = ReadKeys]
  /\ Goto(p, "addHasApproving")
  /\ UNCHANGED <<keys, approving, approved, received>>

\* What is there already is not put again: a call that stopped half way is
\* completed by the next one.
AddHasApproving(p) ==
  /\ At(p, "addHasApproving")
  /\ \/ /\ approving[d[p].key] = None
        /\ Goto(p, "addPut") /\ UNCHANGED received
     \/ /\ approving[d[p].key] # None /\ d[p].key \notin seen[p]
        /\ Goto(p, "addPutKeys") /\ UNCHANGED received
     \/ /\ approving[d[p].key] # None /\ d[p].key \in seen[p]
        /\ ReturnAdded(p)
  /\ UNCHANGED <<keys, approving, approved, seen>>

AddPut(p) ==
  /\ At(p, "addPut")
  /\ approving' = [approving EXCEPT ![d[p].key] = d[p]]
  /\ Goto(p, "addReadBack")
  /\ UNCHANGED <<keys, approved, seen, received>>

\* An approval between the put and this read has deleted the value.
AddReadBack(p) ==
  /\ At(p, "addReadBack")
  /\ \/ approving[d[p].key] = None /\ Return(p, "errFailedAddApproving")
     \/ /\ approving[d[p].key] # None /\ d[p].key \notin seen[p]
        /\ Goto(p, "addPutKeys") /\ UNCHANGED <<seen, received>>
     \/ /\ approving[d[p].key] # None /\ d[p].key \in seen[p]
        /\ ReturnAdded(p) /\ UNCHANGED seen
  /\ UNCHANGED <<keys, approving, approved>>

\* Mutant: the list gets the data in place of its key.
AddPutKeysData(p) ==
  /\ At(p, "addPutKeys")
  /\ keys' = seen[p] \cup {d[p]}
  /\ ReturnAdded(p)
  /\ UNCHANGED <<approving, approved, seen>>

\* The list is written from the copy read before.
AddPutKeys(p) ==
  /\ At(p, "addPutKeys")
  /\ keys' = seen[p] \cup {d[p].key}
  /\ ReturnAdded(p)
  /\ UNCHANGED <<approving, approved, seen>>

-----------------------------------------------------------------------------
(* ValidateData.                                                           *)

\* waitKeyFromDB finds the key, or its timer ends the wait.
WaitKeyFromDB(p) ==
  /\ At(p, "wait")
  /\ \/ /\ approved[d[p].key] # None
        /\ Goto(p, "get") /\ UNCHANGED <<seen, received>>
     \/ approved[d[p].key] = None /\ Return(p, "errWaitApproved")
  /\ UNCHANGED <<keys, approving, approved>>

\* Mutant: an approved key is enough.
ValidateKeyOnly(p) ==
  /\ At(p, "get")
  /\ Return(p, IF approved[d[p].key] = None THEN "errGetApproved" ELSE "true")
  /\ UNCHANGED <<keys, approving, approved>>

\* Mutant: approved data is deleted when it has been used.
ValidateOnce(p) ==
  /\ At(p, "get")
  /\ \/ approved[d[p].key] = None /\ Return(p, "errGetApproved")
     \/ approved[d[p].key] = d[p] /\ Return(p, "true")
     \/ /\ approved[d[p].key] \notin {None, d[p]}
        /\ Return(p, "errApprovedNotConsistent")
  /\ approved' = [approved EXCEPT ![d[p].key] = None]
  /\ UNCHANGED <<keys, approving>>

\* Get, and compare the whole value.
Validate(p) ==
  /\ At(p, "get")
  /\ \/ approved[d[p].key] = None /\ Return(p, "errGetApproved")
     \/ approved[d[p].key] = d[p] /\ Return(p, "true")
     \/ /\ approved[d[p].key] \notin {None, d[p]}
        /\ Return(p, "errApprovedNotConsistent")
  /\ UNCHANGED <<keys, approving, approved>>

-----------------------------------------------------------------------------
(* approveOneData, for each element of ApproveData's list.                 *)

\* A key that is not listed ends the call with the err of the read: nil.
ApproveGetKeys(p) ==
  /\ At(p, "approve")
  /\ \/ keys = None /\ Return(p, "errNotFound")
     \/ keys # None /\ d[p].key \notin keys /\ Return(p, "nil")
     \/ /\ keys # None /\ d[p].key \in keys
        /\ seen' = [seen EXCEPT ![p] = keys]
        /\ Goto(p, "approveHas") /\ UNCHANGED received
  /\ UNCHANGED <<keys, approving, approved>>

\* Mutant: the approving value is taken out before the approved one is put.
ApproveHasTakes(p) ==
  /\ At(p, "approveHas")
  /\ \/ approving[d[p].key] = None /\ Return(p, "errNotFound")
     \/ /\ approving[d[p].key] # None
        /\ Goto(p, "approvePut") /\ UNCHANGED <<seen, received>>
  /\ approving' = [approving EXCEPT ![d[p].key] = None]
  /\ UNCHANGED <<keys, approved>>

ApproveHasApproving(p) ==
  /\ At(p, "approveHas")
  /\ \/ approving[d[p].key] = None /\ Return(p, "errNotFound")
     \/ /\ approving[d[p].key] # None
        /\ Goto(p, "approvePut") /\ UNCHANGED <<seen, received>>
  /\ UNCHANGED <<keys, approving, approved>>

ApprovePut(p) ==
  /\ At(p, "approvePut")
  /\ approved' = [approved EXCEPT ![d[p].key] = d[p]]
  /\ Goto(p, "approvePutKeys")
  /\ UNCHANGED <<keys, approving, seen, received>>

ApprovePutKeys(p) ==
  /\ At(p, "approvePutKeys")
  /\ keys' = seen[p] \ {d[p].key}
  /\ Goto(p, "approveDelete")
  /\ UNCHANGED <<approving, approved, seen, received>>

ApproveDelete(p) ==
  /\ At(p, "approveDelete")
  /\ approving' = [approving EXCEPT ![d[p].key] = None]
  /\ Return(p, "nil")
  /\ UNCHANGED <<keys, approved>>

-----------------------------------------------------------------------------
(* addOneValidData.                                                        *)

ValidHas(p) ==
  /\ At(p, "valid")
  /\ \/ approved[d[p].key] # None /\ Return(p, "errExists")
     \/ /\ approved[d[p].key] = None
        /\ Goto(p, "validPut") /\ UNCHANGED <<seen, received>>
  /\ UNCHANGED <<keys, approving, approved>>

ValidPut(p) ==
  /\ At(p, "validPut")
  /\ approved' = [approved EXCEPT ![d[p].key] = d[p]]
  /\ Return(p, "nil")
  /\ UNCHANGED <<keys, approving>>

-----------------------------------------------------------------------------
\* Any database operation may fail; every caller returns the error at once.
IOError(p) ==
  /\ "io" \in Faults /\ ~At(p, "idle")
  /\ Return(p, "errIO")
  /\ UNCHANGED <<keys, approving, approved>>

\* The node stops and restarts: what was put stays.
Crash ==
  /\ "crash" \in Faults /\ \E p \in Procs : ~At(p, "idle")
  /\ pc' = [p \in Procs |-> "idle"]
  /\ res' = [p \in Procs |-> "none"]
  /\ seen' = [p \in Procs |-> {}]
  /\ UNCHANGED <<keys, approving, approved, d, calls, received, granted>>

Step(p) ==
  \/ \E l \in {"add", "wait", "approve", "valid"}, x \in Data : Begin(p, l, x)
  \/ AddHasApproved(p) \/ AddGetKeys(p) \/ AddHasApproving(p)
  \/ AddPut(p) \/ AddReadBack(p) \/ AddPutKeys(p)
  \/ WaitKeyFromDB(p) \/ Validate(p)
  \/ ApproveGetKeys(p) \/ ApproveHasApproving(p) \/ ApprovePut(p)
  \/ ApprovePutKeys(p) \/ ApproveDelete(p)
  \/ ValidHas(p) \/ ValidPut(p)
  \/ IOError(p)

\* All calls within the bound are over.
Terminated ==
  /\ \A p \in Procs : At(p, "idle") /\ calls[p] = MaxCalls
  /\ UNCHANGED vars

Next == (\E p \in Procs : Step(p)) \/ Crash \/ Terminated

Spec == Init /\ [][Next]_vars

-----------------------------------------------------------------------------
(* Properties.                                                             *)

\* The list holds keys, the tables hold data, and calls (approveOneData,
\* addApprovingData, ...) return what the code returns.
TypeOK ==
  /\ keys \in (SUBSET Keys) \cup {None}
  /\ approving \in [Keys -> Data \cup {None}]
  /\ approved \in [Keys -> Data \cup {None}]
  /\ pc \in [Procs -> {"idle", "add", "addGetKeys", "addHasApproving", "addPut",
                       "addReadBack", "addPutKeys", "wait", "get", "approve",
                       "approveHas", "approvePut", "approvePutKeys",
                       "approveDelete", "valid", "validPut"}]
  /\ d \in [Procs -> Data \cup {None}]
  /\ seen \in [Procs -> SUBSET Keys]
  /\ res \in [Procs -> {"none", "nil", "true", "errIO", "errNotFound",
                        "errExists", "errFailedAddApproving", "errWaitApproved",
                        "errGetApproved", "errApprovedNotConsistent"}]
  /\ calls \in [Procs -> 0..MaxCalls]
  /\ received \in SUBSET Keys
  /\ granted \in SUBSET Data

Recorded(k) == approving[k] # None \/ approved[k] # None

\* The order of the puts in addApprovingData and approveOneData: however calls
\* interleave and wherever the node stops, a listed key has a value behind it.
ListedIsRecorded == \A k \in ReadKeys : Recorded(k)

\* ValidateData lets a request pass only if somebody has approved exactly its
\* data, the Extern that is not part of the key included.
ValidatedWasApproved == \A p \in Procs : res[p] = "true" => d[p] \in granted

\* Nothing disappears between the Has of waitKeyFromDB and the Get behind it.
WaitedKeyIsThere == \A p \in Procs : res[p] # "errGetApproved"

\* A request is refused with ErrFailedAddApproving although the database works only
\* when an approval under its key overtook it: its AddReadBack missed what
\* approveOneData had deleted.  The approved data then stays in the table, so that the
\* request, repeated, does not wait: it passes if it is what was approved, and is
\* refused with ErrApprovedNotConsistent if that has another Extern.
FailedAddIsApproved ==
  \A p \in Procs : res[p] = "errFailedAddApproving" =>
    \E x \in granted : x.key = d[p].key /\ approved[x.key] = x

\* What GetDataForApprove returns.
GetDataForApprove == {approving[k] : k \in {k \in ReadKeys : approving[k] # None}}

\* Data received for approval is what polling returns until it is approved.
ReceivedIsPolled ==
  \A k \in received :
    approved[k] # None \/ \E x \in GetDataForApprove : x.key = k

\* Several database operations, and other calls between them, look like one step to
\* the outside: ValidateData passes at its Get, and approveOneData and addOneValidData
\* take effect at their put of the approved value, which no later step, failing
\* operation or restart undoes.
AP == INSTANCE Approvals WITH
  Callers <- Procs,
  entry   <- approved,
  passed  <- [p \in Procs |-> IF res[p] = "true" THEN {d[p]} ELSE {}]
ImplementsApprovals == AP!Spec
=============================================================================
