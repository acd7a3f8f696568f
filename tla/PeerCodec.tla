----------------------------- MODULE PeerCodec -----------------------------
(***************************************************************************)
(* How the list of a group's nodes and seeds travels in a RequestMPC       *)
(* message (SetMessagePeers, getMessagePeers) and how the seeds are kept   *)
(* in a keystore (newMpcKey, loadStoremanAddress).  A peer takes four      *)
(* bytes of a message, its index in the group and the low three bytes of   *)
(* its seed; a keystore has 66 bytes for all seeds, three for each.        *)
(***************************************************************************)
EXTENDS Integers, Sequences

CONSTANTS
  N,        \* the number of nodes of the group
  Group,    \* StoreManGroup, sorted by InitStoreManGroup: the same on every node
  NoNode    \* the zero NodeID

ASSUME GroupAssumption ==
  /\ N \in Nat \ {0}
  /\ DOMAIN Group = 1..N
  /\ \A i, j \in 1..N : Group[i] = Group[j] => i = j
  /\ \A i \in 1..N : Group[i] # NoNode

\* rand.Intn(0x0FFFFFE) + 1 of RequestMpcStep.InitStep.
MaxSeed == 16777214
Seeds == 1..MaxSeed

\* The conversion to a byte.
byte(x) == x % 256

\* InitStoreManGroup: the index of a node, in one byte.  A map answers 0 for a node
\* it does not know.
storeManIndex(id) ==
  IF \E i \in 1..N : Group[i] = id
  THEN byte((CHOOSE i \in 1..N : Group[i] = id) - 1) ELSE 0

\* Form of Low3 that takes the bytes b[4:] of the big-endian seed.
Low3Early(x) == <<(x \div 16777216) % 256, (x \div 65536) % 256, (x \div 256) % 256>>

\* b[5:] after PutUint64(b, x), and Uint64 of such bytes behind five zeros.
Low3(x) == <<(x \div 65536) % 256, (x \div 256) % 256, x % 256>>
Uint64(b1, b2, b3) == 65536 * b1 + 256 * b2 + b3

\* SetMessagePeers leaves the bytes of an empty list nil.
SetMessagePeers(peers) ==
  [k \in 1..(4 * Len(peers)) |->
     LET i == (k - 1) \div 4 + 1
         j == (k - 1) % 4
     IN  IF j = 0 THEN storeManIndex(peers[i].id) ELSE Low3(peers[i].seed)[j]]

\* getMessagePeers: nil, here the empty list, unless four bytes come for each peer.
\* A peer whose index is not one of the group stays the zero PeerInfo.
getMessagePeers(b) ==
  IF Len(b) % 4 # 0 THEN <<>>
  ELSE [i \in 1..(Len(b) \div 4) |->
          IF b[4 * i - 3] < N
          THEN [id   |-> Group[b[4 * i - 3] + 1],
                seed |-> Uint64(b[4 * i - 2], b[4 * i - 1], b[4 * i])]
          ELSE [id |-> NoNode, seed |-> 0]]

WAddressLength == 66

\* Slicing the array behind its end panics; at its end the slice is empty, and
\* copy copies nothing.
Panics(seeds) == 3 * (Len(seeds) - 1) > WAddressLength

\* newMpcKey: the WAddress of the key.
newMpcKey(seeds) ==
  [k \in 1..WAddressLength |->
     LET i == (k - 1) \div 3 + 1
     IN  IF i <= Len(seeds) THEN Low3(seeds[i])[1 + ((k - 1) % 3)] ELSE 0]

\* loadStoremanAddress: the peers of the group with the seeds of a WAddress.  The
\* buffer b is not cleared, so that an empty copy leaves the seed before.
loadStoremanAddress(w) ==
  [i \in 1..N |->
     LET k == IF 3 * (i - 1) < WAddressLength THEN 3 * i ELSE WAddressLength
     IN  [id |-> Group[i], seed |-> Uint64(w[k - 2], w[k - 1], w[k])]]
=============================================================================
