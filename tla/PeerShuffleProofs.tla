-------------------------- MODULE PeerShuffleProofs --------------------------
(***************************************************************************)
(* Theorems about PeerShuffle, for every list of peers and every set of    *)
(* goroutines.                                                             *)
(***************************************************************************)
EXTENDS PeerShuffle, TLAPS

InTurn(g) == pc[g] \in {"load", "storeN", "storeI"}

\* The loop variable names an entry as long as its turn lasts.
TurnInv == \A g \in Goroutine : InTurn(g) => n[g] \in Index

\* What the goroutine nobody joined has loaded is still in the list; after its
\* first store the second one makes the list a reordering again.
SoloInv ==
  solo # Nobody =>
    /\ pc[solo] # "out"
    /\ \A g \in Goroutine \ {solo} : pc[g] = "out"
    /\ pc[solo] \in {"draw", "load", "storeN"} => Reorders(peerNodes, before)
    /\ pc[solo] \in {"load", "storeN"} => vi[solo] = peerNodes[i[solo]]
    /\ pc[solo] = "storeN" => vn[solo] = peerNodes[n[solo]]
    /\ pc[solo] = "storeI" => Reorders([peerNodes EXCEPT ![i[solo]] = vn[solo]], before)

IInv == TypeOK /\ TurnInv /\ SoloInv

-----------------------------------------------------------------------------
\* Every list is a reordering of itself.
LEMMA ReordersSelf ==
  ASSUME NEW p
  PROVE  Reorders(p, p)
<1> DEFINE id == [k \in Index |-> k]
<1>1. id \in [Index -> Index] /\ Injective(id)
  BY DEF Injective
<1>2. \A k \in Index : p[k] = p[id[k]]
  OBVIOUS
<1> QED BY <1>1, <1>2 DEF Reorders

\* Storing entry b at a and the old entry a at b keeps it a reordering.
LEMMA SwapReorders ==
  ASSUME NEW q \in [Index -> Peer], NEW p, Reorders(q, p),
         NEW a \in Index, NEW b \in Index
  PROVE  Reorders([[q EXCEPT ![a] = q[b]] EXCEPT ![b] = q[a]], p)
<1>1. PICK f \in [Index -> Index] : Injective(f) /\ \A k \in Index : q[k] = p[f[k]]
  BY DEF Reorders
<1> DEFINE h == [k \in Index |-> IF k = b THEN f[a] ELSE IF k = a THEN f[b] ELSE f[k]]
           r == [[q EXCEPT ![a] = q[b]] EXCEPT ![b] = q[a]]
<1>2. h \in [Index -> Index]
  OBVIOUS
<1>3. Injective(h)
  BY <1>1, Zenon DEF Injective
<1>4. \A k \in Index : r[k] = p[h[k]]
  <2> TAKE k \in Index
  <2>1. r[k] = IF k = b THEN q[a] ELSE IF k = a THEN q[b] ELSE q[k]
    OBVIOUS
  <2> QED BY <1>1, <2>1
<1> HIDE DEF h, r
<1>5. Reorders(r, p)
  BY <1>2, <1>3, <1>4 DEF Reorders
<1> QED BY <1>5 DEF r

\* The first entry of a list of peers is there, and is a peer.
LEMMA PeersType == PeerIps \in [Index -> Peer] /\ 1 \in Index /\ Unset \in Peer
BY PeersAssumption DEF Index, Unset

-----------------------------------------------------------------------------
LEMMA InitInv == Init => IInv
<1> SUFFICES ASSUME Init PROVE IInv
  OBVIOUS
<1>1. TypeOK
  BY PeersType, PeersAssumption DEF Init, TypeOK, Index
<1>2. TurnInv /\ SoloInv
  BY DEF Init, TurnInv, SoloInv, InTurn
<1> QED BY <1>1, <1>2 DEF IInv

LEMMA TypeStep ==
  ASSUME IInv, NEW g \in Goroutine,
         Enter(g) \/ Draw(g) \/ LoadN(g) \/ StoreN(g) \/ StoreI(g) \/ Leave(g)
  PROVE  TypeOK' /\ TurnInv'
<1> USE PeersType DEF IInv, TypeOK, TurnInv, InTurn, Goes
<1>0. Index = 1..Len(PeerIps) /\ Len(PeerIps) \in Nat
  BY PeersAssumption DEF Index
<1>1. CASE Enter(g)
  BY <1>1 DEF Enter, swapVars
<1>2. CASE Draw(g)
  <2>1. PICK k \in 1..n[g] : /\ i' = [i EXCEPT ![g] = k]
                            /\ vi' = [vi EXCEPT ![g] = peerNodes[k]]
    BY <1>2 DEF Draw
  <2>2. k \in Index /\ n[g] \in Index
    BY <1>0, <1>2 DEF Draw
  <2>3. i' \in [Goroutine -> Index] /\ vi' \in [Goroutine -> Peer]
    BY <2>1, <2>2
  <2> QED BY <1>2, <2>2, <2>3 DEF Draw, historyVars
<1>3. CASE LoadN(g)
  BY <1>3 DEF LoadN, historyVars
<1>4. CASE StoreN(g)
  BY <1>4 DEF StoreN, swapVars, historyVars
<1>5. CASE StoreI(g)
  BY <1>0, <1>5 DEF StoreI, NextTurn, historyVars
<1>6. CASE Leave(g)
  BY <1>0, <1>6 DEF Leave
<1> QED BY <1>1, <1>2, <1>3, <1>4, <1>5, <1>6

LEMMA SoloStep ==
  ASSUME IInv, NEW g \in Goroutine,
         Enter(g) \/ Draw(g) \/ LoadN(g) \/ StoreN(g) \/ StoreI(g) \/ Leave(g)
  PROVE  SoloInv'
<1> USE NobodyAssumption DEF IInv, TypeOK, Goes
<1>1. CASE Enter(g)
  <2>1. CASE SomeoneIn
    BY <1>1, <2>1 DEF Enter, SoloInv
  <2>2. CASE ~SomeoneIn
    <3>1. Reorders(peerNodes', before')
      BY <1>1, ReordersSelf DEF Enter
    <3>2. \A h \in Goroutine \ {g} : pc'[h] = "out"
      BY <1>1, <2>2 DEF Enter, SomeoneIn
    <3>3. solo' = g /\ pc'[g] = "draw"
      BY <1>1, <2>2 DEF Enter
    <3> QED BY <3>1, <3>2, <3>3 DEF SoloInv
  <2> QED BY <2>1, <2>2
<1>2. CASE Leave(g)
  BY <1>2 DEF Leave, SoloInv
<1>3. CASE solo = Nobody /\ ~Enter(g) /\ ~Leave(g)
  BY <1>3 DEF Draw, LoadN, StoreN, StoreI, historyVars, SoloInv
<1>4. CASE solo # Nobody /\ ~Enter(g) /\ ~Leave(g)
  <2> SUFFICES ASSUME solo' # Nobody PROVE SoloInv'
    BY DEF SoloInv
  <2>1. solo = g /\ solo' = solo /\ before' = before
    BY <1>4 DEF SoloInv, Draw, LoadN, StoreN, StoreI, historyVars
  <2>2. \A h \in Goroutine \ {solo'} : pc'[h] = "out"
    BY <1>4, <2>1 DEF SoloInv, Draw, LoadN, StoreN, StoreI
  <2>3. CASE Draw(g)
    <3>1. pc'[g] = "load" /\ vi'[g] = peerNodes'[i'[g]] /\ peerNodes' = peerNodes
      BY <2>3 DEF Draw, Index
    <3>2. pc[g] = "draw"
      BY <2>3 DEF Draw
    <3> QED BY <1>4, <2>1, <2>2, <3>1, <3>2 DEF SoloInv
  <2>4. CASE LoadN(g)
    <3>1. /\ pc[g] = "load" /\ pc'[g] = "storeN" /\ vn'[g] = peerNodes'[n'[g]]
          /\ peerNodes' = peerNodes /\ vi' = vi /\ i' = i
      BY <2>4 DEF LoadN
    <3> QED BY <1>4, <2>1, <2>2, <3>1 DEF SoloInv
  <2>5. CASE StoreN(g)
    <3> DEFINE after == [[peerNodes EXCEPT ![n[g]] = peerNodes[i[g]]] EXCEPT ![i[g]] = peerNodes[n[g]]]
    <3>1. /\ pc[g] = "storeN" /\ pc'[g] = "storeI"
          /\ i' = i /\ vn' = vn
          /\ peerNodes' = [peerNodes EXCEPT ![n[g]] = vi[g]]
      BY <2>5 DEF StoreN, swapVars
    <3>2. Reorders(peerNodes, before) /\ vi[g] = peerNodes[i[g]] /\ vn[g] = peerNodes[n[g]]
      BY <1>4, <2>1, <3>1 DEF SoloInv
    <3>3. n[g] \in Index /\ i[g] \in Index
      BY <3>1 DEF TurnInv, InTurn
    <3>4. Reorders(after, before)
      BY <3>2, <3>3, SwapReorders
    <3>5. [peerNodes' EXCEPT ![i'[g]] = vn'[g]] = after
      BY <3>1, <3>2
    <3> QED BY <2>1, <2>2, <3>1, <3>4, <3>5 DEF SoloInv
  <2>6. CASE StoreI(g)
    <3>1. /\ pc[g] = "storeI" /\ pc'[g] = "draw"
          /\ peerNodes' = [peerNodes EXCEPT ![i[g]] = vn[g]]
      BY <2>6 DEF StoreI
    <3>2. Reorders(peerNodes', before')
      BY <1>4, <2>1, <3>1 DEF SoloInv
    <3> QED BY <2>1, <2>2, <3>1, <3>2 DEF SoloInv
  <2> QED BY <1>4, <2>3, <2>4, <2>5, <2>6
<1> QED BY <1>1, <1>2, <1>3, <1>4

LEMMA StepInv == IInv /\ [Next]_vars => IInv'
<1> SUFFICES ASSUME IInv, [Next]_vars PROVE IInv'
  OBVIOUS
<1>1. CASE UNCHANGED vars
  BY <1>1 DEF vars, swapVars, historyVars, IInv, TypeOK, TurnInv, InTurn, SoloInv
<1>2. CASE Next
  BY <1>2, TypeStep, SoloStep DEF Next, IInv
<1> QED BY <1>1, <1>2

LEMMA InvCorrect == Spec => []IInv
BY InitInv, StepInv, PTL DEF Spec

-----------------------------------------------------------------------------
\* However goroutines race in getRandomPeerAddr, the list keeps its length and
\* each entry is the address of a peer.
THEOREM ShuffleTypeCorrect == Spec => []TypeOK
<1>1. IInv => TypeOK
  BY DEF IInv
<1> QED BY <1>1, InvCorrect, PTL

\* A goroutine that shuffles the list with no other in getRandomPeerAddr leaves
\* every peer in it as often as it was there.
THEOREM PeersKeptCorrect == Spec => []PeersKept
<1>1. IInv => PeersKept
  BY DEF IInv, SoloInv, PeersKept
<1> QED BY <1>1, InvCorrect, PTL

=============================================================================
