----------------------------- MODULE PeerShuffle -----------------------------
(***************************************************************************)
(* getRandomPeerAddr (proxy/proxy.go): the goroutines of a process that    *)
(* fail over pick a peer at the same time.  Each shuffles the one list     *)
(* peerNodes in place, without a lock, and takes its first entry.          *)
(*                                                                         *)
(* A swap is two loads and two stores.  The names of the peers are taken   *)
(* to be equally long: a race on an entry then yields one of the names.    *)
(***************************************************************************)
EXTENDS Naturals, Sequences

CONSTANTS
  Goroutine,  \* the goroutines of listenPort that fail over
  Peer,       \* addresses of other processes
  PeerIps,    \* the flag -peerips
  Nobody      \* no goroutine

ASSUME PeersAssumption == PeerIps \in Seq(Peer) /\ PeerIps # <<>>
ASSUME NobodyAssumption == Nobody \notin Goroutine

VARIABLES
  peerNodes,  \* Proxy.peerNodes
  pc,         \* what a goroutine does next
  n, i,       \* its loop variable and the number drawn
  vi, vn,     \* the two entries it has loaded
  solo,       \* history: the goroutine that shuffles and that no other joined
  before      \* history: the list when that goroutine began

swapVars    == <<n, i, vi, vn>>
historyVars == <<solo, before>>
vars == <<peerNodes, pc, swapVars, historyVars>>

Index == 1..Len(PeerIps)

\* Stands for an entry nobody will use.
Unset == PeerIps[1]

Init ==
  /\ peerNodes = PeerIps
  /\ pc = [g \in Goroutine |-> "out"]
  /\ n = [g \in Goroutine |-> 1]
  /\ i = [g \in Goroutine |-> 1]
  /\ vi = [g \in Goroutine |-> Unset]
  /\ vn = [g \in Goroutine |-> Unset]
  /\ solo = Nobody
  /\ before = PeerIps

Goes(g, from, to) == pc[g] = from /\ pc' = [pc EXCEPT ![g] = to]

SomeoneIn == \E g \in Goroutine : pc[g] # "out"

Enter(g) ==
  /\ Goes(g, "out", "draw")
  /\ solo' = IF SomeoneIn THEN Nobody ELSE g
  /\ before' = peerNodes
  /\ UNCHANGED <<peerNodes, swapVars>>

\* i is drawn from the entries up to n, and entry i is loaded.
Draw(g) ==
  /\ n[g] \in Index
  /\ Goes(g, "draw", "load")
  /\ \E k \in 1..n[g] :
       /\ i' = [i EXCEPT ![g] = k]
       /\ vi' = [vi EXCEPT ![g] = peerNodes[k]]
  /\ UNCHANGED <<peerNodes, n, vn, historyVars>>

LoadN(g) ==
  /\ Goes(g, "load", "storeN")
  /\ vn' = [vn EXCEPT ![g] = peerNodes[n[g]]]
  /\ UNCHANGED <<peerNodes, n, i, vi, historyVars>>

StoreN(g) ==
  /\ Goes(g, "storeN", "storeI")
  /\ peerNodes' = [peerNodes EXCEPT ![n[g]] = vi[g]]
  /\ UNCHANGED <<swapVars, historyVars>>

\* The next turn of the loop sets i and loads both entries anew.
NextTurn(g) ==
  /\ n' = [n EXCEPT ![g] = @ + 1]
  /\ i' = [i EXCEPT ![g] = 1]
  /\ vi' = [vi EXCEPT ![g] = Unset]
  /\ vn' = [vn EXCEPT ![g] = Unset]

\* Fault: entry n is read again, after the first store.
StoreIReread(g) ==
  /\ Goes(g, "storeI", "draw")
  /\ peerNodes' = [peerNodes EXCEPT ![i[g]] = peerNodes[n[g]]]
  /\ NextTurn(g)
  /\ UNCHANGED historyVars

StoreI(g) ==
  /\ Goes(g, "storeI", "draw")
  /\ peerNodes' = [peerNodes EXCEPT ![i[g]] = vn[g]]
  /\ NextTurn(g)
  /\ UNCHANGED historyVars

\* Fault: the peer that is picked is taken out of the list.
LeaveWithPeer(g) ==
  /\ n[g] \notin Index
  /\ Goes(g, "draw", "out")
  /\ n' = [n EXCEPT ![g] = 1]
  /\ peerNodes' = Tail(peerNodes)
  /\ solo' = Nobody
  /\ UNCHANGED <<i, vi, vn, before>>

\* The first entry of the list is returned.
Leave(g) ==
  /\ n[g] \notin Index
  /\ Goes(g, "draw", "out")
  /\ n' = [n EXCEPT ![g] = 1]
  /\ solo' = Nobody
  /\ UNCHANGED <<peerNodes, i, vi, vn, before>>

Next ==
  \E g \in Goroutine :
    \/ Enter(g) \/ Draw(g) \/ LoadN(g) \/ StoreN(g) \/ StoreI(g) \/ Leave(g)

Spec == Init /\ [][Next]_vars

-----------------------------------------------------------------------------
\* The list keeps its length and every entry is a peer, races or not, so a
\* peer is always picked (getRandomPeerAddr).
TypeOK ==
  /\ peerNodes \in [Index -> Peer]
  /\ pc \in [Goroutine -> {"out", "draw", "load", "storeN", "storeI"}]
  /\ n \in [Goroutine -> 1..Len(PeerIps) + 1]
  /\ i \in [Goroutine -> Index]
  /\ vi \in [Goroutine -> Peer]
  /\ vn \in [Goroutine -> Peer]
  /\ solo \in Goroutine \cup {Nobody}
  /\ before \in [Index -> Peer]

Injective(f) == \A j, k \in Index : f[j] = f[k] => j = k

\* The entries of q are those of p in another order.
Reorders(q, p) == \E f \in [Index -> Index] : Injective(f) /\ \A k \in Index : q[k] = p[f[k]]

\* A goroutine that no other joined leaves every peer in the list as often as
\* it was there: between two swaps the list is a reordering of what it found.
\* Two that overlap may lose a peer for good (getRandomPeerAddr).
PeersKept == solo # Nobody /\ pc[solo] = "draw" => Reorders(peerNodes, before)

=============================================================================
