------------------------ MODULE ClusterAnnounceProofs ------------------------
(***************************************************************************)
(* Theorems about ClusterAnnounce, for every set of node ports, every      *)
(* shift and every bound.                                                  *)
(***************************************************************************)
EXTENDS ClusterAnnounce, TLAPS

\* What RemoveAt does to a sequence of lists: it stays one.
LEMMA RemoveAtType ==
  ASSUME NEW S, NEW s \in Seq(S), NEW i \in 1..Len(s)
  PROVE  RemoveAt(s, i) \in Seq(S)
BY DEF RemoveAt

\* Taking the oldest list moves every other one up by a place.
LEMMA RemoveAtFirst ==
  ASSUME NEW S, NEW s \in Seq(S), Len(s) >= 1
  PROVE  /\ Len(RemoveAt(s, 1)) = Len(s) - 1
         /\ \A j \in 1..(Len(s) - 1) : RemoveAt(s, 1)[j] = s[j + 1]
<1> DEFINE front == SubSeq(s, 1, 1 - 1)
           back  == SubSeq(s, 1 + 1, Len(s))
<1>1. front \in Seq(S) /\ Len(front) = 0
  OBVIOUS
<1>2. back \in Seq(S) /\ Len(back) = Len(s) - 1
  OBVIOUS
<1>3. \A j \in 1..(Len(s) - 1) : back[j] = s[j + 1]
  OBVIOUS
<1>4. RemoveAt(s, 1) = front \o back
  BY DEF RemoveAt
<1> HIDE DEF front, back
<1>5. Len(front \o back) = Len(s) - 1
  BY <1>1, <1>2
<1>6. \A j \in 1..(Len(s) - 1) : (front \o back)[j] = back[j]
  BY <1>1, <1>2
<1> QED BY <1>3, <1>4, <1>5, <1>6

-----------------------------------------------------------------------------
\* Every variable keeps the shape the code gives it (InitKubeClient, InitProxy).
THEOREM AnnounceTypeCorrect == Spec => []TypeOK
<1>1. Init => TypeOK
  <2> SUFFICES ASSUME Init PROVE TypeOK
    OBVIOUS
  <2>1. alive \in BOOLEAN /\ overtaken \in BOOLEAN /\ deleted \in BOOLEAN
    BY Zenon DEF Init
  <2>2. starting \in [ProxyPorts -> Nat]
    BY DEF Init
  <2> QED BY <2>1, <2>2 DEF Init, TypeOK
<1>2. ASSUME TypeOK, [Next]_vars
      PROVE  TypeOK'
  <2> USE <1>2, PortAssumption DEF TypeOK
  <2>1. ASSUME NEW p \in Port, AddService(p) \/ DeleteService(p)
        PROVE  TypeOK'
    BY <2>1 DEF AddService, DeleteService, kubeVars, proxyVars
  <2>9. ASSUME NEW k \in Foreign, TakePort(k) \/ FreePort(k)
        PROVE  TypeOK'
    BY <2>9 DEF TakePort, FreePort, kubeVars, proxyVars
  <2>2. ASSUME NEW o \in Committed, HandOver(o) \/ UpdateCluster(o)
        PROVE  TypeOK'
    BY <2>2 DEF HandOver, UpdateCluster, clusterVars, proxyVars
  <2>3. CASE AnnounceClusterPorts
    <3>1. Services \in SUBSET Port
      BY DEF Services
    <3> QED BY <2>3, <3>1 DEF AnnounceClusterPorts, clusterVars, proxyVars
  <2>4. CASE AnnouncePanics \/ AnnounceAgain
    <3>1. CASE AnnouncePanics
      <4>1. alive' \in BOOLEAN /\ overtaken' \in BOOLEAN /\ deleted' \in BOOLEAN
        BY <3>1 DEF AnnouncePanics, clusterVars
      <4>2. starting' \in [ProxyPorts -> Nat] /\ announcements' \in Seq(SUBSET Port)
        BY <3>1 DEF AnnouncePanics
      <4> QED BY <3>1, <4>1, <4>2 DEF AnnouncePanics, clusterVars
    <3>2. CASE AnnounceAgain
      BY <3>2 DEF AnnounceAgain, clusterVars, proxyVars
    <3> QED BY <2>4, <3>1, <3>2
  <2>5. ASSUME NEW i \in 1..MaxWaiting, ReceivePorts(i)
        PROVE  TypeOK'
    <3>1. i \in 1..Len(announcements) /\ announcements[i] \in SUBSET Port
      BY <2>5 DEF ReceivePorts
    <3>2. announcements' \in Seq(SUBSET Port)
      BY <2>5, <3>1, RemoveAtType DEF ReceivePorts
    <3>3. starting' \in [ProxyPorts -> Nat]
      BY <2>5 DEF ReceivePorts
    <3>4. overtaken' \in BOOLEAN
      BY <2>5 DEF ReceivePorts
    <3> QED BY <2>5, <3>1, <3>2, <3>3, <3>4 DEF ReceivePorts, clusterVars
  <2>6. CASE RemovePorts
    BY <2>6 DEF RemovePorts, clusterVars, kubeVars
  <2>7. ASSUME NEW k \in ProxyPorts, ListenPort(k)
        PROVE  TypeOK'
    BY <2>7 DEF ListenPort, clusterVars, kubeVars
  <2>8. CASE UNCHANGED vars
    BY <2>8 DEF vars, clusterVars, kubeVars, proxyVars
  <2> QED BY <2>1, <2>2, <2>3, <2>4, <2>5, <2>6, <2>7, <2>8, <2>9 DEF Next, KubeNext, ProxyNext
<1> QED BY <1>1, <1>2, PTL DEF Spec

-----------------------------------------------------------------------------
(***************************************************************************)
(* While services are only added and announcements arrive in order, every  *)
(* list that is still to be applied contains every port the proxy listens  *)
(* on, or is about to.  So nothing is ever stale.                          *)
(***************************************************************************)
\* The keys the proxy has, or is about to have, a socket for.
Launched == activeClusterPorts \cup {k \in ProxyPorts : starting[k] > 0}

\* A list has the node port of every such key.
Covers(prts) == \A k \in Launched : \E p \in prts : k = ProxyPort(p)

\* Later lists contain earlier ones, and the cluster contains them all.
ListsGrow ==
  /\ \A i, j \in 1..Len(announcements) : i <= j => announcements[i] \subseteq announcements[j]
  /\ \A i \in 1..Len(announcements) : announcements[i] \subseteq Services
  /\ checking # Nothing =>
       /\ checking \subseteq Services
       /\ \A i \in 1..Len(announcements) : checking \subseteq announcements[i]

ListsCover ==
  /\ Covers(Services)
  /\ \A i \in 1..Len(announcements) : Covers(announcements[i])
  /\ checking # Nothing => Covers(checking)

CalmInv == ~deleted /\ ~overtaken => ListsGrow /\ ListsCover /\ RegisteredPortsRun

LEMMA CalmInit == Init => CalmInv
BY DEF Init, CalmInv, ListsGrow, ListsCover, Covers, Launched, RegisteredPortsRun

\* A list that covers the launched keys leaves nothing stale.
LEMMA NothingStale ==
  ASSUME NEW prts, Covers(prts)
  PROVE  StalePorts(prts) = {}
BY DEF StalePorts, Covers, Launched

\* A step in a history without deletion and overtaking keeps the invariant.
LEMMA CalmStep == TypeOK /\ CalmInv /\ [Next]_vars => CalmInv'
<1> SUFFICES ASSUME TypeOK, CalmInv, [Next]_vars, ~deleted', ~overtaken'
             PROVE  (ListsGrow /\ ListsCover /\ RegisteredPortsRun)'
  BY DEF CalmInv
<1>r. ASSUME NEW i, ReceivePorts(i)
      PROVE  ~overtaken /\ i = 1
  <2>1. overtaken' = (overtaken \/ i # 1)
    BY <1>r DEF ReceivePorts
  <2> QED BY <2>1, Zenon
<1>f. ASSUME NEW k, TakePort(k) \/ FreePort(k)
      PROVE  UNCHANGED <<objects, deleted, kubeVars, proxyVars>>
  BY <1>f DEF TakePort, FreePort
<1>a. ~deleted /\ ~overtaken
  <2>1. ASSUME NEW i, ReceivePorts(i)
        PROVE  ~deleted /\ ~overtaken
    BY <1>r, <2>1 DEF ReceivePorts, clusterVars
  <2> QED BY <1>f, <2>1 DEF Next, KubeNext, ProxyNext, AddService, DeleteService, HandOver,
                      UpdateCluster, AnnounceClusterPorts, AnnouncePanics, AnnounceAgain,
                      RemovePorts, ListenPort, vars, clusterVars, proxyVars
<1>b. ListsGrow /\ ListsCover /\ RegisteredPortsRun
  BY <1>a DEF CalmInv
<1>c. Services \subseteq Port
  BY DEF Services
<1>1. ASSUME NEW p \in Port, AddService(p)
      PROVE  (ListsGrow /\ ListsCover /\ RegisteredPortsRun)'
  <2>1. /\ Services \subseteq Services'
        /\ UNCHANGED <<announcements, checking, activeClusterPorts, starting, listening>>
    BY <1>1 DEF AddService, Services, kubeVars, proxyVars
  <2> QED BY <1>b, <2>1 DEF ListsGrow, ListsCover, Covers, Launched, RegisteredPortsRun
<1>2. ASSUME NEW o \in Committed, HandOver(o) \/ UpdateCluster(o)
      PROVE  (ListsGrow /\ ListsCover /\ RegisteredPortsRun)'
  <2>1. /\ Services \subseteq Services'
        /\ UNCHANGED <<announcements, checking, activeClusterPorts, starting, listening>>
    BY <1>2 DEF HandOver, UpdateCluster, Services, clusterVars, proxyVars
  <2> QED BY <1>b, <2>1 DEF ListsGrow, ListsCover, Covers, Launched, RegisteredPortsRun
<1>3. CASE AnnounceClusterPorts
  <2>1. /\ announcements' = Append(announcements, Services)
        /\ Services' = Services
        /\ UNCHANGED <<checking, activeClusterPorts, starting, listening>>
    BY <1>3 DEF AnnounceClusterPorts, Services, clusterVars, proxyVars
  <2>2. /\ Len(announcements') = Len(announcements) + 1
        /\ \A i \in 1..Len(announcements) : announcements'[i] = announcements[i]
        /\ announcements'[Len(announcements) + 1] = Services
    BY <1>c, <2>1 DEF TypeOK
  <2>3. \A i \in 1..Len(announcements') :
          i \in 1..Len(announcements) \/ announcements'[i] = Services
    BY <2>2 DEF TypeOK
  <2>4. ListsGrow'
    BY <1>b, <2>1, <2>2, <2>3 DEF ListsGrow, TypeOK
  <2>5. ListsCover'
    BY <1>b, <2>1, <2>2, <2>3 DEF ListsCover, Covers, Launched
  <2> QED BY <1>b, <2>1, <2>4, <2>5 DEF RegisteredPortsRun
<1>9. CASE AnnouncePanics
  <2>1. announcements' = <<>> /\ checking' = Nothing /\ activeClusterPorts' = {}
    BY <1>9 DEF AnnouncePanics
  <2>2. Launched' = {}
    BY <1>9 DEF AnnouncePanics, Launched
  <2> QED BY <2>1, <2>2 DEF ListsGrow, ListsCover, Covers, RegisteredPortsRun
<1>4. CASE AnnounceAgain \/ UNCHANGED vars
  <2>1. UNCHANGED <<objects, announcements, checking, activeClusterPorts, starting, listening>>
    BY <1>4 DEF AnnounceAgain, vars, clusterVars, kubeVars, proxyVars
  <2> QED BY <1>b, <2>1 DEF ListsGrow, ListsCover, Covers, Launched, RegisteredPortsRun, Services
<1>5. ASSUME NEW i \in 1..MaxWaiting, ReceivePorts(i)
      PROVE  (ListsGrow /\ ListsCover /\ RegisteredPortsRun)'
  <2>1. i = 1 /\ Len(announcements) >= 1 /\ checking' = announcements[1]
    BY <1>5, <1>r DEF ReceivePorts, TypeOK
  <2>2. announcements' = RemoveAt(announcements, 1)
    BY <1>5, <2>1 DEF ReceivePorts
  <2>3. UNCHANGED <<objects, activeClusterPorts, listening>>
    BY <1>5 DEF ReceivePorts, clusterVars
  <2>4. /\ Len(announcements') = Len(announcements) - 1
        /\ \A j \in 1..(Len(announcements) - 1) : announcements'[j] = announcements[j + 1]
    BY <2>1, <2>2, RemoveAtFirst DEF TypeOK
  <2>5. \A j \in 1..Len(announcements') :
          /\ j + 1 \in 1..Len(announcements)
          /\ announcements'[j] = announcements[j + 1]
          /\ announcements[1] \subseteq announcements[j + 1]
    BY <1>b, <2>1, <2>4 DEF ListsGrow, TypeOK
  <2>6. ListsGrow'
    BY <1>b, <2>1, <2>3, <2>5 DEF ListsGrow, Services
  <2>7. Launched' \subseteq Launched \cup {ProxyPort(p) : p \in announcements[1]}
    BY <1>5, <2>1, <2>3 DEF ReceivePorts, Launched, NewPorts, TypeOK
  <2>8. ASSUME NEW prts, announcements[1] \subseteq prts, Covers(prts)
        PROVE  \A k \in Launched' : \E p \in prts : k = ProxyPort(p)
    BY <2>7, <2>8 DEF Covers
  <2>9. ListsCover'
    <3>1. \A k \in Launched' : \E p \in Services' : k = ProxyPort(p)
      BY <1>b, <2>1, <2>3, <2>8 DEF ListsGrow, ListsCover, Services
    <3>2. \A k \in Launched' : \E p \in checking' : k = ProxyPort(p)
      BY <1>b, <2>1, <2>8 DEF ListsCover
    <3>3. \A j \in 1..Len(announcements') :
            \A k \in Launched' : \E p \in announcements'[j] : k = ProxyPort(p)
      BY <1>b, <2>5, <2>8 DEF ListsCover
    <3> QED BY <3>1, <3>2, <3>3 DEF ListsCover, Covers
  <2> QED BY <1>b, <2>3, <2>6, <2>9 DEF RegisteredPortsRun
<1>6. CASE RemovePorts
  <2>1. StalePorts(checking) = {}
    BY <1>b, <1>6, NothingStale DEF RemovePorts, ListsCover
  <2>2. UNCHANGED <<objects, announcements, activeClusterPorts, starting, listening>>
    BY <1>6, <2>1 DEF RemovePorts, clusterVars, kubeVars
  <2>3. checking' = Nothing
    BY <1>6 DEF RemovePorts
  <2> QED BY <1>b, <2>2, <2>3 DEF ListsGrow, ListsCover, Covers, Launched, RegisteredPortsRun,
                                  Services
<1>7. ASSUME NEW k \in ProxyPorts, ListenPort(k)
      PROVE  (ListsGrow /\ ListsCover /\ RegisteredPortsRun)'
  <2>1. UNCHANGED <<objects, announcements, checking>>
    BY <1>7 DEF ListenPort, clusterVars, kubeVars
  <2>2. Launched' \subseteq Launched
    BY <1>7 DEF ListenPort, Launched, TypeOK
  <2>3. RegisteredPortsRun'
    BY <1>b, <1>7 DEF ListenPort, RegisteredPortsRun
  <2>4. ListsCover'
    BY <1>b, <2>1, <2>2 DEF ListsCover, Covers, Services
  <2> QED BY <1>b, <2>1, <2>3, <2>4 DEF ListsGrow, Services
<1>8. ASSUME NEW k \in Foreign, TakePort(k) \/ FreePort(k)
      PROVE  (ListsGrow /\ ListsCover /\ RegisteredPortsRun)'
  <2>1. UNCHANGED <<objects, announcements, checking, activeClusterPorts, starting, listening>>
    BY <1>8, <1>f DEF kubeVars, proxyVars
  <2> QED BY <1>b, <2>1 DEF ListsGrow, ListsCover, Covers, Launched, RegisteredPortsRun, Services
<1> QED
  <2>1. \A p \in Port : ~DeleteService(p)
    BY DEF DeleteService
  <2> QED BY <1>1, <1>2, <1>3, <1>4, <1>5, <1>6, <1>7, <1>8, <1>9, <2>1 DEF Next, KubeNext, ProxyNext

\* A port in the map has an open socket, as long as services are only added
\* and announcements arrive in the order in which they were made.
THEOREM PortsRunWhileCalm == Spec => []PortsKeepRunning
<1>1. CalmInv => PortsKeepRunning
  BY DEF CalmInv, PortsKeepRunning
<1> QED BY <1>1, CalmInit, CalmStep, AnnounceTypeCorrect, PTL DEF Spec

-----------------------------------------------------------------------------
\* The histories in which a service was deleted or a list overtaken stay so.
LEMMA HistoryKept == TypeOK /\ [Next]_vars /\ (deleted \/ overtaken) => deleted' \/ overtaken'
<1> SUFFICES ASSUME TypeOK, [Next]_vars, deleted \/ overtaken, ~(deleted' \/ overtaken')
             PROVE  FALSE
  OBVIOUS
<1>1. ASSUME NEW i, ReceivePorts(i) PROVE FALSE
  <2>1. overtaken' = (overtaken \/ i # 1) /\ deleted' = deleted
    BY <1>1 DEF ReceivePorts, clusterVars
  <2> QED BY <2>1, Zenon
<1> QED BY <1>1 DEF Next, KubeNext, ProxyNext, AddService, DeleteService, TakePort, FreePort, HandOver,
                    UpdateCluster, AnnounceClusterPorts, AnnouncePanics, AnnounceAgain,
                    RemovePorts, ListenPort, vars, clusterVars, proxyVars

\* A step that keeps the open sockets and the map keeps SocketsKept.
LEMMA SocketsUntouched ==
  TypeOK /\ SocketsKept /\ [Next]_vars /\ UNCHANGED <<listening, activeClusterPorts>> => SocketsKept'
BY HistoryKept DEF SocketsKept

\* A step keeps SocketsKept: a key is deleted only when something is stale, which
\* by CalmInv takes a deleted service or an overtaken list, and the key deleted
\* is a shift above the port closed.
LEMMA SocketsStep == TypeOK /\ CalmInv /\ SocketsKept /\ [Next]_vars => SocketsKept'
<1> SUFFICES ASSUME TypeOK, CalmInv, SocketsKept, [Next]_vars
             PROVE  SocketsKept'
  OBVIOUS
<1>1. CASE RemovePorts
  <2>1. PICK visited \in SUBSET StalePorts(checking) :
          /\ listening' = listening \ visited
          /\ activeClusterPorts' = activeClusterPorts \ {k + Shift : k \in visited}
    BY <1>1 DEF RemovePorts
  <2>2. SUFFICES ASSUME NEW k \in listening \ visited,
                        k \notin activeClusterPorts \ {j + Shift : j \in visited}
                 PROVE  k - Shift \in ProxyPorts /\ (deleted' \/ overtaken')
    BY <2>1 DEF SocketsKept
  <2>3. CASE k \notin activeClusterPorts
    BY <2>2, <2>3, HistoryKept DEF SocketsKept
  <2>4. CASE k \in activeClusterPorts
    <3>1. PICK j \in visited : k = j + Shift
      BY <2>2, <2>4
    <3>2. j \in ProxyPorts
      BY <3>1 DEF StalePorts, TypeOK
    <3>3. k - Shift = j
      BY <3>1, <3>2, PortAssumption DEF ProxyPorts, ProxyPort
    <3>4. deleted \/ overtaken
      <4>1. checking # Nothing /\ StalePorts(checking) # {}
        BY <1>1, <3>1 DEF RemovePorts
      <4> QED BY <4>1, NothingStale DEF CalmInv, ListsCover
    <3> QED BY <3>2, <3>3, <3>4, HistoryKept
  <2> QED BY <2>3, <2>4
<1>2. ASSUME NEW k \in ProxyPorts, ListenPort(k)
      PROVE  SocketsKept'
  <2>1. \A j \in listening' \ activeClusterPorts' : j \in listening \ activeClusterPorts
    BY <1>2 DEF ListenPort
  <2> QED BY <2>1, HistoryKept DEF SocketsKept
<1>3. CASE AnnouncePanics
  BY <1>3 DEF AnnouncePanics, SocketsKept
<1> QED
  <2>1. ~RemovePorts /\ ~AnnouncePanics /\ ~(\E k \in ProxyPorts : ListenPort(k))
          => UNCHANGED <<listening, activeClusterPorts>>
    BY DEF Next, KubeNext, ProxyNext, AddService, DeleteService, TakePort, FreePort, HandOver,
           UpdateCluster, AnnounceClusterPorts, AnnounceAgain, ReceivePorts, vars, proxyVars
  <2> QED BY <1>1, <1>2, <1>3, <2>1, SocketsUntouched

\* Whatever the node ports, an open socket drops out of the map only when the port
\* a shift below is closed, which takes a deleted service or a list received late
\* (checkNewPorts, listenPort).
THEOREM SocketsKeptCorrect == Spec => []SocketsKept
<1>1. Init => SocketsKept
  BY DEF Init, SocketsKept
<1> QED BY <1>1, CalmInit, CalmStep, SocketsStep, AnnounceTypeCorrect, PTL DEF Spec
=============================================================================
