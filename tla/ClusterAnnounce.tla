--------------------------- MODULE ClusterAnnounce ---------------------------
(***************************************************************************)
(* One POC process between its Raft log and its proxy: kube/kube_client.go *)
(* creates the committed objects in the cluster and announces the node     *)
(* ports of the cluster, proxy/proxy.go keeps one listening socket for     *)
(* each announced port.                                                    *)
(*                                                                         *)
(* A commit and an announcement are each handed over by a goroutine of     *)
(* their own that blocks on an unbuffered channel, so those that wait may  *)
(* be received in any order.  The zeros an announcement starts with        *)
(* (getClusterNodePorts makes the list with a length, then appends) are    *)
(* skipped by checkNewPorts and left out here: a list is a set of ports.   *)
(***************************************************************************)
EXTENDS Naturals, Sequences, SequencesExt

CONSTANTS
  Port,        \* node ports of the services that come and go
  Shift,       \* LOCAL_DEV_PORT_PROXY_SHIFT
  Committed,   \* objects that may be committed: services, by node port, and deployments
  Foreign,     \* proxy ports other programs may listen on
  MaxWaiting,  \* bound: announcements that wait to be received
  MaxStarting, \* bound: listenPort goroutines of a port that have not locked yet
  Nothing      \* no list

ASSUME PortAssumption == Port \subseteq Nat \ {0} /\ Shift \in Nat \ {0}
ASSUME NothingAssumption == \A S \in SUBSET Port : S # Nothing

VARIABLES
  objects,             \* services (named by their node port) and deployments of the cluster
  taken,               \* proxy ports other programs listen on
  toCluster,           \* committed objects whose goroutine waits on RAFT.toCluster
  kube,                \* KubeClient.Start: about to announce, or in its select
  alive,               \* the process has not panicked
  announcements,       \* lists whose goroutine waits on portChan, oldest first
  checking,            \* the list checkNewPorts has launched listeners for, but not cleaned up
  activeClusterPorts,  \* keys of Proxy.activeClusterPorts
  starting,            \* listenPort goroutines that have not locked yet, by port
  listening,           \* proxy ports with an open socket
  overtaken,           \* history: an announcement was received before an older one
  deleted              \* history: a service was deleted

clusterVars == <<objects, taken, deleted>>
kubeVars  == <<toCluster, kube, alive, announcements>>
proxyVars == <<checking, activeClusterPorts, starting, listening, overtaken>>
vars == <<clusterVars, kubeVars, proxyVars>>

-----------------------------------------------------------------------------
Services == objects \cap Port

\* The proxy port of a node port.
ProxyPort(p) == p + Shift
ProxyPorts == {ProxyPort(p) : p \in Port}

Init ==
  /\ objects \in SUBSET Port
  /\ taken \in SUBSET Foreign
  /\ toCluster = {}
  /\ kube = "announce"
  /\ alive = TRUE
  /\ announcements = <<>>
  /\ checking = Nothing
  /\ activeClusterPorts = {}
  /\ starting = [k \in ProxyPorts |-> 0]
  /\ listening = {}
  /\ overtaken = FALSE
  /\ deleted = FALSE

-----------------------------------------------------------------------------
(***************************************************************************)
(* The Kubernetes cluster, other programs and the Raft layer.              *)
(***************************************************************************)
AddService(p) ==
  /\ p \notin objects
  /\ objects' = objects \cup {p}
  /\ UNCHANGED <<taken, deleted, kubeVars, proxyVars>>

DeleteService(p) ==
  /\ p \in objects
  /\ objects' = objects \ {p}
  /\ deleted' = TRUE
  /\ UNCHANGED <<taken, kubeVars, proxyVars>>

\* Another program binds a proxy port, or frees it again.
TakePort(k) ==
  /\ k \notin listening \cup taken
  /\ taken' = taken \cup {k}
  /\ UNCHANGED <<objects, deleted, kubeVars, proxyVars>>

FreePort(k) ==
  /\ k \in taken
  /\ taken' = taken \ {k}
  /\ UNCHANGED <<objects, deleted, kubeVars, proxyVars>>

\* addCommit starts a goroutine that hands the object over.
HandOver(o) ==
  /\ alive
  /\ toCluster' = toCluster \cup {o}
  /\ UNCHANGED <<clusterVars, kube, alive, announcements, proxyVars>>

-----------------------------------------------------------------------------
(***************************************************************************)
(* KubeClient.Start.                                                       *)
(***************************************************************************)
\* announceClusterPorts: list the services, and leave the list to a goroutine.
AnnounceClusterPorts ==
  /\ alive /\ kube = "announce"
  /\ Len(announcements) < MaxWaiting
  /\ announcements' = Append(announcements, Services)
  /\ kube' = "select"
  /\ UNCHANGED <<clusterVars, toCluster, alive, proxyVars>>

\* announceClusterPorts: the list cannot be had, and log.Panic ends the process,
\* its goroutines and its sockets.
AnnouncePanics ==
  /\ alive /\ kube = "announce"
  /\ alive' = FALSE
  /\ toCluster' = {} /\ announcements' = <<>> /\ checking' = Nothing
  /\ starting' = [k \in ProxyPorts |-> 0]
  /\ listening' = {} /\ activeClusterPorts' = {}
  /\ UNCHANGED <<clusterVars, kube, overtaken>>

\* The case of time.After(TIME_SEC_ANNOUNCE_SERVICES).
AnnounceAgain ==
  /\ alive /\ kube = "select"
  /\ kube' = "announce"
  /\ UNCHANGED <<clusterVars, toCluster, alive, announcements, proxyVars>>

\* updateCluster: an object that the API server refuses, or has already, is
\* dropped; a new service is announced at once.
UpdateCluster(o) ==
  /\ alive /\ kube = "select"
  /\ o \in toCluster
  /\ toCluster' = toCluster \ {o}
  /\ \/ UNCHANGED <<objects, kube>>
     \/ /\ o \notin objects
        /\ objects' = objects \cup {o}
        /\ kube' = IF o \in Port THEN "announce" ELSE kube
  /\ UNCHANGED <<taken, deleted, alive, announcements, proxyVars>>

-----------------------------------------------------------------------------
(***************************************************************************)
(* Proxy.Start and checkNewPorts.  A listener locks portsMut, so it may    *)
(* come between the two loops of checkNewPorts.                            *)
(***************************************************************************)
\* Fault: the first zero of the list ends the loop instead of being skipped.
NewPortsUpToZero(prts) == {}

\* The announced ports whose key is not in the map.
NewPorts(prts) == {ProxyPort(p) : p \in prts} \ activeClusterPorts

\* The first loop of checkNewPorts: a listener for every new port.
ReceivePorts(i) ==
  /\ alive /\ checking = Nothing
  /\ i \in 1..Len(announcements)
  /\ \A k \in NewPorts(announcements[i]) : starting[k] < MaxStarting
  /\ checking' = announcements[i]
  /\ starting' = [k \in ProxyPorts |->
                    IF k \in NewPorts(announcements[i]) THEN starting[k] + 1 ELSE starting[k]]
  /\ announcements' = RemoveAt(announcements, i)
  /\ overtaken' = (overtaken \/ i # 1)
  /\ UNCHANGED <<clusterVars, toCluster, kube, alive, activeClusterPorts, listening>>

\* Faults: an empty list is taken for no news; the key is shifted the wrong way.
StalePortsUnlessEmpty(prts) ==
  IF prts = {} THEN {} ELSE {k \in activeClusterPorts : \A p \in prts : ProxyPort(p) # k}
StalePortsShiftedUp(prts) == {k \in activeClusterPorts : k + Shift \notin prts}

\* The keys whose node port is no longer announced.
StalePorts(prts) == {k \in activeClusterPorts : \A p \in prts : ProxyPort(p) # k}

\* The second loop of checkNewPorts closes the socket of a stale key k and
\* deletes the key k + Shift, which is not k.  The range over the map does not
\* visit a key that was deleted before its turn.
RemovePorts ==
  /\ alive /\ checking # Nothing
  /\ \E visited \in SUBSET StalePorts(checking) :
       /\ \A k \in StalePorts(checking) \ visited : \E j \in visited : k = j + Shift
       /\ listening' = listening \ visited
       /\ activeClusterPorts' = activeClusterPorts \ {k + Shift : k \in visited}
  /\ checking' = Nothing
  /\ UNCHANGED <<clusterVars, kubeVars, starting, overtaken>>

\* Fault: the socket is entered under its node port.
ListenUnshifted(k) ==
  /\ alive /\ starting[k] > 0
  /\ starting' = [starting EXCEPT ![k] = @ - 1]
  /\ IF k \in listening \cup taken
     THEN UNCHANGED <<listening, activeClusterPorts>>
     ELSE /\ listening' = listening \cup {k}
          /\ activeClusterPorts' = activeClusterPorts \cup {k - Shift}
  /\ UNCHANGED <<clusterVars, kubeVars, checking, overtaken>>

\* Fault: the key is entered before the port turns out to be in use.
ListenRegisteredFirst(k) ==
  /\ alive /\ starting[k] > 0
  /\ starting' = [starting EXCEPT ![k] = @ - 1]
  /\ activeClusterPorts' = activeClusterPorts \cup {k}
  /\ listening' = listening \cup ({k} \ taken)
  /\ UNCHANGED <<clusterVars, kubeVars, checking, overtaken>>

\* listenPort up to its Accept loop: a port in use is given up.
ListenPort(k) ==
  /\ alive /\ starting[k] > 0
  /\ starting' = [starting EXCEPT ![k] = @ - 1]
  /\ IF k \in listening \cup taken
     THEN UNCHANGED <<listening, activeClusterPorts>>
     ELSE /\ listening' = listening \cup {k}
          /\ activeClusterPorts' = activeClusterPorts \cup {k}
  /\ UNCHANGED <<clusterVars, kubeVars, checking, overtaken>>

-----------------------------------------------------------------------------
KubeNext ==
  \/ AnnounceClusterPorts \/ AnnouncePanics \/ AnnounceAgain
  \/ \E o \in Committed : HandOver(o) \/ UpdateCluster(o)

ProxyNext ==
  \/ \E i \in 1..MaxWaiting : ReceivePorts(i)
  \/ RemovePorts
  \/ \E k \in ProxyPorts : ListenPort(k)

Next ==
  \/ \E p \in Port : AddService(p) \/ DeleteService(p)
  \/ \E k \in Foreign : TakePort(k) \/ FreePort(k)
  \/ KubeNext
  \/ ProxyNext

Spec == Init /\ [][Next]_vars

\* Every goroutine that can go on does so, a waiting announcement is received
\* sooner or later (a channel serves its senders in turn), the announcement
\* timer fires once no more objects are committed, and no list fails.
Fairness ==
  /\ WF_vars(AnnounceClusterPorts)
  /\ WF_vars(AnnounceAgain)
  /\ SF_vars(ReceivePorts(1))
  /\ WF_vars(RemovePorts)
  /\ \A k \in ProxyPorts : WF_vars(ListenPort(k))
  /\ \A o \in Committed : SF_vars(UpdateCluster(o))

FairSpec == Spec /\ Fairness

-----------------------------------------------------------------------------
\* Every variable keeps the shape the code gives it.
TypeOK ==
  /\ objects \subseteq Port \cup Committed
  /\ taken \subseteq Foreign
  /\ toCluster \subseteq Committed
  /\ kube \in {"announce", "select"}
  /\ alive \in BOOLEAN
  /\ announcements \in Seq(SUBSET Port)
  /\ checking = Nothing \/ checking \subseteq Port
  /\ activeClusterPorts \subseteq ProxyPorts
  /\ starting \in [ProxyPorts -> Nat]
  /\ listening \subseteq ProxyPorts
  /\ overtaken \in BOOLEAN
  /\ deleted \in BOOLEAN

\* "Add server socket to object dict, if close simply close" (listenPort): an open
\* socket drops out of the map, where checkNewPorts finds it when it has to be
\* closed, in one way only: checkNewPorts closes the socket of a port a shift below,
\* in a history with a deleted service or with an announcement received late.
SocketsKept ==
  \A k \in listening \ activeClusterPorts :
    /\ k - Shift \in ProxyPorts
    /\ deleted \/ overtaken

\* "PORT ALREADY EXIST AND RUNNING" (checkNewPorts): a port that is in the map
\* has an open socket.
RegisteredPortsRun == activeClusterPorts \subseteq listening

\* The same as long as services are only added and announcements arrive in
\* the order they were made (announceClusterPorts, checkNewPorts).
PortsKeepRunning == ~deleted /\ ~overtaken => RegisteredPortsRun

\* A port whose service is gone for good does not stay open, unless its key can
\* be deleted in place of another one's (announceClusterPorts, checkNewPorts).
StaleSocketsClose ==
  \A p \in Port : (\A q \in Port : p # q + Shift) =>
    (<>[](alive /\ p \notin objects) => <>[](ProxyPort(p) \notin listening))

\* A service that stays gets a socket, however often its port was in use before,
\* unless another program has the port or the map still has the key of an
\* earlier socket (checkNewPorts, listenPort).
ServicesServed ==
  \A p \in Port :
    p \in objects ~>
      \/ p \notin objects \/ ~alive
      \/ ProxyPort(p) \in listening \cup activeClusterPorts \cup taken

=============================================================================
