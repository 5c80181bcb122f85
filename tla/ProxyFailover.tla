---------------------------- MODULE ProxyFailover ----------------------------
(***************************************************************************)
(* The proxies of all processes (proxy/proxy.go) and the requests of       *)
(* clients they forward: first to one node of the local cluster, and if    *)
(* that fails or takes too long to the proxy of one other process, which   *)
(* forwards it to a node of its own cluster.                               *)
(*                                                                         *)
(* Every request is handled by a goroutine of listenPort, and at the other *)
(* process by one of listenProxies; each calls forwardToCluster, which     *)
(* leaves the talking to the node to a worker goroutine.  The two meet on  *)
(* unbuffered channels.                                                    *)
(***************************************************************************)
EXTENDS Naturals

CONSTANTS
  Site,          \* the processes, one beside each cluster
  Front,         \* the sites whose proxy ports clients use
  Request,       \* the requests clients send
  KNode,         \* names of the nodes of a cluster
  LargeRequest,  \* requests that may not fit in PROXY_MAX_PACKET_SIZE
  LargeAnswer,   \* requests whose answer may not fit in it
  MaxLists,      \* bound: node lists, of all processes together
  MaxEnds,       \* bound: ends of processes
  Nil            \* no site, node or answer

ASSUME FrontAssumption == Front \subseteq Site
ASSUME LargeAssumption == LargeRequest \subseteq Request /\ LargeAnswer \subseteq Request
ASSUME NilAssumption == Nil \notin Site \cup KNode

VARIABLES
  alive,       \* the process runs
  ends,        \* ends of processes so far
  lists,       \* node lists announced so far
  nodes,       \* Proxy.activeClusterNodes
  origin,      \* the site whose proxy port the client of a request uses
  handler,     \* the goroutine of listenPort for a request
  call,        \* forwardToCluster for a request at a site
  worker,      \* the goroutine that talks to the node
  node,        \* the node it talks to
  peer,        \* the site a request was proxied to
  conn,        \* the connection between the two proxies
  reply,       \* what the client has got
  ran          \* history: how often each request was written to each node

processVars == <<alive, ends>>
nodeVars    == <<lists, nodes>>
handlerVars == <<origin, handler, peer>>
callVars    == <<call, worker, node>>
vars == <<processVars, nodeVars, handlerVars, callVars, conn, reply, ran>>

-----------------------------------------------------------------------------
\* A request on a node, which also names the node's answer to it.
Place == [req : Request, site : Site, node : KNode]

At(r, s) == [req |-> r, site |-> s, node |-> node[s][r]]

NoReply(kind)  == [kind |-> kind, by |-> Nil]
AnswerOf(p)    == [kind |-> "answer", by |-> p]

Set(f, s, r, v) == [f EXCEPT ![s][r] = v]

Init ==
  /\ alive = [s \in Site |-> TRUE]
  /\ ends = 0
  /\ lists = 0
  /\ nodes = [s \in Site |-> {}]
  /\ origin = [r \in Request |-> Nil]
  /\ handler = [r \in Request |-> "none"]
  /\ call = [s \in Site |-> [r \in Request |-> "none"]]
  /\ worker = [s \in Site |-> [r \in Request |-> "none"]]
  /\ node = [s \in Site |-> [r \in Request |-> Nil]]
  /\ peer = [r \in Request |-> Nil]
  /\ conn = [r \in Request |-> NoReply("none")]
  /\ reply = [r \in Request |-> NoReply("none")]
  /\ ran = [p \in Place |-> 0]

-----------------------------------------------------------------------------
(***************************************************************************)
(* The nodes of the cluster (startAnnounceClusterNodes, Proxy.Start).      *)
(***************************************************************************)
\* nodeChan is unbuffered: the list the cluster had a moment ago, or an empty
\* one if it cannot be had, replaces the one the proxy has.
AnnounceNodes(s) ==
  /\ alive[s] /\ lists < MaxLists
  /\ \E ns \in SUBSET KNode : nodes' = [nodes EXCEPT ![s] = ns]
  /\ lists' = lists + 1
  /\ UNCHANGED <<processVars, handlerVars, callVars, conn, reply, ran>>

-----------------------------------------------------------------------------
(***************************************************************************)
(* The start and the two ends of forwardToCluster.  Its caller is the      *)
(* goroutine of listenPort, or at another site that of listenProxies.      *)
(***************************************************************************)
\* listenPort reads a request and calls forwardToCluster.
ClientAsks(r, s) ==
  /\ alive[s] /\ reply[r].kind = "none"
  /\ reply' = [reply EXCEPT ![r] = NoReply("waiting")]
  /\ origin' = [origin EXCEPT ![r] = s]
  /\ handler' = [handler EXCEPT ![r] = "local"]
  /\ call' = Set(call, s, r, "start")
  /\ UNCHANGED <<processVars, nodeVars, peer, worker, node, conn, ran>>

\* Fault: listenProxies keeps the failure to itself.
ForwardFailsUnreported(s, r) ==
  /\ call' = Set(call, s, r, "failed")
  /\ IF s = origin[r] THEN handler' = [handler EXCEPT ![r] = "proxy"] ELSE UNCHANGED handler
  /\ UNCHANGED <<processVars, nodeVars, origin, peer, conn, reply, ran>>

\* forwardToCluster returns an error: listenPort turns to a peer, listenProxies
\* reports the failure.
ForwardFails(s, r) ==
  /\ call' = Set(call, s, r, "failed")
  /\ IF s = origin[r]
     THEN handler' = [handler EXCEPT ![r] = "proxy"] /\ UNCHANGED conn
     ELSE conn' = [conn EXCEPT ![r] = NoReply("failed")] /\ UNCHANGED handler
  /\ UNCHANGED <<processVars, nodeVars, origin, peer, reply, ran>>

\* forwardToCluster returns the answer: listenPort writes it to the client,
\* listenProxies to the other proxy.
ForwardReturns(s, r, p) ==
  /\ call' = Set(call, s, r, "answered")
  /\ IF s = origin[r]
     THEN /\ handler' = [handler EXCEPT ![r] = "done"]
          /\ reply' = [reply EXCEPT ![r] = AnswerOf(p)]
          /\ UNCHANGED conn
     ELSE /\ conn' = [conn EXCEPT ![r] = AnswerOf(p)]
          /\ UNCHANGED <<handler, reply>>
  /\ UNCHANGED <<processVars, nodeVars, origin, peer, ran>>

\* Fault: the empty name that stands for each listed node is not skipped.
ForwardToClusterAnyName(s, r) ==
  /\ alive[s] /\ call[s][r] = "start"
  /\ \E n \in nodes[s] \cup {Nil} :
       /\ call' = Set(call, s, r, "select")
       /\ worker' = Set(worker, s, r, "dialing")
       /\ node' = Set(node, s, r, n)
  /\ UNCHANGED <<processVars, nodeVars, handlerVars, conn, reply, ran>>

\* The first node of the shuffled list gets a worker; without a node it fails.
ForwardToCluster(s, r) ==
  /\ alive[s] /\ call[s][r] = "start"
  /\ \/ /\ nodes[s] = {}
        /\ ForwardFails(s, r)
        /\ UNCHANGED <<worker, node>>
     \/ \E n \in nodes[s] :
          /\ call' = Set(call, s, r, "select")
          /\ worker' = Set(worker, s, r, "dialing")
          /\ node' = Set(node, s, r, n)
          /\ UNCHANGED <<processVars, nodeVars, handlerVars, conn, reply, ran>>

-----------------------------------------------------------------------------
(***************************************************************************)
(* The worker, and what the node does.                                     *)
(***************************************************************************)
WorkerGoes(s, r, from, to) ==
  /\ alive[s] /\ worker[s][r] \in from
  /\ worker' = Set(worker, s, r, to)
  /\ UNCHANGED <<processVars, nodeVars, handlerVars, call, node, conn, reply>>

WriteRequest(s, r) ==
  /\ WorkerGoes(s, r, {"dialing"}, "asked")
  /\ ran' = [ran EXCEPT ![At(r, s)] = @ + 1]

\* The worker blocks on the channel failure, or on kubResp with the answer.
NodeFails(s, r)   == WorkerGoes(s, r, {"dialing", "asked"}, "failed") /\ UNCHANGED ran
NodeAnswers(s, r) == WorkerGoes(s, r, {"asked"}, "ready") /\ UNCHANGED ran

\* The three cases of the select of forwardToCluster.
TakeFailure(s, r) ==
  /\ alive[s] /\ call[s][r] = "select" /\ worker[s][r] = "failed"
  /\ worker' = Set(worker, s, r, "none")
  /\ ForwardFails(s, r)
  /\ UNCHANGED node

TakeAnswer(s, r) ==
  /\ alive[s] /\ call[s][r] = "select" /\ worker[s][r] = "ready"
  /\ worker' = Set(worker, s, r, "none")
  /\ ForwardReturns(s, r, At(r, s))
  /\ UNCHANGED node

\* Faults: the timer lets the loop go on to the next node; there is no timer.
TimeOutTriesNext(s, r) ==
  /\ alive[s] /\ call[s][r] = "select"
  /\ call' = Set(call, s, r, "start")
  /\ UNCHANGED <<processVars, nodeVars, handlerVars, worker, node, conn, reply, ran>>
TimeOutNever(s, r) == FALSE /\ UNCHANGED vars

\* The timer closes kubResp and leaves the worker to itself.
TimeOut(s, r) ==
  /\ alive[s] /\ call[s][r] = "select"
  /\ ForwardFails(s, r)
  /\ UNCHANGED <<worker, node>>

-----------------------------------------------------------------------------
(***************************************************************************)
(* proxyRequest and listenProxies.  Which peer getRandomPeerAddr picks is  *)
(* left open here: PeerShuffle models it.                                  *)
(***************************************************************************)
Refuse(r) ==
  /\ handler' = [handler EXCEPT ![r] = "done"]
  /\ reply' = [reply EXCEPT ![r] = NoReply("refused")]

\* A dial that fails refuses the request.
ProxyRequest(r) ==
  /\ handler[r] = "proxy" /\ alive[origin[r]]
  /\ \/ \E p \in Site \ {origin[r]} :
          /\ alive[p]
          /\ peer' = [peer EXCEPT ![r] = p]
          /\ conn' = [conn EXCEPT ![r] = NoReply("sent")]
          /\ handler' = [handler EXCEPT ![r] = "peer"]
          /\ UNCHANGED reply
     \/ Refuse(r) /\ UNCHANGED <<peer, conn>>
  /\ UNCHANGED <<processVars, nodeVars, origin, callVars, ran>>

\* listenProxies reads the packet.  One that does not fit in the buffer cannot
\* be decoded: the goroutine returns and leaves the connection open.
ListenProxies(r) ==
  /\ conn[r].kind = "sent" /\ alive[peer[r]]
  /\ \/ /\ conn' = [conn EXCEPT ![r] = NoReply("taken")]
        /\ call' = Set(call, peer[r], r, "start")
     \/ /\ r \in LargeRequest
        /\ conn' = [conn EXCEPT ![r] = NoReply("dropped")]
        /\ UNCHANGED call
  /\ UNCHANGED <<processVars, nodeVars, handlerVars, worker, node, reply, ran>>

\* A connection nobody refers to is closed when the garbage collector finds it.
CloseDropped(r) ==
  /\ conn[r].kind = "dropped"
  /\ conn' = [conn EXCEPT ![r] = NoReply("reset")]
  /\ UNCHANGED <<processVars, nodeVars, handlerVars, callVars, reply, ran>>

\* proxyRequest reads the peer's packet, and listenPort replies to the client.
ReadReply(r) ==
  /\ handler[r] = "peer" /\ alive[origin[r]]
  /\ \/ /\ \/ conn[r].kind \in {"failed", "reset"}
           \/ conn[r].kind = "answer" /\ r \in LargeAnswer
        /\ Refuse(r)
     \/ /\ conn[r].kind = "answer"
        /\ handler' = [handler EXCEPT ![r] = "done"]
        /\ reply' = [reply EXCEPT ![r] = conn[r]]
  /\ UNCHANGED <<processVars, nodeVars, origin, peer, callVars, conn, ran>>

-----------------------------------------------------------------------------
(***************************************************************************)
(* The end of a process: its clients' connections are closed, and those of *)
(* the proxies that still wait for it are reset.  What it has replied, and *)
(* what it has sent to others, is on its way.                              *)
(***************************************************************************)
\* Fault: the answers it has written are lost with it.
ProcessEndsResets(s) ==
  /\ ends < MaxEnds
  /\ ends' = ends + 1
  /\ alive' = [alive EXCEPT ![s] = FALSE]
  /\ handler' = [r \in Request |-> IF origin[r] = s THEN "done" ELSE handler[r]]
  /\ reply' = [r \in Request |->
                 IF origin[r] = s /\ reply[r].kind = "waiting" THEN NoReply("closed") ELSE reply[r]]
  /\ conn' = [r \in Request |->
                IF peer[r] = s /\ conn[r].kind \in {"sent", "taken", "dropped", "answer"}
                THEN NoReply("reset") ELSE conn[r]]
  /\ call' = [call EXCEPT ![s] =
                [r \in Request |-> IF @[r] \in {"none", "answered"} THEN @[r] ELSE "failed"]]
  /\ worker' = [worker EXCEPT ![s] = [r \in Request |-> "none"]]
  /\ UNCHANGED <<nodeVars, origin, peer, node, ran>>

\* The process ends.
ProcessEnds(s) ==
  /\ ends < MaxEnds
  /\ ends' = ends + 1
  /\ alive' = [alive EXCEPT ![s] = FALSE]
  /\ handler' = [r \in Request |-> IF origin[r] = s THEN "done" ELSE handler[r]]
  /\ reply' = [r \in Request |->
                 IF origin[r] = s /\ reply[r].kind = "waiting" THEN NoReply("closed") ELSE reply[r]]
  /\ conn' = [r \in Request |->
                IF peer[r] = s /\ conn[r].kind \in {"sent", "taken", "dropped"}
                THEN NoReply("reset") ELSE conn[r]]
  /\ call' = [call EXCEPT ![s] =
                [r \in Request |-> IF @[r] \in {"none", "answered"} THEN @[r] ELSE "failed"]]
  /\ worker' = [worker EXCEPT ![s] = [r \in Request |-> "none"]]
  /\ UNCHANGED <<nodeVars, origin, peer, node, ran>>

\* A worker sends its answer on kubResp, which the timer has closed.
LateAnswerPanics(s) ==
  /\ alive[s]
  /\ \E r \in Request : worker[s][r] = "ready" /\ call[s][r] = "failed"
  /\ ProcessEnds(s)

\* announceClusterPorts cannot list the services.
AnnouncePanics(s) == alive[s] /\ ProcessEnds(s)

\* The process is started again.
Restart(s) ==
  /\ ~alive[s]
  /\ alive' = [alive EXCEPT ![s] = TRUE]
  /\ nodes' = [nodes EXCEPT ![s] = {}]
  /\ UNCHANGED <<ends, lists, origin, handler, peer, callVars, conn, reply, ran>>

-----------------------------------------------------------------------------
CallNext(s, r) ==
  \/ ForwardToCluster(s, r)
  \/ WriteRequest(s, r) \/ NodeFails(s, r) \/ NodeAnswers(s, r)
  \/ TakeFailure(s, r) \/ TakeAnswer(s, r) \/ TimeOut(s, r)

HandlerNext(r) ==
  \/ \E s \in Front : ClientAsks(r, s)
  \/ ProxyRequest(r)
  \/ ListenProxies(r) \/ CloseDropped(r) \/ ReadReply(r)

ProcessNext(s) ==
  \/ AnnounceNodes(s)
  \/ LateAnswerPanics(s) \/ AnnouncePanics(s) \/ Restart(s)

Next ==
  \/ \E s \in Site : ProcessNext(s) \/ \E r \in Request : CallNext(s, r)
  \/ \E r \in Request : HandlerNext(r)

Spec == Init /\ [][Next]_vars

\* Goroutines that can go on do, and the timer of forwardToCluster fires.
\* Nothing is expected of nodes, of the garbage collector or of a process that
\* has ended.
Fairness ==
  /\ \A s \in Site, r \in Request :
       /\ WF_vars(ForwardToCluster(s, r))
       /\ WF_vars(TakeFailure(s, r) \/ TakeAnswer(s, r) \/ TimeOut(s, r))
  /\ \A r \in Request :
       /\ WF_vars(ProxyRequest(r))
       /\ WF_vars(ListenProxies(r))
       /\ WF_vars(ReadReply(r))

FairSpec == Spec /\ Fairness

-----------------------------------------------------------------------------
Replies == {NoReply(k) : k \in {"none", "waiting", "refused", "closed"}} \cup {AnswerOf(p) : p \in Place}
Conns ==
  {NoReply(k) : k \in {"none", "sent", "taken", "dropped", "failed", "reset"}}
    \cup {AnswerOf(p) : p \in Place}

\* Every variable keeps the shape the code gives it.
TypeOK ==
  /\ alive \in [Site -> BOOLEAN]
  /\ lists \in Nat
  /\ ends \in Nat
  /\ nodes \in [Site -> SUBSET KNode]
  /\ origin \in [Request -> Site \cup {Nil}]
  /\ handler \in [Request -> {"none", "local", "proxy", "peer", "done"}]
  /\ call \in [Site -> [Request -> {"none", "start", "select", "failed", "answered"}]]
  /\ worker \in [Site -> [Request -> {"none", "dialing", "asked", "failed", "ready"}]]
  /\ node \in [Site -> [Request -> KNode \cup {Nil}]]
  /\ peer \in [Request -> Site \cup {Nil}]
  /\ conn \in [Request -> Conns]
  /\ reply \in [Request -> Replies]
  /\ ran \in [Place -> Nat]

Abstract == INSTANCE Failover

\* The proxies keep the promises of Failover: however nodes fail, answer late
\* or processes end, a request runs in at most two clusters and on one node of
\* each, and its client gets one reply, an answer of a node it ran on or a
\* refusal (forwardToCluster, listenPort, listenProxies).
ImplementsFailover == Abstract!Spec

\* A client is not refused once forwardToCluster has returned an answer, here
\* or at the other process, if the answer fits in a packet (proxyRequest).
RefusedWithoutAnswer ==
  \A r \in Request \ LargeAnswer, s \in Site :
    reply[r].kind = "refused" => call[s][r] # "answered"

\* forwardToCluster runs for a request, and ends by its timer if by nothing else.
InForward(s, r) == alive[s] /\ call[s][r] \in {"start", "select"}

\* The request of a client that waits is in the hands of somebody who goes on:
\* forwardToCluster at its process; or proxyRequest, about to ask a peer; or the
\* peer, which has it before it, works on it or has replied.  One that did not
\* fit in a packet waits for its connection to be closed.
Attended(r) ==
  /\ alive[origin[r]]
  /\ \/ handler[r] = "local" /\ InForward(origin[r], r)
     \/ handler[r] = "proxy"
     \/ /\ handler[r] = "peer"
        /\ \/ conn[r].kind = "sent" /\ alive[peer[r]]
           \/ conn[r].kind = "taken" /\ InForward(peer[r], r)
           \/ conn[r].kind \in {"failed", "reset", "answer"}
           \/ conn[r].kind = "dropped" /\ r \in LargeRequest

\* No client waits for somebody who has left, whoever fails or ends and when
\* (listenPort, forwardToCluster, proxyRequest, listenProxies).
ClientsAttended == \A r \in Request : reply[r].kind = "waiting" => Attended(r)

\* A client whose request fits in a packet gets a reply or loses its
\* connection: nodes that never answer, peers that fail and processes that end
\* do not leave it waiting (listenPort, forwardToCluster, proxyRequest).
ClientsHearBack ==
  \A r \in Request \ LargeRequest : reply[r].kind = "waiting" ~> reply[r].kind # "waiting"

=============================================================================
