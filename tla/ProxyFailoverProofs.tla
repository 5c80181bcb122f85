------------------------- MODULE ProxyFailoverProofs -------------------------
(***************************************************************************)
(* Theorems about ProxyFailover, for all sets of sites, nodes and requests *)
(* and all bounds.                                                         *)
(***************************************************************************)
EXTENDS ProxyFailover, TLAPS

Fresh(k) == k \in {"none", "start"}
Open(k)  == k \in {"start", "select"}

\* A worker has a node, and has run the request there once it has written it.
WorkerInv ==
  \A s \in Site, r \in Request : worker[s][r] # "none" =>
    /\ node[s][r] \in KNode
    /\ call[s][r] \in {"select", "failed"}
    /\ worker[s][r] \in {"asked", "ready"} => ran[At(r, s)] > 0

\* A request has run at a site at most on the node its worker was given, and
\* not before that worker has written it.
RanInv ==
  \A p \in Place : ran[p] > 0 =>
    /\ ~Fresh(call[p.site][p.req])
    /\ worker[p.site][p.req] # "dialing"
    /\ node[p.site][p.req] = p.node

\* A request is forwarded at the site its client uses, and at the peer.
CallInv ==
  \A s \in Site, r \in Request : call[s][r] # "none" =>
    /\ reply[r].kind # "none"
    /\ s = origin[r] \/ s = peer[r]
    /\ Open(call[s][r]) => IF s = origin[r] THEN handler[r] = "local" ELSE conn[r].kind = "taken"
    /\ call[s][r] = "answered" =>
         IF s = origin[r] THEN reply[r].kind = "answer" ELSE conn[r].kind = "answer"

\* What the goroutine of listenPort does and what its client has got agree.
HandlerInv ==
  \A r \in Request :
    /\ handler[r] \in {"local", "proxy", "peer"} => reply[r].kind = "waiting"
    /\ handler[r] = "none" <=> reply[r].kind = "none"
    /\ handler[r] = "none" <=> origin[r] = Nil
    /\ handler[r] \in {"none", "local", "proxy"} => conn[r].kind = "none"
    /\ reply[r].kind = "refused" =>
         /\ handler[r] = "done"
         /\ conn[r].kind \in {"none", "failed", "reset", "answer"}
         /\ conn[r].kind = "answer" => r \in LargeAnswer

\* A connection leads to a peer, which has not called before it reads.  An
\* answer on it is one of a node the request ran on.
ConnInv ==
  \A r \in Request :
    /\ conn[r].kind = "none" <=> peer[r] = Nil
    /\ peer[r] # Nil => peer[r] # origin[r]
    /\ conn[r].kind = "sent" => call[peer[r]][r] = "none"
    /\ conn[r].kind = "answer" => conn[r].by.req = r /\ ran[conn[r].by] > 0

IInv == TypeOK /\ WorkerInv /\ RanInv /\ CallInv /\ HandlerInv /\ ConnInv

-----------------------------------------------------------------------------
\* What a client gets, and what goes over a connection.
LEMMA ReplyTypes ==
  /\ \A k \in {"none", "waiting", "refused", "closed"} : NoReply(k) \in Replies
  /\ \A k \in {"none", "sent", "taken", "dropped", "failed", "reset"} : NoReply(k) \in Conns
  /\ \A p \in Place : AnswerOf(p) \in Replies /\ AnswerOf(p) \in Conns
  /\ \A c \in Conns : c.kind = "answer" => c \in Replies /\ c.by \in Place /\ c = AnswerOf(c.by)
  /\ \A c \in Replies \cup Conns : c.kind # "answer" => c = NoReply(c.kind)
  /\ \A k : NoReply(k).kind = k
  /\ \A p : AnswerOf(p).kind = "answer" /\ AnswerOf(p).by = p
<1>1. /\ \A k : NoReply(k).kind = k
      /\ \A p : AnswerOf(p).kind = "answer" /\ AnswerOf(p).by = p
  BY DEF NoReply, AnswerOf
<1>2. \A c \in Replies \cup Conns :
        \/ \E p \in Place : c = AnswerOf(p)
        \/ c.kind # "answer" /\ c = NoReply(c.kind)
  <2> TAKE c \in Replies \cup Conns
  <2>1. CASE \E p \in Place : c = AnswerOf(p)
    BY <2>1
  <2>2. CASE \E k \in {"none", "waiting", "refused", "closed", "sent", "taken", "dropped", "failed", "reset"} :
               c = NoReply(k)
    BY <1>1, <2>2
  <2> QED BY <2>1, <2>2 DEF Replies, Conns
<1>3. \A p \in Place : AnswerOf(p) \in Replies /\ AnswerOf(p) \in Conns
  BY Zenon DEF Replies, Conns
<1>4. \A k \in {"none", "waiting", "refused", "closed"} : NoReply(k) \in Replies
  BY Zenon DEF Replies
<1>5. \A k \in {"none", "sent", "taken", "dropped", "failed", "reset"} : NoReply(k) \in Conns
  BY Zenon DEF Conns
<1>6. \A c \in Conns : c.kind = "answer" => c \in Replies /\ c.by \in Place /\ c = AnswerOf(c.by)
  BY <1>1, <1>2, <1>3
<1> QED BY <1>1, <1>2, <1>3, <1>4, <1>5, <1>6

LEMMA PlaceType ==
  ASSUME NEW s \in Site, NEW r \in Request, node[s][r] \in KNode
  PROVE  /\ At(r, s) \in Place
         /\ At(r, s).req = r /\ At(r, s).site = s /\ At(r, s).node = node[s][r]
BY DEF At, Place

\* One entry of a table by site and request is replaced.
LEMMA SetEntry ==
  ASSUME NEW V, NEW f \in [Site -> [Request -> V]],
         NEW s \in Site, NEW r \in Request, NEW v \in V
  PROVE  /\ Set(f, s, r, v) \in [Site -> [Request -> V]]
         /\ \A t \in Site, q \in Request :
              Set(f, s, r, v)[t][q] = IF t = s /\ q = r THEN v ELSE f[t][q]
BY DEF Set

LEMMA InitInv == Init => IInv
<1> SUFFICES ASSUME Init PROVE IInv
  OBVIOUS
<1>1. TypeOK
  BY ReplyTypes DEF Init, TypeOK
<1>2. WorkerInv /\ RanInv /\ CallInv /\ HandlerInv /\ ConnInv
  BY ReplyTypes DEF Init, WorkerInv, RanInv, CallInv, HandlerInv, ConnInv, Open, Place
<1> QED BY <1>1, <1>2 DEF IInv

\* A new node list disturbs nothing a request has.
LEMMA AnnounceNodesStep ==
  ASSUME IInv, NEW s \in Site, AnnounceNodes(s)
  PROVE  IInv'
<1> USE ReplyTypes, NilAssumption DEF AnnounceNodes, Set, processVars, nodeVars, handlerVars, callVars
<1>1. TypeOK'
  BY DEF IInv, TypeOK, WorkerInv
<1>2. WorkerInv'
  BY DEF IInv, TypeOK, WorkerInv, CallInv, At
<1>3. RanInv'
  BY DEF IInv, TypeOK, WorkerInv, RanInv, CallInv, Fresh, Place, At
<1>4. CallInv'
  BY DEF IInv, TypeOK, CallInv, HandlerInv, ConnInv, Open
<1>5. HandlerInv'
  BY DEF IInv, TypeOK, CallInv, HandlerInv, ConnInv, Open
<1>6. ConnInv'
  BY DEF IInv, TypeOK, WorkerInv, CallInv, HandlerInv, ConnInv, Open, At, Place
<1> QED BY <1>1, <1>2, <1>3, <1>4, <1>5, <1>6 DEF IInv

\* A request that begins has no call, worker or connection yet.
LEMMA ClientAsksStep ==
  ASSUME IInv, NEW r \in Request, NEW s \in Site, ClientAsks(r, s)
  PROVE  IInv'
<1> USE ReplyTypes, NilAssumption DEF ClientAsks, Set, processVars, nodeVars, handlerVars, callVars
<1>1. TypeOK'
  BY DEF IInv, TypeOK, WorkerInv
<1>2. WorkerInv'
  BY DEF IInv, TypeOK, WorkerInv, CallInv, At
<1>3. RanInv'
  BY DEF IInv, TypeOK, WorkerInv, RanInv, CallInv, Fresh, Place, At
<1>4. CallInv'
  BY DEF IInv, TypeOK, CallInv, HandlerInv, ConnInv, Open
<1>5. HandlerInv'
  BY DEF IInv, TypeOK, CallInv, HandlerInv, ConnInv, Open
<1>6. ConnInv'
  BY DEF IInv, TypeOK, WorkerInv, CallInv, HandlerInv, ConnInv, Open, At, Place
<1> QED BY <1>1, <1>2, <1>3, <1>4, <1>5, <1>6 DEF IInv

\* forwardToCluster without a node fails at once; otherwise it gets a worker.
LEMMA ForwardToClusterStep ==
  ASSUME IInv, NEW s \in Site, NEW r \in Request, ForwardToCluster(s, r)
  PROVE  IInv'
<1> USE ReplyTypes, NilAssumption DEF Set, processVars, nodeVars, handlerVars, callVars
<1>0. call[s][r] = "start" /\ worker[s][r] = "none"
  BY DEF IInv, TypeOK, WorkerInv, ForwardToCluster
<1>1. CASE ForwardFails(s, r) /\ UNCHANGED <<worker, node>>
  <2> USE <1>0, <1>1 DEF ForwardFails
  <2>1. TypeOK'
    <3>1. call' \in [Site -> [Request -> {"none", "start", "select", "failed", "answered"}]]
      BY DEF IInv, TypeOK
    <3>2. handler' \in [Request -> {"none", "local", "proxy", "peer", "done"}]
      BY DEF IInv, TypeOK
    <3>3. conn' \in [Request -> Conns]
      BY DEF IInv, TypeOK
    <3> QED BY <3>1, <3>2, <3>3 DEF TypeOK, IInv
  <2>2. WorkerInv'
    BY DEF IInv, TypeOK, WorkerInv, CallInv, At
  <2>3. RanInv'
    BY DEF IInv, TypeOK, WorkerInv, RanInv, CallInv, Fresh, Place, At
  <2>4. CallInv'
    BY DEF IInv, TypeOK, CallInv, HandlerInv, ConnInv, Open
  <2>5. HandlerInv'
    BY DEF IInv, TypeOK, CallInv, HandlerInv, ConnInv, Open
  <2>6. ConnInv'
    BY DEF IInv, TypeOK, CallInv, HandlerInv, ConnInv, Open
  <2> QED BY <2>1, <2>2, <2>3, <2>4, <2>5, <2>6 DEF IInv
<1>2. ASSUME NEW k \in nodes[s],
             call' = Set(call, s, r, "select"),
             worker' = Set(worker, s, r, "dialing"),
             node' = Set(node, s, r, k),
             UNCHANGED <<processVars, nodeVars, handlerVars, conn, reply, ran>>
      PROVE  IInv'
  <2> USE <1>0, <1>2
  <2>0. k \in KNode
    BY DEF IInv, TypeOK
  <2>1. TypeOK'
    <3>1. call' \in [Site -> [Request -> {"none", "start", "select", "failed", "answered"}]]
      BY DEF IInv, TypeOK
    <3>2. worker' \in [Site -> [Request -> {"none", "dialing", "asked", "failed", "ready"}]]
      BY DEF IInv, TypeOK
    <3>3. node' \in [Site -> [Request -> KNode \cup {Nil}]]
      BY <2>0 DEF IInv, TypeOK
    <3> QED BY <3>1, <3>2, <3>3 DEF TypeOK, IInv
  <2>2. WorkerInv'
    BY <2>0 DEF IInv, TypeOK, WorkerInv, At
  <2>3. RanInv'
    BY DEF IInv, TypeOK, RanInv, Fresh, Place
  <2>4. CallInv'
    BY DEF IInv, TypeOK, CallInv, Open
  <2>5. HandlerInv'
    BY DEF IInv, HandlerInv
  <2>6. ConnInv'
    BY DEF IInv, TypeOK, CallInv, ConnInv
  <2> QED BY <2>1, <2>2, <2>3, <2>4, <2>5, <2>6 DEF IInv
<1> QED BY <1>1, <1>2 DEF ForwardToCluster

\* The first write of a worker is the only one.
LEMMA WriteRequestStep ==
  ASSUME IInv, NEW s \in Site, NEW r \in Request, WriteRequest(s, r)
  PROVE  IInv'
<1> USE NilAssumption DEF Set, processVars, nodeVars, handlerVars, callVars
<1>1. /\ worker[s][r] = "dialing" /\ worker' = Set(worker, s, r, "asked")
      /\ ran' = [ran EXCEPT ![At(r, s)] = @ + 1]
      /\ UNCHANGED <<processVars, nodeVars, handlerVars, call, node, conn, reply>>
  BY DEF WriteRequest, WorkerGoes
<1>2. /\ At(r, s) \in Place
      /\ At(r, s).req = r /\ At(r, s).site = s /\ At(r, s).node = node[s][r]
  BY <1>1, PlaceType DEF IInv, WorkerInv
<1>3. \A p \in Place : ran'[p] = IF p = At(r, s) THEN ran[p] + 1 ELSE ran[p]
  BY <1>1, <1>2 DEF IInv, TypeOK
<1>4. \A t \in Site, q \in Request :
        worker'[t][q] = IF t = s /\ q = r THEN "asked" ELSE worker[t][q]
  BY <1>1 DEF IInv, TypeOK
<1>5. \A p \in Place : ran[p] \in Nat /\ (ran[p] > 0 => ran'[p] > 0)
  BY <1>3 DEF IInv, TypeOK
<1>6. \A t \in Site, q \in Request : At(q, t)' = At(q, t)
  BY <1>1 DEF At
<1>7. TypeOK'
  <2>1. worker' \in [Site -> [Request -> {"none", "dialing", "asked", "failed", "ready"}]]
    BY <1>1 DEF IInv, TypeOK
  <2>2. ran' \in [Place -> Nat]
    BY <1>1, <1>2 DEF IInv, TypeOK
  <2> QED BY <1>1, <2>1, <2>2 DEF IInv, TypeOK
<1>8. WorkerInv'
  <2> SUFFICES ASSUME NEW t \in Site, NEW q \in Request, worker'[t][q] # "none"
               PROVE  /\ node'[t][q] \in KNode
                      /\ call'[t][q] \in {"select", "failed"}
                      /\ worker'[t][q] \in {"asked", "ready"} => ran'[At(q, t)'] > 0
    BY DEF WorkerInv
  <2>1. CASE t = s /\ q = r
    <3>1. ran'[At(r, s)] > 0
      BY <1>2, <1>3, <1>5
    <3> QED BY <1>1, <1>6, <2>1, <3>1 DEF IInv, WorkerInv
  <2>2. CASE ~(t = s /\ q = r)
    <3>1. worker'[t][q] = worker[t][q]
      BY <1>4, <2>2
    <3>2. At(q, t) \in Place
      BY <3>1, PlaceType DEF IInv, WorkerInv
    <3> QED BY <1>1, <1>5, <1>6, <3>1, <3>2 DEF IInv, WorkerInv
  <2> QED BY <2>1, <2>2
<1>9. RanInv'
  <2> SUFFICES ASSUME NEW p \in Place, ran'[p] > 0
               PROVE  /\ ~Fresh(call'[p.site][p.req])
                      /\ worker'[p.site][p.req] # "dialing"
                      /\ node'[p.site][p.req] = p.node
    BY DEF RanInv, Fresh
  <2>1. p.site \in Site /\ p.req \in Request
    BY DEF Place
  <2>2. CASE p = At(r, s)
    BY <1>1, <1>2, <1>4, <2>2 DEF IInv, WorkerInv, Fresh
  <2>3. CASE p # At(r, s)
    <3>1. ran[p] > 0
      BY <1>3, <2>3
    <3> QED BY <1>1, <1>4, <2>1, <3>1 DEF IInv, RanInv, Fresh
  <2> QED BY <2>2, <2>3
<1>10. CallInv' /\ HandlerInv'
  BY <1>1 DEF IInv, CallInv, HandlerInv
<1>11. ConnInv'
  <2>1. \A q \in Request : conn[q].kind = "answer" => conn[q].by \in Place
    BY ReplyTypes DEF IInv, TypeOK
  <2> QED BY <1>1, <1>5, <2>1 DEF IInv, ConnInv
<1> QED BY <1>7, <1>8, <1>9, <1>10, <1>11 DEF IInv

\* The worker gives up, with or without having written the request.
LEMMA NodeFailsStep ==
  ASSUME IInv, NEW s \in Site, NEW r \in Request, NodeFails(s, r)
  PROVE  IInv'
<1> USE ReplyTypes, NilAssumption DEF NodeFails, WorkerGoes, Set, processVars, nodeVars, handlerVars, callVars
<1>1. TypeOK'
  BY DEF IInv, TypeOK, WorkerInv
<1>2. WorkerInv'
  BY DEF IInv, TypeOK, WorkerInv, CallInv, At
<1>3. RanInv'
  BY DEF IInv, TypeOK, WorkerInv, RanInv, CallInv, Fresh, Place, At
<1>4. CallInv'
  BY DEF IInv, TypeOK, CallInv, HandlerInv, ConnInv, Open
<1>5. HandlerInv'
  BY DEF IInv, TypeOK, CallInv, HandlerInv, ConnInv, Open
<1>6. ConnInv'
  BY DEF IInv, TypeOK, WorkerInv, CallInv, HandlerInv, ConnInv, Open, At, Place
<1> QED BY <1>1, <1>2, <1>3, <1>4, <1>5, <1>6 DEF IInv

\* The worker holds the answer of a node the request ran on.
LEMMA NodeAnswersStep ==
  ASSUME IInv, NEW s \in Site, NEW r \in Request, NodeAnswers(s, r)
  PROVE  IInv'
<1> USE ReplyTypes, NilAssumption DEF NodeAnswers, WorkerGoes, Set, processVars, nodeVars, handlerVars, callVars
<1>1. TypeOK'
  BY DEF IInv, TypeOK, WorkerInv
<1>2. WorkerInv'
  BY DEF IInv, TypeOK, WorkerInv, CallInv, At
<1>3. RanInv'
  BY DEF IInv, TypeOK, WorkerInv, RanInv, CallInv, Fresh, Place, At
<1>4. CallInv'
  BY DEF IInv, TypeOK, CallInv, HandlerInv, ConnInv, Open
<1>5. HandlerInv'
  BY DEF IInv, TypeOK, CallInv, HandlerInv, ConnInv, Open
<1>6. ConnInv'
  BY DEF IInv, TypeOK, WorkerInv, CallInv, HandlerInv, ConnInv, Open, At, Place
<1> QED BY <1>1, <1>2, <1>3, <1>4, <1>5, <1>6 DEF IInv

\* A failure of the node is a failure of forwardToCluster.
LEMMA TakeFailureStep ==
  ASSUME IInv, NEW s \in Site, NEW r \in Request, TakeFailure(s, r)
  PROVE  IInv'
<1> USE ReplyTypes, NilAssumption DEF TakeFailure, ForwardFails, Set, processVars, nodeVars, handlerVars, callVars
<1>1. TypeOK'
  <2>1. call' \in [Site -> [Request -> {"none", "start", "select", "failed", "answered"}]]
    BY DEF IInv, TypeOK
  <2>2. worker' \in [Site -> [Request -> {"none", "dialing", "asked", "failed", "ready"}]]
    BY DEF IInv, TypeOK
  <2>3. handler' \in [Request -> {"none", "local", "proxy", "peer", "done"}]
    BY DEF IInv, TypeOK
  <2>4. conn' \in [Request -> Conns]
    BY DEF IInv, TypeOK
  <2> QED BY <2>1, <2>2, <2>3, <2>4 DEF TypeOK, IInv
<1>2. WorkerInv'
  BY DEF IInv, TypeOK, WorkerInv, CallInv, At
<1>3. RanInv'
  BY DEF IInv, TypeOK, WorkerInv, RanInv, CallInv, Fresh, Place, At
<1>4. CallInv'
  BY DEF IInv, TypeOK, CallInv, HandlerInv, ConnInv, Open
<1>5. HandlerInv'
  BY DEF IInv, TypeOK, CallInv, HandlerInv, ConnInv, Open
<1>6. ConnInv'
  BY DEF IInv, TypeOK, WorkerInv, CallInv, HandlerInv, ConnInv, Open, At, Place
<1> QED BY <1>1, <1>2, <1>3, <1>4, <1>5, <1>6 DEF IInv

\* forwardToCluster returns the answer of a node the request ran on.
LEMMA TakeAnswerStep ==
  ASSUME IInv, NEW s \in Site, NEW r \in Request, TakeAnswer(s, r)
  PROVE  IInv'
<1> USE ReplyTypes, NilAssumption DEF TakeAnswer, ForwardReturns, Set, processVars, nodeVars, handlerVars, callVars
<1>1. TypeOK'
  <2>1. AnswerOf(At(r, s)) \in Replies /\ AnswerOf(At(r, s)) \in Conns
    BY PlaceType DEF IInv, WorkerInv
  <2>2. call' \in [Site -> [Request -> {"none", "start", "select", "failed", "answered"}]]
    BY DEF IInv, TypeOK
  <2>3. worker' \in [Site -> [Request -> {"none", "dialing", "asked", "failed", "ready"}]]
    BY DEF IInv, TypeOK
  <2>4. handler' \in [Request -> {"none", "local", "proxy", "peer", "done"}]
    BY DEF IInv, TypeOK
  <2>5. conn' \in [Request -> Conns]
    BY <2>1 DEF IInv, TypeOK
  <2>6. reply' \in [Request -> Replies]
    BY <2>1 DEF IInv, TypeOK
  <2> QED BY <2>1, <2>2, <2>3, <2>4, <2>5, <2>6 DEF TypeOK, IInv
<1>2. WorkerInv'
  BY DEF IInv, TypeOK, WorkerInv, CallInv, At
<1>3. RanInv'
  BY DEF IInv, TypeOK, WorkerInv, RanInv, CallInv, Fresh, Place, At
<1>4. CallInv'
  BY DEF IInv, TypeOK, CallInv, HandlerInv, ConnInv, Open
<1>5. HandlerInv'
  BY DEF IInv, TypeOK, CallInv, HandlerInv, ConnInv, Open
<1>6. ConnInv'
  BY DEF IInv, TypeOK, WorkerInv, CallInv, HandlerInv, ConnInv, Open, At, Place
<1> QED BY <1>1, <1>2, <1>3, <1>4, <1>5, <1>6 DEF IInv

\* After a timeout the worker goes on, but the call has failed.
LEMMA TimeOutStep ==
  ASSUME IInv, NEW s \in Site, NEW r \in Request, TimeOut(s, r)
  PROVE  IInv'
<1> USE ReplyTypes, NilAssumption DEF TimeOut, ForwardFails, Set, processVars, nodeVars, handlerVars, callVars
<1>1. TypeOK'
  <2>1. call' \in [Site -> [Request -> {"none", "start", "select", "failed", "answered"}]]
    BY DEF IInv, TypeOK
  <2>2. handler' \in [Request -> {"none", "local", "proxy", "peer", "done"}]
    BY DEF IInv, TypeOK
  <2>3. conn' \in [Request -> Conns]
    BY DEF IInv, TypeOK
  <2> QED BY <2>1, <2>2, <2>3 DEF TypeOK, IInv
<1>2. WorkerInv'
  BY DEF IInv, TypeOK, WorkerInv, CallInv, At
<1>3. RanInv'
  BY DEF IInv, TypeOK, WorkerInv, RanInv, CallInv, Fresh, Place, At
<1>4. CallInv'
  BY DEF IInv, TypeOK, CallInv, HandlerInv, ConnInv, Open
<1>5. HandlerInv'
  BY DEF IInv, TypeOK, CallInv, HandlerInv, ConnInv, Open
<1>6. ConnInv'
  BY DEF IInv, TypeOK, WorkerInv, CallInv, HandlerInv, ConnInv, Open, At, Place
<1> QED BY <1>1, <1>2, <1>3, <1>4, <1>5, <1>6 DEF IInv

\* The request goes to a peer that has not been asked, or is refused.
LEMMA ProxyRequestStep ==
  ASSUME IInv, NEW r \in Request, ProxyRequest(r)
  PROVE  IInv'
<1> USE ReplyTypes, NilAssumption DEF processVars, nodeVars, handlerVars, callVars
<1>0. /\ handler[r] = "proxy" /\ reply[r].kind = "waiting" /\ conn[r].kind = "none"
      /\ peer[r] = Nil /\ origin[r] # Nil
  BY DEF ProxyRequest, IInv, TypeOK, HandlerInv, ConnInv
<1>1. ASSUME NEW p \in Site \ {origin[r]},
             peer' = [peer EXCEPT ![r] = p],
             conn' = [conn EXCEPT ![r] = NoReply("sent")],
             handler' = [handler EXCEPT ![r] = "peer"],
             UNCHANGED <<processVars, nodeVars, origin, callVars, ran, reply>>
      PROVE  IInv'
  <2> USE <1>0, <1>1
  <2>1. call[p][r] = "none"
    BY DEF IInv, TypeOK, CallInv
  <2>2. TypeOK'
    BY DEF IInv, TypeOK
  <2>3. WorkerInv' /\ RanInv'
    BY DEF IInv, WorkerInv, RanInv, At, Fresh
  <2>4. CallInv'
    BY DEF IInv, TypeOK, CallInv, Open
  <2>5. HandlerInv'
    BY DEF IInv, TypeOK, HandlerInv
  <2>6. ConnInv'
    BY <2>1 DEF IInv, TypeOK, ConnInv
  <2> QED BY <2>2, <2>3, <2>4, <2>5, <2>6 DEF IInv
<1>2. CASE Refuse(r) /\ UNCHANGED <<processVars, nodeVars, origin, callVars, ran, peer, conn>>
  <2> USE <1>0, <1>2 DEF Refuse
  <2>1. TypeOK'
    BY DEF IInv, TypeOK
  <2>2. WorkerInv' /\ RanInv'
    BY DEF IInv, WorkerInv, RanInv, At, Fresh
  <2>3. CallInv'
    BY DEF IInv, TypeOK, CallInv, ConnInv, Open
  <2>4. HandlerInv'
    BY DEF IInv, TypeOK, HandlerInv
  <2>5. ConnInv'
    BY DEF IInv, TypeOK, ConnInv
  <2> QED BY <2>1, <2>2, <2>3, <2>4, <2>5 DEF IInv
<1> QED BY <1>1, <1>2 DEF ProxyRequest

\* The peer reads the request, once.
LEMMA ListenProxiesStep ==
  ASSUME IInv, NEW r \in Request, ListenProxies(r)
  PROVE  IInv'
<1> USE ReplyTypes, NilAssumption DEF Set, processVars, nodeVars, handlerVars, callVars
<1>0. /\ conn[r].kind = "sent" /\ peer[r] \in Site /\ peer[r] # origin[r]
      /\ call[peer[r]][r] = "none" /\ worker[peer[r]][r] = "none"
      /\ handler[r] \in {"peer", "done"} /\ reply[r].kind \notin {"none", "refused"}
  <2>1. conn[r].kind = "sent"
    BY DEF ListenProxies
  <2>2. peer[r] \in Site /\ peer[r] # origin[r] /\ call[peer[r]][r] = "none"
    BY <2>1 DEF IInv, TypeOK, ConnInv
  <2>3. worker[peer[r]][r] = "none"
    BY <2>2 DEF IInv, TypeOK, WorkerInv
  <2>4. handler[r] \in {"peer", "done"} /\ reply[r].kind \notin {"none", "refused"}
    BY <2>1 DEF IInv, TypeOK, HandlerInv
  <2> QED BY <2>1, <2>2, <2>3, <2>4
<1>1. CASE /\ conn' = [conn EXCEPT ![r] = NoReply("taken")]
           /\ call' = Set(call, peer[r], r, "start")
           /\ UNCHANGED <<processVars, nodeVars, handlerVars, worker, node, reply, ran>>
  <2> USE <1>0, <1>1
  <2>1. TypeOK'
    <3>1. call' \in [Site -> [Request -> {"none", "start", "select", "failed", "answered"}]]
      BY DEF IInv, TypeOK
    <3>2. conn' \in [Request -> Conns]
      BY DEF IInv, TypeOK
    <3> QED BY <3>1, <3>2 DEF IInv, TypeOK
  <2>2. WorkerInv'
    BY DEF IInv, TypeOK, WorkerInv, At
  <2>3. RanInv'
    BY DEF IInv, TypeOK, RanInv, Fresh, Place
  <2>4. CallInv'
    BY DEF IInv, TypeOK, CallInv, Open
  <2>5. HandlerInv'
    BY DEF IInv, TypeOK, HandlerInv
  <2>6. ConnInv'
    BY DEF IInv, TypeOK, CallInv, ConnInv
  <2> QED BY <2>1, <2>2, <2>3, <2>4, <2>5, <2>6 DEF IInv
<1>2. CASE /\ conn' = [conn EXCEPT ![r] = NoReply("dropped")]
           /\ UNCHANGED <<call, processVars, nodeVars, handlerVars, worker, node, reply, ran>>
  <2> USE <1>0, <1>2
  <2>1. TypeOK'
    BY DEF IInv, TypeOK
  <2>2. WorkerInv' /\ RanInv'
    BY DEF IInv, WorkerInv, RanInv, At, Fresh
  <2>3. CallInv'
    BY DEF IInv, TypeOK, CallInv, Open
  <2>4. HandlerInv'
    BY DEF IInv, TypeOK, HandlerInv
  <2>5. ConnInv'
    BY DEF IInv, TypeOK, ConnInv
  <2> QED BY <2>1, <2>2, <2>3, <2>4, <2>5 DEF IInv
<1> QED BY <1>1, <1>2 DEF ListenProxies

\* A connection that is reset carries no answer.
LEMMA CloseDroppedStep ==
  ASSUME IInv, NEW r \in Request, CloseDropped(r)
  PROVE  IInv'
<1> USE ReplyTypes, NilAssumption DEF CloseDropped, Set, processVars, nodeVars, handlerVars, callVars
<1>1. TypeOK'
  BY DEF IInv, TypeOK, WorkerInv
<1>2. WorkerInv'
  BY DEF IInv, TypeOK, WorkerInv, CallInv, At
<1>3. RanInv'
  BY DEF IInv, TypeOK, WorkerInv, RanInv, CallInv, Fresh, Place, At
<1>4. CallInv'
  BY DEF IInv, TypeOK, CallInv, HandlerInv, ConnInv, Open
<1>5. HandlerInv'
  BY DEF IInv, TypeOK, CallInv, HandlerInv, ConnInv, Open
<1>6. ConnInv'
  BY DEF IInv, TypeOK, WorkerInv, CallInv, HandlerInv, ConnInv, Open, At, Place
<1> QED BY <1>1, <1>2, <1>3, <1>4, <1>5, <1>6 DEF IInv

\* listenPort replies once, and only to a client that waits.
LEMMA ReadReplyStep ==
  ASSUME IInv, NEW r \in Request, ReadReply(r)
  PROVE  IInv'
<1> USE ReplyTypes, NilAssumption DEF ReadReply, Refuse, Set, processVars, nodeVars, handlerVars, callVars
<1>1. TypeOK'
  <2>1. handler' \in [Request -> {"none", "local", "proxy", "peer", "done"}]
    BY DEF IInv, TypeOK
  <2>2. conn[r] \in Conns
    BY DEF IInv, TypeOK
  <2>3. reply' \in [Request -> Replies]
    BY <2>2 DEF IInv, TypeOK
  <2> QED BY <2>1, <2>2, <2>3 DEF TypeOK, IInv
<1>2. WorkerInv'
  BY DEF IInv, TypeOK, WorkerInv, CallInv, At
<1>3. RanInv'
  BY DEF IInv, TypeOK, WorkerInv, RanInv, CallInv, Fresh, Place, At
<1>4. CallInv'
  <2>1. handler[r] = "peer" /\ reply[r].kind = "waiting"
    BY DEF IInv, HandlerInv
  <2>2. reply' = [reply EXCEPT ![r] = reply'[r]] /\ reply'[r].kind # "none"
    BY DEF IInv, TypeOK
  <2>3. handler' = [handler EXCEPT ![r] = "done"]
    OBVIOUS
  <2>4. UNCHANGED <<origin, peer, call, conn>>
    OBVIOUS
  <2>5. \A q \in Request \ {r} : reply'[q] = reply[q] /\ handler'[q] = handler[q]
    BY <2>2, <2>3 DEF IInv, TypeOK
  <2> SUFFICES ASSUME NEW s \in Site, NEW q \in Request, call[s][q] # "none"
               PROVE  /\ reply'[q].kind # "none"
                      /\ s = origin[q] \/ s = peer[q]
                      /\ Open(call[s][q]) =>
                           IF s = origin[q] THEN handler'[q] = "local" ELSE conn[q].kind = "taken"
                      /\ call[s][q] = "answered" =>
                           IF s = origin[q] THEN reply'[q].kind = "answer" ELSE conn[q].kind = "answer"
    BY <2>4 DEF CallInv, Open
  <2>6. CASE q = r
    BY <2>1, <2>2, <2>6 DEF IInv, CallInv, Open
  <2>7. CASE q # r
    BY <2>5, <2>7 DEF IInv, CallInv, Open
  <2> QED BY <2>6, <2>7
<1>5. HandlerInv'
  BY DEF IInv, TypeOK, CallInv, HandlerInv, ConnInv, Open
<1>6. ConnInv'
  BY DEF IInv, TypeOK, WorkerInv, CallInv, HandlerInv, ConnInv, Open, At, Place
<1> QED BY <1>1, <1>2, <1>3, <1>4, <1>5, <1>6 DEF IInv

\* The end of a process ends its calls and workers.
LEMMA ProcessEndsStep ==
  ASSUME IInv, NEW s \in Site, ProcessEnds(s)
  PROVE  IInv'
<1> USE ReplyTypes, NilAssumption DEF ProcessEnds, Set, processVars, nodeVars, handlerVars, callVars
<1>1. TypeOK'
  BY DEF IInv, TypeOK, WorkerInv
<1>2. WorkerInv'
  BY DEF IInv, TypeOK, WorkerInv, CallInv, At
<1>3. RanInv'
  BY DEF IInv, TypeOK, WorkerInv, RanInv, CallInv, Fresh, Place, At
<1>4. CallInv'
  BY DEF IInv, TypeOK, CallInv, HandlerInv, ConnInv, Open
<1>5. HandlerInv'
  BY DEF IInv, TypeOK, CallInv, HandlerInv, ConnInv, Open
<1>6. ConnInv'
  BY DEF IInv, TypeOK, WorkerInv, CallInv, HandlerInv, ConnInv, Open, At, Place
<1> QED BY <1>1, <1>2, <1>3, <1>4, <1>5, <1>6 DEF IInv

\* A process that starts again knows nothing of earlier requests.
LEMMA RestartStep ==
  ASSUME IInv, NEW s \in Site, Restart(s)
  PROVE  IInv'
<1> USE ReplyTypes, NilAssumption DEF Restart, Set, processVars, nodeVars, handlerVars, callVars
<1>1. TypeOK'
  BY DEF IInv, TypeOK, WorkerInv
<1>2. WorkerInv'
  BY DEF IInv, TypeOK, WorkerInv, CallInv, At
<1>3. RanInv'
  BY DEF IInv, TypeOK, WorkerInv, RanInv, CallInv, Fresh, Place, At
<1>4. CallInv'
  BY DEF IInv, TypeOK, CallInv, HandlerInv, ConnInv, Open
<1>5. HandlerInv'
  BY DEF IInv, TypeOK, CallInv, HandlerInv, ConnInv, Open
<1>6. ConnInv'
  BY DEF IInv, TypeOK, WorkerInv, CallInv, HandlerInv, ConnInv, Open, At, Place
<1> QED BY <1>1, <1>2, <1>3, <1>4, <1>5, <1>6 DEF IInv

\* Every action keeps the invariant.
LEMMA StepInv == IInv /\ [Next]_vars => IInv'
<1> SUFFICES ASSUME IInv, [Next]_vars PROVE IInv'
  OBVIOUS
<1>1. ASSUME NEW s \in Site, ProcessNext(s) PROVE IInv'
  <2>1. CASE LateAnswerPanics(s) \/ AnnouncePanics(s)
    BY <2>1, ProcessEndsStep DEF LateAnswerPanics, AnnouncePanics
  <2> QED BY <1>1, <2>1, AnnounceNodesStep, RestartStep DEF ProcessNext
<1>2. ASSUME NEW s \in Site, NEW r \in Request, CallNext(s, r) PROVE IInv'
  BY <1>2, ForwardToClusterStep, WriteRequestStep, NodeFailsStep, NodeAnswersStep,
     TakeFailureStep, TakeAnswerStep, TimeOutStep DEF CallNext
<1>3. ASSUME NEW r \in Request, HandlerNext(r) PROVE IInv'
  <2>1. ASSUME NEW s \in Front, ClientAsks(r, s) PROVE IInv'
    BY <2>1, FrontAssumption, ClientAsksStep
  <2> QED BY <1>3, <2>1, ProxyRequestStep, ListenProxiesStep, CloseDroppedStep, ReadReplyStep
          DEF HandlerNext
<1>4. CASE UNCHANGED vars
  BY <1>4 DEF vars, processVars, nodeVars, handlerVars, callVars, IInv, TypeOK, WorkerInv,
     RanInv, CallInv, HandlerInv, ConnInv, At, Fresh, Open
<1> QED BY <1>1, <1>2, <1>3, <1>4 DEF Next

LEMMA InvCorrect == Spec => []IInv
BY InitInv, StepInv, PTL DEF Spec

-----------------------------------------------------------------------------
\* Every variable keeps the shape the code gives it (listenPort, listenProxies).
THEOREM ProxyTypeCorrect == Spec => []TypeOK
<1>1. IInv => TypeOK
  BY DEF IInv
<1> QED BY <1>1, InvCorrect, PTL

\* A client is not refused once forwardToCluster has returned an answer that
\* fits in a packet, here or at the peer (proxyRequest).
THEOREM RefusedCorrect == Spec => []RefusedWithoutAnswer
<1>1. IInv => RefusedWithoutAnswer
  <2> SUFFICES ASSUME IInv, NEW r \in Request \ LargeAnswer, NEW s \in Site,
                      reply[r].kind = "refused"
               PROVE  call[s][r] # "answered"
    BY DEF RefusedWithoutAnswer
  <2> QED BY DEF IInv, CallInv, HandlerInv
<1> QED BY <1>1, InvCorrect, PTL

-----------------------------------------------------------------------------
(***************************************************************************)
(* Nobody waits in vain.  Every step that ends an attendance begins the    *)
(* next one, or ends the wait.                                             *)
(***************************************************************************)
NotStranded(r) == reply[r].kind = "waiting" => Attended(r)

\* A step that has to do with other requests only.
LEMMA OthersAttended ==
  ASSUME NEW r \in Request, NotStranded(r), alive' = alive,
         reply'[r] = reply[r], origin'[r] = origin[r], handler'[r] = handler[r],
         peer'[r] = peer[r], conn'[r] = conn[r],
         \A s \in Site : call'[s][r] = call[s][r], TypeOK, HandlerInv, ConnInv
  PROVE  NotStranded(r)'
<1>1. reply[r].kind = "waiting" => origin[r] \in Site
  BY NilAssumption DEF TypeOK, HandlerInv
<1>2. conn[r].kind = "taken" => peer[r] \in Site
  BY NilAssumption DEF TypeOK, ConnInv
<1> QED BY <1>1, <1>2 DEF NotStranded, Attended, InForward

\* The steps of forwardToCluster, at the client's process or at the peer.
LEMMA CallAttended ==
  ASSUME IInv, NEW s \in Site, NEW q \in Request, CallNext(s, q),
         NEW r \in Request, NotStranded(r)
  PROVE  NotStranded(r)'
<1> USE NilAssumption DEF Set, processVars, nodeVars, handlerVars, callVars
<1> USE DEF IInv
<1>1. CASE WriteRequest(s, q) \/ NodeFails(s, q) \/ NodeAnswers(s, q)
  BY <1>1 DEF WriteRequest, NodeFails, NodeAnswers, WorkerGoes, NotStranded, Attended, InForward
<1>2. ASSUME NEW n \in nodes[s], ForwardToCluster(s, q), call' = Set(call, s, q, "select"),
             UNCHANGED <<processVars, handlerVars, conn, reply>>
      PROVE  NotStranded(r)'
  BY <1>2 DEF ForwardToCluster, TypeOK, NotStranded, Attended, InForward
<1>3. ASSUME call[s][q] \in {"start", "select"}, alive[s], ForwardFails(s, q) PROVE NotStranded(r)'
  <2>1. CASE r # q
    BY <1>3, <2>1, OthersAttended DEF ForwardFails, TypeOK
  <2>2. CASE r = q /\ s = origin[q]
    BY <1>3, <2>2 DEF ForwardFails, TypeOK, CallInv, Open, NotStranded, Attended
  <2>3. CASE r = q /\ s # origin[q]
    <3>1. conn[q].kind = "taken"
      BY <1>3, <2>3 DEF CallInv, Open
    <3>2. conn'[q].kind = "failed" /\ UNCHANGED <<handler, alive, origin, reply>>
      BY <1>3, <2>3 DEF ForwardFails, TypeOK, NoReply
    <3> QED BY <2>3, <3>1, <3>2 DEF NotStranded, Attended, HandlerInv
  <2> QED BY <2>1, <2>2, <2>3
<1>4. CASE TakeAnswer(s, q)
  <2> USE DEF TakeAnswer, ForwardReturns
  <2>1. CASE r # q
    BY <1>4, <2>1, OthersAttended DEF TypeOK
  <2>2. CASE r = q /\ s = origin[q]
    BY <1>4, <2>2 DEF TypeOK, AnswerOf, NotStranded
  <2>3. CASE r = q /\ s # origin[q]
    <3>1. conn[q].kind = "taken"
      BY <1>4, <2>3 DEF CallInv, Open
    <3>2. conn'[q].kind = "answer" /\ UNCHANGED <<handler, alive, origin, reply>>
      BY <1>4, <2>3 DEF TypeOK, AnswerOf
    <3> QED BY <2>3, <3>1, <3>2 DEF NotStranded, Attended, HandlerInv
  <2> QED BY <2>1, <2>2, <2>3
<1>5. CASE ForwardToCluster(s, q) \/ TakeFailure(s, q) \/ TimeOut(s, q)
  BY <1>2, <1>3, <1>5 DEF ForwardToCluster, TakeFailure, TimeOut
<1> QED BY <1>1, <1>4, <1>5 DEF CallNext

\* The steps of listenPort, proxyRequest and listenProxies.
LEMMA HandlerAttended ==
  ASSUME IInv, NEW q \in Request, HandlerNext(q), NEW r \in Request, NotStranded(r)
  PROVE  NotStranded(r)'
<1> USE NilAssumption DEF Set, processVars, nodeVars, handlerVars, callVars
<1> USE DEF IInv
<1>1. ASSUME NEW s \in Front, ClientAsks(q, s) PROVE NotStranded(r)'
  <2>1. CASE r # q
    BY <1>1, <2>1, FrontAssumption, OthersAttended DEF ClientAsks, TypeOK
  <2>2. CASE r = q
    BY <1>1, <2>2, FrontAssumption DEF ClientAsks, TypeOK, NotStranded, Attended, InForward
  <2> QED BY <2>1, <2>2
<1>2. CASE ProxyRequest(q)
  <2>1. CASE r # q
    BY <1>2, <2>1, OthersAttended DEF ProxyRequest, Refuse, TypeOK
  <2>2. ASSUME r = q, NEW p \in Site, alive[p], peer' = [peer EXCEPT ![q] = p],
               conn' = [conn EXCEPT ![q] = NoReply("sent")],
               handler' = [handler EXCEPT ![q] = "peer"], alive[origin[q]],
               UNCHANGED <<alive, origin>>
        PROVE  NotStranded(r)'
    BY <2>2 DEF TypeOK, NoReply, NotStranded, Attended
  <2>3. CASE r = q /\ Refuse(q)
    BY <2>3 DEF Refuse, TypeOK, NoReply, NotStranded
  <2> QED BY <1>2, <2>1, <2>2, <2>3 DEF ProxyRequest
<1>3. CASE ListenProxies(q)
  <2>1. peer[q] \in Site
    BY <1>3 DEF ListenProxies, TypeOK, ConnInv
  <2>2. CASE r # q
    <3>1. \A s \in Site : call'[s][r] = call[s][r]
      <4>1. call' = call \/ call' = [call EXCEPT ![peer[q]][q] = "start"]
        BY <1>3 DEF ListenProxies
      <4>2. call \in [Site -> [Request -> {"none", "start", "select", "failed", "answered"}]]
        BY DEF TypeOK
      <4>3. ASSUME NEW s \in Site, call' = [call EXCEPT ![peer[q]][q] = "start"]
            PROVE  call'[s][r] = call[s][r]
        <5>1. CASE s = peer[q]
          BY <4>2, <4>3, <5>1, <2>2
        <5>2. CASE s # peer[q]
          BY <4>2, <4>3, <5>2, <2>1
        <5> QED BY <5>1, <5>2
      <4> QED BY <4>1, <4>3
    <3>2. conn'[r] = conn[r] /\ UNCHANGED <<alive, reply, origin, handler, peer>>
      BY <1>3, <2>2 DEF ListenProxies, TypeOK
    <3> QED BY <3>1, <3>2, OthersAttended
  <2>3. CASE r = q
    <3>1. handler[q] \notin {"local", "proxy"}
      BY <1>3 DEF ListenProxies, HandlerInv
    <3>2. \/ conn'[q].kind = "taken" /\ call'[peer[q]][q] = "start"
          \/ conn'[q].kind = "dropped" /\ q \in LargeRequest
      BY <1>3, <2>1 DEF ListenProxies, TypeOK, NoReply
    <3> QED BY <1>3, <2>3, <3>1, <3>2 DEF ListenProxies, NotStranded, Attended, InForward
  <2> QED BY <2>2, <2>3
<1>4. CASE CloseDropped(q)
  <2>1. CASE r # q
    BY <1>4, <2>1, OthersAttended DEF CloseDropped, TypeOK
  <2>2. CASE r = q
    <3>1. handler[q] \notin {"local", "proxy"}
      BY <1>4 DEF CloseDropped, HandlerInv
    <3>2. conn'[q].kind = "reset"
      BY <1>4 DEF CloseDropped, TypeOK, NoReply
    <3> QED BY <1>4, <2>2, <3>1, <3>2 DEF CloseDropped, NotStranded, Attended
  <2> QED BY <2>1, <2>2
<1>5. CASE ReadReply(q)
  <2>1. CASE r # q
    BY <1>5, <2>1, OthersAttended DEF ReadReply, Refuse, TypeOK
  <2>2. CASE r = q
    BY <1>5, <2>2 DEF ReadReply, Refuse, TypeOK, NoReply, NotStranded
  <2> QED BY <2>1, <2>2
<1> QED BY <1>1, <1>2, <1>3, <1>4, <1>5 DEF HandlerNext

\* What a process does as a whole: its end closes the connections of its own
\* clients and of the proxies that wait for it.
LEMMA ProcessAttended ==
  ASSUME IInv, NEW s \in Site, ProcessNext(s), NEW r \in Request, NotStranded(r)
  PROVE  NotStranded(r)'
<1> USE NilAssumption DEF Set, processVars, nodeVars, handlerVars, callVars
<1> USE DEF IInv, NotStranded, Attended, InForward
<1>1. CASE AnnounceNodes(s)
  BY <1>1 DEF AnnounceNodes
<1>2. CASE ProcessEnds(s)
  <2>1. CASE origin[r] = s
    BY <1>2, <2>1 DEF ProcessEnds, NoReply
  <2>2. CASE origin[r] # s /\ peer[r] = s
    BY <1>2, <2>2 DEF ProcessEnds, NoReply, TypeOK, HandlerInv
  <2>3. CASE origin[r] # s /\ peer[r] # s
    BY <1>2, <2>3 DEF ProcessEnds, TypeOK, HandlerInv, ConnInv
  <2> QED BY <2>1, <2>2, <2>3
<1>3. CASE Restart(s)
  BY <1>3 DEF Restart, TypeOK
<1> QED BY <1>1, <1>2, <1>3 DEF ProcessNext, LateAnswerPanics, AnnouncePanics

\* A client that waits has a goroutine with a timer, a request under way to a
\* process that runs, or a reply on its way to wait for, however nodes, peers and
\* processes fail (listenPort, forwardToCluster, proxyRequest, listenProxies).
THEOREM AttendedCorrect == Spec => []ClientsAttended
<1>1. Init => ClientsAttended
  BY DEF Init, ClientsAttended, NoReply
<1>2. IInv /\ ClientsAttended /\ [Next]_vars => ClientsAttended'
  <2> SUFFICES ASSUME IInv, ClientsAttended, [Next]_vars, NEW r \in Request
               PROVE  NotStranded(r)'
    BY DEF ClientsAttended, NotStranded
  <2>1. NotStranded(r)
    BY DEF ClientsAttended, NotStranded
  <2>2. CASE UNCHANGED vars
    BY <2>1, <2>2 DEF vars, processVars, nodeVars, handlerVars, callVars, NotStranded, Attended,
                      InForward
  <2> QED BY <2>1, <2>2, CallAttended, HandlerAttended, ProcessAttended DEF Next
<1> QED BY <1>1, <1>2, InvCorrect, PTL DEF Spec

-----------------------------------------------------------------------------
(***************************************************************************)
(* The refinement of Failover.                                             *)
(***************************************************************************)
\* The write of a worker is the first run of the request at its cluster, and
\* at most one other cluster has run it.
LEMMA WriteRequestRuns ==
  ASSUME IInv, NEW s \in Site, NEW r \in Request, WriteRequest(s, r)
  PROVE  At(r, s) \in Place /\ Abstract!Run(At(r, s))
<1>1. /\ worker[s][r] = "dialing"
      /\ ran' = [ran EXCEPT ![At(r, s)] = @ + 1]
      /\ UNCHANGED reply
  BY DEF WriteRequest, WorkerGoes
<1>2. /\ At(r, s) \in Place
      /\ At(r, s).req = r /\ At(r, s).site = s
  BY <1>1, PlaceType DEF IInv, WorkerInv
<1>3. reply[r].kind # "none" /\ s \in {origin[r], peer[r]}
  BY <1>1 DEF IInv, WorkerInv, CallInv
<1>4. ASSUME NEW q \in Abstract!Runs(r)
      PROVE  /\ q \in Place /\ q.req = r /\ q.site # s
             /\ q.site \in {origin[r], peer[r]}
             /\ q.node = node[q.site][r]
  <2>1. q \in Place /\ q.req = r /\ ran[q] > 0
    BY DEF Abstract!Runs, Abstract!Place, Place
  <2>2. q.site \in Site
    BY <2>1 DEF Place
  <2>3. /\ ~Fresh(call[q.site][r]) /\ worker[q.site][r] # "dialing"
        /\ node[q.site][r] = q.node
    BY <2>1 DEF IInv, RanInv
  <2>4. q.site \in {origin[r], peer[r]}
    BY <2>2, <2>3 DEF IInv, CallInv, Fresh
  <2> QED BY <1>1, <2>1, <2>3, <2>4
<1>5. ASSUME NEW q \in Abstract!Runs(r), NEW o \in Abstract!Runs(r)
      PROVE  q = o
  <2>1. q.req = o.req /\ q.site = o.site /\ q.node = o.node
    BY <1>3, <1>4
  <2>2. q \in Place /\ o \in Place
    BY <1>4
  <2> QED BY <2>1, <2>2 DEF Place
<1> QED BY <1>1, <1>2, <1>3, <1>4, <1>5 DEF Abstract!Run

\* An answer taken from a worker is one of a node the request ran on.
LEMMA TakeAnswerAnswers ==
  ASSUME IInv, NEW s \in Site, NEW r \in Request, TakeAnswer(s, r)
  PROVE  \/ UNCHANGED <<reply, ran>>
         \/ At(r, s) \in Place /\ Abstract!Answer(At(r, s))
<1>1. /\ worker[s][r] = "ready" /\ call[s][r] = "select"
      /\ UNCHANGED ran
  BY DEF TakeAnswer, ForwardReturns
<1>2. At(r, s) \in Place /\ At(r, s).req = r /\ ran[At(r, s)] > 0
  BY <1>1, PlaceType DEF IInv, WorkerInv
<1>3. CASE s = origin[r]
  <2>1. reply[r].kind = "waiting"
    BY <1>1, <1>3 DEF IInv, CallInv, HandlerInv, Open
  <2>2. reply' = [reply EXCEPT ![r] = AnswerOf(At(r, s))]
    BY <1>3 DEF TakeAnswer, ForwardReturns
  <2> QED BY <1>1, <1>2, <2>1, <2>2 DEF AnswerOf, Abstract!Answer, Abstract!GetReply
<1>4. CASE s # origin[r]
  BY <1>1, <1>4 DEF TakeAnswer, ForwardReturns
<1> QED BY <1>3, <1>4

\* What the peer sends back is a refusal or such an answer.
LEMMA ReadReplyReplies ==
  ASSUME IInv, NEW r \in Request, ReadReply(r)
  PROVE  Abstract!Refuse(r) \/ \E p \in Place : Abstract!Answer(p)
<1>1. reply[r].kind = "waiting" /\ UNCHANGED ran
  BY DEF ReadReply, IInv, HandlerInv
<1>2. CASE Refuse(r)
  BY <1>1, <1>2 DEF Refuse, NoReply, Abstract!Refuse, Abstract!GetReply, Abstract!NoReply
<1>3. CASE conn[r].kind = "answer" /\ reply' = [reply EXCEPT ![r] = conn[r]]
  <2>1. /\ conn[r].by \in Place /\ conn[r] = AnswerOf(conn[r].by)
        /\ conn[r].by.req = r /\ ran[conn[r].by] > 0
    BY <1>3, ReplyTypes DEF IInv, TypeOK, ConnInv
  <2>2. Abstract!Answer(conn[r].by)
    BY <1>1, <1>3, <2>1 DEF AnswerOf, Abstract!Answer, Abstract!GetReply
  <2> QED BY <2>1, <2>2
<1> QED BY <1>2, <1>3 DEF ReadReply

\* The end of a process closes the connections of its waiting clients.
LEMMA ProcessEndsCloses ==
  ASSUME IInv, NEW s \in Site, ProcessEnds(s)
  PROVE  \E R \in SUBSET Request : Abstract!Close(R)
<1> DEFINE R == {r \in Request : origin[r] = s /\ reply[r].kind = "waiting"}
<1>1. \A r \in R : reply[r].kind = "waiting"
  OBVIOUS
<1>2. reply' = [r \in Request |-> IF r \in R THEN NoReply("closed") ELSE reply[r]]
  BY DEF ProcessEnds
<1>3. UNCHANGED ran
  BY DEF ProcessEnds
<1>4. Abstract!Close(R)
  BY <1>1, <1>2, <1>3 DEF NoReply, Abstract!Close, Abstract!NoReply
<1> QED BY <1>4

\* Every step is a step of Failover or leaves its variables alone.
LEMMA StepRefines == IInv /\ [Next]_vars => [Abstract!Next]_(Abstract!vars)
<1> SUFFICES ASSUME IInv, [Next]_vars, ~UNCHANGED <<reply, ran>>
             PROVE  Abstract!Next
  BY DEF Abstract!vars
<1>1. ASSUME NEW s \in Site, ProcessNext(s) PROVE Abstract!Next
  <2>1. CASE LateAnswerPanics(s) \/ AnnouncePanics(s)
    BY <2>1, ProcessEndsCloses DEF LateAnswerPanics, AnnouncePanics, Abstract!Next
  <2>2. CASE AnnounceNodes(s) \/ Restart(s)
    BY <2>2 DEF AnnounceNodes, Restart
  <2> QED BY <1>1, <2>1, <2>2 DEF ProcessNext
<1>2. ASSUME NEW s \in Site, NEW r \in Request, CallNext(s, r) PROVE Abstract!Next
  <2>1. CASE WriteRequest(s, r)
    BY <2>1, WriteRequestRuns DEF Abstract!Next, Abstract!Place, Place
  <2>2. CASE TakeAnswer(s, r)
    BY <2>2, TakeAnswerAnswers DEF Abstract!Next, Abstract!Place, Place
  <2>3. CASE ForwardToCluster(s, r) \/ TakeFailure(s, r) \/ TimeOut(s, r)
    BY <2>3 DEF ForwardToCluster, TakeFailure, TimeOut, ForwardFails
  <2>4. CASE NodeFails(s, r) \/ NodeAnswers(s, r)
    BY <2>4 DEF NodeFails, NodeAnswers, WorkerGoes
  <2> QED BY <1>2, <2>1, <2>2, <2>3, <2>4 DEF CallNext
<1>3. ASSUME NEW r \in Request, HandlerNext(r) PROVE Abstract!Next
  <2>1. ASSUME NEW s \in Front, ClientAsks(r, s) PROVE Abstract!Next
    BY <2>1 DEF ClientAsks, NoReply, Abstract!Next, Abstract!Ask, Abstract!GetReply, Abstract!NoReply
  <2>2. CASE ProxyRequest(r)
    <3>1. reply[r].kind = "waiting" /\ UNCHANGED ran /\ Refuse(r)
      BY <2>2 DEF ProxyRequest, IInv, HandlerInv
    <3> QED BY <3>1 DEF Refuse, NoReply, Abstract!Next, Abstract!Refuse, Abstract!GetReply, Abstract!NoReply
  <2>3. CASE ListenProxies(r) \/ CloseDropped(r)
    BY <2>3 DEF ListenProxies, CloseDropped
  <2>4. CASE ReadReply(r)
    BY <2>4, ReadReplyReplies DEF Abstract!Next, Abstract!Place, Place
  <2> QED BY <1>3, <2>1, <2>2, <2>3, <2>4 DEF HandlerNext
<1> QED BY <1>1, <1>2, <1>3 DEF Next, vars

\* The proxies keep the promises of Failover: a request runs in at most two
\* clusters, once in each, and its client gets one reply, a refusal or the
\* answer of a node it ran on (forwardToCluster, listenPort, listenProxies).
THEOREM FailoverImplemented == Spec => ImplementsFailover
<1>1. Init => Abstract!Init
  BY DEF Init, NoReply, Place, Abstract!Init, Abstract!NoReply, Abstract!Place
<1> QED BY <1>1, StepRefines, InvCorrect, PTL DEF Spec, ImplementsFailover, Abstract!Spec

=============================================================================
