------------------------------ MODULE Failover ------------------------------
(***************************************************************************)
(* What the proxies promise about a client's request.  It runs in at most  *)
(* two clusters, on one node of each; its client gets at most one reply,   *)
(* and an answer comes from a node the request ran on.                     *)
(***************************************************************************)
EXTENDS Naturals

CONSTANTS
  Request,  \* the requests clients send
  Site,     \* the clusters
  KNode,    \* the nodes of a cluster
  Nil       \* no node

VARIABLES
  reply,  \* what the client of each request has got
  ran     \* how often each request has run at each place

vars == <<reply, ran>>

Place == [req : Request, site : Site, node : KNode]

NoReply(kind) == [kind |-> kind, by |-> Nil]

Init ==
  /\ reply = [r \in Request |-> NoReply("none")]
  /\ ran = [p \in Place |-> 0]

GetReply(r, from, to) ==
  /\ reply[r].kind = from
  /\ reply' = [reply EXCEPT ![r] = to]
  /\ UNCHANGED ran

Ask(r) == GetReply(r, "none", NoReply("waiting"))

Runs(r) == {p \in Place : p.req = r /\ ran[p] > 0}

\* A second cluster may run the request too, no cluster runs it twice.
Run(p) ==
  /\ reply[p.req].kind # "none"
  /\ \A q \in Runs(p.req) : q.site # p.site
  /\ \A q, o \in Runs(p.req) : q = o
  /\ ran' = [ran EXCEPT ![p] = @ + 1]
  /\ UNCHANGED reply

Answer(p) ==
  /\ ran[p] > 0
  /\ GetReply(p.req, "waiting", [kind |-> "answer", by |-> p])

Refuse(r) == GetReply(r, "waiting", NoReply("refused"))

\* The process the clients of these requests are connected to has ended.
Close(R) ==
  /\ \A r \in R : reply[r].kind = "waiting"
  /\ reply' = [r \in Request |-> IF r \in R THEN NoReply("closed") ELSE reply[r]]
  /\ UNCHANGED ran

Next ==
  \/ \E r \in Request : Ask(r) \/ Refuse(r)
  \/ \E p \in Place : Run(p) \/ Answer(p)
  \/ \E R \in SUBSET Request : Close(R)

Spec == Init /\ [][Next]_vars
=============================================================================
