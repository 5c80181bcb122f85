------------------------------- MODULE Raft -------------------------------
(***************************************************************************)
(* The replication layer of raft/raft.go, raft/routing.go, raft/rpc.go and *)
(* network/network.go: leader election, the quorum round that commits an   *)
(* object, the write a member forwards to its leader, and the loop that    *)
(* fetches missing log entries.                                            *)
(*                                                                         *)
(* Every node runs startRAFT in one goroutine and one goroutine for every  *)
(* incoming RPC and every command of its CLI.  A goroutine is split where  *)
(* it blocks (a channel, a peer's answer, a timer) and between the test of *)
(* the term and the update it guards, since no lock is held across them.   *)
(* Time is not modelled: a timer may fire whenever the code waits for it.  *)
(* A request that is never delivered is a lost request.                    *)
(***************************************************************************)
EXTENDS Naturals, Sequences, FiniteSets

CONSTANTS
  Node,          \* the POC processes; each is started with all others as peers
  Cmd,           \* commands typed at a CLI, one member per command typed
  Nil,           \* the zero kube.KubeCmd, and "no address"
  FetchId,       \* names of the fetch loops that may run at one node
  MaxElections,  \* bound: elections, of all nodes together
  MaxCalls,      \* bound: calls of commitObject, at all nodes together
  MaxLog,        \* bound: entries of a log
  MaxRestarts,   \* bound: restarts, of all nodes together
  MaxEvents      \* bound: elections, commands typed and restarts together

ASSUME NodeAssumption == IsFiniteSet(Node) /\ Cardinality(Node) >= 2
ASSUME NilAssumption == Nil \notin Node /\ Nil \notin Cmd
ASSUME FetchIdAssumption == FetchId \subseteq Nat

VARIABLES
  role,       \* RAFT.role
  term,       \* RAFT.term
  commitLog,  \* RAFT.commitLog
  leaders,    \* the addresses whose entry of PeerRouting (self included) has role LEADER
  loop,       \* where startRAFT is: watching, about to campaign, awaiting votes, leading
  nextTerm,   \* startRAFT's local newTerm
  elections,  \* elections so far; names the connections of an election
  election,   \* the last election the node started
  votes,      \* peers whose packet the aggregator of the current election has read
  handlers,   \* handleRpc goroutines that have tested the term, or wait on newLeaderCh
  fetchers,   \* handleRpc goroutines in the loop that fetches missing entries
  net,        \* requests on their way
  replies,    \* answers on their way
  commits,    \* commitObject goroutines that wait for peers or for the leader
  calls,      \* calls of commitObject that wait, so far; names the connections of a call
  cli,        \* the fate of each command typed
  restarts,   \* restarts so far
  grants,     \* history: votes granted
  accepts,    \* history: objects a node answered Confirmed for
  added       \* history: objects commitObject added to a log

nodeVars    == <<role, term, commitLog, leaders>>
loopVars    == <<loop, nextTerm, elections, election, votes>>
rpcVars     == <<handlers, fetchers, net, replies>>
commitVars  == <<commits, calls, cli>>
historyVars == <<grants, accepts, added>>
vars == <<nodeVars, loopVars, rpcVars, commitVars, restarts, historyVars>>

-----------------------------------------------------------------------------
(***************************************************************************)
(* The peer table and the log.                                             *)
(***************************************************************************)
Peers(n) == Node \ {n}

\* Fault: the node's own vote is left out of the division.
QuorumOffByOne(n) == Cardinality(Peers(n)) \div 2

\* LockRoutingTableEntries: answers needed besides the node's own.
Quorum(n) == (Cardinality(Peers(n)) + 1) \div 2

LengthLog(n) == Len(commitLog[n])

\* What the environment has begun so far, and bounds limit.
Events == elections + restarts + Cardinality({c \in Cmd : cli[c] # "idle"})

\* Fault: the last entry is served, whichever was asked for.
GetLastLogItem(n, index) == IF index = 0 THEN Nil ELSE commitLog[n][LengthLog(n)]

\* getLogItem: entries are numbered from 1, and 0 is answered with no object.
GetLogItem(n, index) == IF index = 0 THEN Nil ELSE commitLog[n][index]

\* GetLeaderAddr returns any of these: its own entry first, else the first
\* leader met while ranging over a map; none means the address "".
LeaderAddrs(n) == IF n \in leaders[n] THEN {n} ELSE leaders[n]

\* MakeLeader marks one more entry; no other entry is demoted.
MakeLeader(n, addr) == leaders' = [leaders EXCEPT ![n] = @ \cup {addr}]

\* WipeLeader demotes every entry.
WipeLeader(n) == leaders' = [leaders EXCEPT ![n] = {}]

\* GetTimeRemaining found the lease of p run out and demoted it.
ExpireLeader(n, p) == leaders' = [leaders EXCEPT ![n] = @ \ {p}]

ChangeRole(n, newRole) == role' = [role EXCEPT ![n] = newRole]
UpdateTerm(n, newTerm) == term' = [term EXCEPT ![n] = newTerm]

\* Fault: the branch for the first entry is taken for every entry.
AddFirstCommit(n, obj) ==
  /\ LengthLog(n) < MaxLog
  /\ commitLog' = [commitLog EXCEPT ![n] = <<obj>>]

\* Fault: a retry appends the object a second time.
AddCommitTwice(n, obj) ==
  /\ LengthLog(n) < MaxLog
  /\ commitLog' = [commitLog EXCEPT ![n] = @ \o <<obj, obj>>]

AddCommit(n, obj) ==
  /\ LengthLog(n) < MaxLog
  /\ commitLog' = [commitLog EXCEPT ![n] = Append(@, obj)]

-----------------------------------------------------------------------------
(***************************************************************************)
(* The packets of rpc.go.  "conn" is the TCP connection a request came on, *)
(* named by the election, the call of commitObject or the fetch loop that  *)
(* opened it; its reply goes back on it.                                   *)
(***************************************************************************)
RequestVoteMsg(n, p) ==
  [type |-> "RequestVote", from |-> n, to |-> p, conn |-> elections + 1,
   term |-> nextTerm[n], logIndex |-> LengthLog(n)]

AppendEntryMsg(n, p, leaderAddr, conn, obj) ==
  [type |-> "AppendEntry", from |-> n, to |-> p, conn |-> conn, term |-> term[n],
   logIndex |-> LengthLog(n), leaderAddr |-> leaderAddr, obj |-> obj]

FetchMsg(n, p, conn, t, index) ==
  [type |-> "FetchMissingEntries", from |-> n, to |-> p, conn |-> conn,
   term |-> t, logIndex |-> index]

VoteReply(m) ==
  [type |-> "RequestVote", from |-> m.to, to |-> m.from, conn |-> m.conn]

AppendEntryResponse(from, to, conn, confirmed) ==
  [type |-> "AppendEntry", from |-> from, to |-> to, conn |-> conn, confirmed |-> confirmed]

FetchReply(m, obj) ==
  [type |-> "FetchMissingEntries", from |-> m.to, to |-> m.from, conn |-> m.conn,
   logIndex |-> m.logIndex, obj |-> obj]

\* sendReplyLeaderVote, and its trace in the history.
SendReplyLeaderVote(m) ==
  /\ replies' = replies \cup {VoteReply(m)}
  /\ grants' = grants \cup {[voter |-> m.to, candidate |-> m.from, election |-> m.conn,
                             term |-> m.term, length |-> LengthLog(m.to)]}

\* sendReplyObjectCommited(true) by node "from", and its trace in the history.
Confirmation(from, to, conn, obj) ==
  [reply |-> AppendEntryResponse(from, to, conn, TRUE),
   trace |-> [by |-> from, for |-> to, conn |-> conn, cmd |-> obj]]

\* What a handler confirms about the request m: nothing if m is a heartbeat,
\* whose sender does not read the connection.
Confirmations(m) ==
  IF m.obj = Nil THEN {} ELSE {Confirmation(m.to, m.from, m.conn, m.obj)}
SendReplyObjectCommited(S, pending) ==
  /\ replies' = pending \cup {c.reply : c \in S}
  /\ accepts' = accepts \cup {c.trace : c \in S}

-----------------------------------------------------------------------------
Init ==
  /\ role = [n \in Node |-> "MEMBER"]
  /\ term = [n \in Node |-> 0]
  /\ commitLog = [n \in Node |-> <<>>]
  /\ leaders = [n \in Node |-> {}]
  /\ loop = [n \in Node |-> "watch"]
  /\ nextTerm = [n \in Node |-> 0]
  /\ elections = 0
  /\ election = [n \in Node |-> 0]
  /\ votes = [n \in Node |-> {}]
  /\ handlers = {} /\ fetchers = {} /\ net = {} /\ replies = {}
  /\ commits = {}
  /\ calls = 0
  /\ cli = [c \in Cmd |-> "idle"]
  /\ restarts = 0
  /\ grants = {} /\ accepts = {} /\ added = {}

-----------------------------------------------------------------------------
(***************************************************************************)
(* The loop of startRAFT.  The channel newTerm is never made by InitRaft:  *)
(* a receive on it never happens and a send on it never returns, so the    *)
(* select cases on newTerm are dead and a handler that sends on it is over.*)
(***************************************************************************)

\* The switch of startRAFT on the role it reads.  A candidate reads the term
\* here and writes term + 1 back in RequestLeaderVotes.
Switch(n, r) ==
  /\ loop' = [loop EXCEPT ![n] = CASE r = "LEADER"    -> "lead"
                                   [] r = "CANDIDATE" -> "campaign"
                                   [] r = "MEMBER"    -> "watch"]
  /\ nextTerm' = IF r = "CANDIDATE" THEN [nextTerm EXCEPT ![n] = term[n] + 1] ELSE nextTerm

\* watchLeader and awaitLeaderTTL return: no peer is marked as leader, or the
\* lease of one that is has run out.  The node becomes a candidate.
WatchLeader(n) ==
  /\ loop[n] = "watch"
  /\ \/ leaders[n] \cap Peers(n) = {} /\ UNCHANGED leaders
     \/ \E p \in leaders[n] \cap Peers(n) : ExpireLeader(n, p)
  /\ ChangeRole(n, "CANDIDATE")
  /\ Switch(n, "CANDIDATE")
  /\ UNCHANGED <<term, commitLog, elections, election, votes, rpcVars, commitVars, restarts, historyVars>>

\* The CANDIDATE case up to its select: a term, and a request to every peer.
RequestLeaderVotes(n) ==
  /\ loop[n] = "campaign"
  /\ elections < MaxElections /\ Events < MaxEvents
  /\ UpdateTerm(n, nextTerm[n])
  /\ net' = net \cup {RequestVoteMsg(n, p) : p \in Peers(n)}
  /\ elections' = elections + 1
  /\ election' = [election EXCEPT ![n] = elections + 1]
  /\ votes' = [votes EXCEPT ![n] = {}]
  /\ loop' = [loop EXCEPT ![n] = "elect"]
  /\ UNCHANGED <<role, commitLog, leaders, nextTerm, handlers, fetchers, replies,
                 commitVars, restarts, historyVars>>

\* Fault: the elections share one channel, so a late vote counts in the next.
ReceiveLateVote(r) ==
  /\ r \in replies /\ r.type = "RequestVote"
  /\ loop[r.to] = "elect"
  /\ votes' = [votes EXCEPT ![r.to] = @ \cup {r.from}]
  /\ replies' = replies \ {r}
  /\ UNCHANGED <<nodeVars, loop, nextTerm, elections, election, handlers, fetchers, net,
                 commitVars, restarts, historyVars>>

\* The aggregator counts every packet it gets; it stops at a quorum.
ReceiveVote(r) ==
  /\ r \in replies /\ r.type = "RequestVote"
  /\ loop[r.to] = "elect" /\ r.conn = election[r.to]
  /\ Cardinality(votes[r.to]) < Quorum(r.to)
  /\ votes' = [votes EXCEPT ![r.to] = @ \cup {r.from}]
  /\ replies' = replies \ {r}
  /\ UNCHANGED <<nodeVars, loop, nextTerm, elections, election, handlers, fetchers, net,
                 commitVars, restarts, historyVars>>

\* electionResult is true: leader, whatever the role and the term are by now.
WinElection(n) ==
  /\ loop[n] = "elect"
  /\ Cardinality(votes[n]) >= Quorum(n)
  /\ ChangeRole(n, "LEADER")
  /\ Switch(n, "LEADER")
  /\ UNCHANGED <<term, commitLog, leaders, elections, election, votes, rpcVars, commitVars,
                 restarts, historyVars>>

\* The election timer fired before a quorum answered.
LoseElection(n) ==
  /\ loop[n] = "elect"
  /\ Cardinality(votes[n]) < Quorum(n)
  /\ Switch(n, role[n])
  /\ UNCHANGED <<nodeVars, elections, election, votes, rpcVars, commitVars, restarts, historyVars>>

\* A handler, of this election or an earlier one, hands over on newLeaderCh:
\* the candidate becomes a member, and the handler of a vote request answers.
NewLeader(n, h) ==
  /\ loop[n] = "elect"
  /\ h \in handlers /\ h.at = "newLeaderCh" /\ h.msg.to = n
  /\ ChangeRole(n, "MEMBER")
  /\ Switch(n, "MEMBER")
  /\ handlers' = handlers \ {h}
  /\ IF h.msg.type = "RequestVote"
     THEN SendReplyLeaderVote(h.msg)
     ELSE UNCHANGED <<replies, grants>>
  /\ UNCHANGED <<term, commitLog, leaders, elections, election, votes, fetchers, net, commitVars,
                 restarts, accepts, added>>

\* startLeader on its tick: a heartbeat to every peer.  An earlier heartbeat
\* that has not arrived by now is lost.
SendLogUpdates(n) ==
  /\ loop[n] = "lead" /\ role[n] = "LEADER"
  /\ net' = {m \in net : ~(m.type = "AppendEntry" /\ m.from = n /\ m.obj = Nil)}
              \cup {AppendEntryMsg(n, p, n, 0, Nil) : p \in Peers(n)}
  /\ UNCHANGED <<nodeVars, loopVars, handlers, fetchers, replies, commitVars, restarts,
                 historyVars>>

\* startLeader on its tick, after a handler has changed the role.
LeaveLead(n) ==
  /\ loop[n] = "lead" /\ role[n] # "LEADER"
  /\ Switch(n, role[n])
  /\ UNCHANGED <<nodeVars, elections, election, votes, rpcVars, commitVars, restarts, historyVars>>

-----------------------------------------------------------------------------
(***************************************************************************)
(* handleRpc.  A caller that is not in the peer table (the node itself, if *)
(* it dialled its own address) is ignored.  A handler that is going to     *)
(* write the term has tested it in an earlier step.                        *)
(***************************************************************************)
Incoming(m, type) == m \in net /\ m.type = type /\ m.from \in Peers(m.to)

\* Fault: only a request to commit, not a heartbeat, is compared with the log.
BehindOnCommit(m) == m.obj # Nil /\ m.logIndex > LengthLog(m.to)

\* The sender of m has entries its receiver lacks.
Behind(m) == m.logIndex > LengthLog(m.to)

\* The branches of handleRpc that an AppendEntry takes.
ToCandidate(m) ==
  m.term >= term[m.to] /\ Behind(m) /\ role[m.to] = "CANDIDATE"
ToOlderTerm(m) == ~ToCandidate(m) /\ m.term > term[m.to]
ToCurrent(m)   == ~ToCandidate(m) /\ m.term <= term[m.to]
\* ... and, of the last one, the branch of a leader asked to commit an object.
ToLeader(m) == role[m.to] = "LEADER" /\ m.obj # Nil

\* A handler finds a term that it will have to take over.
TestTerm(m) ==
  /\ \/ Incoming(m, "RequestVote") /\ m.term > term[m.to]
     \/ Incoming(m, "AppendEntry") /\ (ToCandidate(m) \/ ToOlderTerm(m))
  /\ net' = net \ {m}
  /\ handlers' = handlers \cup
       {[msg |-> m, at |-> IF m.type = "AppendEntry" /\ ToCandidate(m)
                           THEN "candidate" ELSE "newer"]}
  /\ UNCHANGED <<nodeVars, loopVars, fetchers, replies, commitVars, restarts, historyVars>>

\* A vote request of a newer term: the node follows it, and grants the vote
\* unless its own log is longer.  Then it blocks on newTerm for ever.
HandleNewerVote(h) ==
  LET m == h.msg IN
  /\ h \in handlers /\ h.at = "newer" /\ m.type = "RequestVote"
  /\ handlers' = handlers \ {h}
  /\ UpdateTerm(m.to, m.term)
  /\ ChangeRole(m.to, "MEMBER")
  /\ \/ /\ m.logIndex < LengthLog(m.to)
        /\ WipeLeader(m.to)
        /\ UNCHANGED <<replies, grants>>
     \/ /\ m.logIndex >= LengthLog(m.to)
        /\ MakeLeader(m.to, m.from)
        /\ SendReplyLeaderVote(m)
  /\ UNCHANGED <<commitLog, loopVars, fetchers, net, commitVars, restarts, accepts, added>>

\* A vote request of the same term is granted to a candidate with a longer
\* log; a node that is itself a candidate first ends its own election.
HandleSameTermVote(m) ==
  /\ Incoming(m, "RequestVote") /\ m.term = term[m.to]
  /\ m.logIndex > LengthLog(m.to)
  /\ MakeLeader(m.to, m.from)
  /\ \/ /\ role[m.to] = "CANDIDATE"
        /\ handlers' = handlers \cup {[msg |-> m, at |-> "newLeaderCh"]}
        /\ UNCHANGED <<replies, grants>>
     \/ /\ role[m.to] # "CANDIDATE"
        /\ SendReplyLeaderVote(m)
        /\ UNCHANGED handlers
  /\ net' = net \ {m}
  /\ UNCHANGED <<role, term, commitLog, loopVars, fetchers, commitVars, restarts,
                 accepts, added>>

\* An entry from a leader with a longer log reaches a candidate.
HandleCandidateAppend(h) ==
  LET m == h.msg IN
  /\ h \in handlers /\ h.at = "candidate"
  /\ UpdateTerm(m.to, m.term)
  /\ MakeLeader(m.to, m.leaderAddr)
  /\ handlers' = (handlers \ {h}) \cup {[h EXCEPT !.at = "newLeaderCh"]}
  /\ UNCHANGED <<role, commitLog, loopVars, fetchers, net, replies, commitVars, restarts,
                 historyVars>>

\* An entry of a newer term only raises the term; then the handler blocks on
\* newTerm for ever and the entry is not looked at.
HandleNewerAppend(h) ==
  /\ h \in handlers /\ h.at = "newer" /\ h.msg.type = "AppendEntry"
  /\ UpdateTerm(h.msg.to, h.msg.term)
  /\ handlers' = handlers \ {h}
  /\ UNCHANGED <<role, commitLog, leaders, loopVars, fetchers, net, replies, commitVars,
                 restarts, historyVars>>

\* An entry of the current or an older term reaches a leader, which takes it
\* for a member's write: it denies a log of another length, or starts a quorum
\* round whose success it will report to the sender.
DenyWrite(m) ==
  /\ Incoming(m, "AppendEntry") /\ ToCurrent(m) /\ ToLeader(m)
  /\ m.logIndex # LengthLog(m.to)
  /\ net' = net \ {m}
  /\ replies' = replies \cup {AppendEntryResponse(m.to, m.from, m.conn, FALSE)}
  /\ UNCHANGED <<nodeVars, loopVars, handlers, fetchers, commitVars, restarts, historyVars>>

\* Fault: the node's own confirmation is counted among the answers.
RequestAddObjectOwnVote(n, obj, from, conn, pending) ==
  /\ calls < MaxCalls
  /\ calls' = calls + 1
  /\ commits' = commits \cup {[node |-> n, id |-> calls + 1, cmd |-> obj, from |-> from,
                               conn |-> conn, awaits |-> "peers", votes |-> {n}]}
  /\ net' = pending \cup {AppendEntryMsg(n, p, n, calls + 1, obj) : p \in Peers(n)}

\* requestAddObject: ask every peer to confirm obj.
RequestAddObject(n, obj, from, conn, pending) ==
  /\ calls < MaxCalls
  /\ calls' = calls + 1
  /\ commits' = commits \cup {[node |-> n, id |-> calls + 1, cmd |-> obj, from |-> from,
                               conn |-> conn, awaits |-> "peers", votes |-> {}]}
  /\ net' = pending \cup {AppendEntryMsg(n, p, n, calls + 1, obj) : p \in Peers(n)}

\* The write is as long as the log: commitObject is called for it.
AcceptWrite(m) ==
  /\ Incoming(m, "AppendEntry") /\ ToCurrent(m) /\ ToLeader(m)
  /\ m.logIndex = LengthLog(m.to)
  /\ net' = net \ {m}
  /\ handlers' = handlers \cup {[msg |-> m, at |-> "commit"]}
  /\ UNCHANGED <<nodeVars, loopVars, fetchers, replies, commitVars, restarts, historyVars>>

\* Any other node whose log is as long as the sender's, or longer, confirms.
ConfirmEntry(m) ==
  /\ Incoming(m, "AppendEntry") /\ ToCurrent(m) /\ ~ToLeader(m)
  /\ m.obj # Nil /\ ~Behind(m)
  /\ net' = net \ {m}
  /\ SendReplyObjectCommited(Confirmations(m), replies)
  /\ UNCHANGED <<nodeVars, loopVars, handlers, fetchers, commitVars, restarts, grants, added>>

\* Faults: the length taken for the next index; the last entry asked for again.
FetchIndexOfLast(length) == length
FetchIndexAgain(length) == IF length = 0 THEN 1 ELSE length

\* The entry a round of the fetch loop asks for, at a log of that length.
FetchIndex(length) == length + 1
SendFetchObjectAtIndex(f) == FetchMsg(f.msg.to, f.ladr, f.id, f.term, f.index)

\* A shorter log fetches what it lacks from one of the nodes marked as
\* leader; with none marked the handler returns, as "" cannot be dialled.
StartFetch(m) ==
  LET n == m.to IN
  /\ Incoming(m, "AppendEntry") /\ ToCurrent(m) /\ ~ToLeader(m)
  /\ Behind(m)
  /\ \E ladr \in LeaderAddrs(n), i \in FetchId :
       /\ \A f \in fetchers : f.msg.to = n => f.id # i
       /\ LET f == [id |-> i, msg |-> m, ladr |-> ladr, term |-> term[n],
                    index |-> FetchIndex(LengthLog(n)), left |-> m.logIndex - LengthLog(n)]
          IN /\ fetchers' = fetchers \cup {f}
             /\ net' = (net \ {m}) \cup {SendFetchObjectAtIndex(f)}
  /\ UNCHANGED <<nodeVars, loopVars, handlers, replies, commitVars, restarts, historyVars>>

\* The FETCH_MISSING_ENTRIES case: only a leader whose term is not older
\* and whose log has the entry answers.
ServeFetch(m) ==
  /\ Incoming(m, "FetchMissingEntries")
  /\ m.term <= term[m.to]
  /\ role[m.to] = "LEADER"
  /\ m.logIndex <= LengthLog(m.to)
  /\ net' = net \ {m}
  /\ replies' = replies \cup {FetchReply(m, GetLogItem(m.to, m.logIndex))}
  /\ UNCHANGED <<nodeVars, loopVars, handlers, fetchers, commitVars, restarts, historyVars>>

\* The fetched entry is appended to the log as it is now; after the last one
\* the handler confirms the request it started from.
FetchEntry(f, r) ==
  LET n == f.msg.to
      g == [f EXCEPT !.index = FetchIndex(LengthLog(n) + 1), !.left = @ - 1]
  IN
  /\ f \in fetchers
  /\ r \in replies /\ r.type = "FetchMissingEntries" /\ r.to = n /\ r.conn = f.id
  /\ r.obj # Nil /\ r.logIndex = f.index
  /\ AddCommit(n, r.obj)
  /\ \/ /\ f.left > 1
        /\ fetchers' = (fetchers \ {f}) \cup {g}
        /\ net' = net \cup {SendFetchObjectAtIndex(g)}
        /\ replies' = replies \ {r}
        /\ UNCHANGED accepts
     \/ /\ f.left <= 1
        /\ fetchers' = fetchers \ {f}
        /\ SendReplyObjectCommited(Confirmations(f.msg), replies \ {r})
        /\ UNCHANGED net
  /\ UNCHANGED <<role, term, leaders, loopVars, handlers, commitVars, restarts, grants, added>>

\* No answer within the timeout, the dial failed, or the answer is not the
\* entry asked for: the handler returns.  Its connection dies with it.
FetchTimeout(f) ==
  /\ f \in fetchers
  /\ fetchers' = fetchers \ {f}
  /\ net' = net \ {SendFetchObjectAtIndex(f)}
  /\ replies' = {r \in replies : ~(/\ r.type = "FetchMissingEntries"
                                   /\ r.to = f.msg.to /\ r.conn = f.id)}
  /\ UNCHANGED <<nodeVars, loopVars, handlers, commitVars, restarts, historyVars>>

-----------------------------------------------------------------------------
(***************************************************************************)
(* commitObject, for a command of the node's own CLI (from = node) or for  *)
(* a member's write (see AcceptWrite).                                     *)
(***************************************************************************)
\* Fault: any answer counts, as it does in an election.
AnyAnswer(r) == TRUE

\* What the two readers of an AppendEntryResponse look at.
Confirmed(r) == r.confirmed

Finish(k, result) == cli' = [cli EXCEPT ![k.cmd] = result]

\* A member forwards the command to any of the nodes it takes for the leader,
\* unless none is marked or the lease of the one it looks at has run out.
SendLeaderWrite(n, c, from, conn) ==
  /\ calls < MaxCalls
  /\ calls' = calls + 1
  /\ \E ladr \in LeaderAddrs(n) :
       net' = net \cup {AppendEntryMsg(n, ladr, ladr, calls + 1, c)}
  /\ commits' = commits \cup {[node |-> n, id |-> calls + 1, cmd |-> c, from |-> from,
                               conn |-> conn, awaits |-> "leader", votes |-> {}]}

\* A candidate commits nothing, nor does a member without a leader or whose
\* leader's lease has run out.
NoCommit(n) ==
  \/ role[n] = "CANDIDATE" /\ UNCHANGED leaders
  \/ role[n] = "MEMBER" /\ leaders[n] \cap Peers(n) = {} /\ UNCHANGED leaders
  \/ role[n] = "MEMBER" /\ \E p \in leaders[n] \cap Peers(n) : ExpireLeader(n, p)

CommitObject(n, c) ==
  /\ cli[c] = "idle" /\ Events < MaxEvents
  /\ \/ /\ role[n] = "LEADER"
        /\ RequestAddObject(n, c, n, 0, net)
        /\ cli' = [cli EXCEPT ![c] = "pending"]
        /\ UNCHANGED leaders
     \/ /\ role[n] = "MEMBER" /\ leaders[n] \cap Peers(n) # {}
        /\ SendLeaderWrite(n, c, n, 0)
        /\ cli' = [cli EXCEPT ![c] = "pending"]
        /\ UNCHANGED leaders
     \/ /\ NoCommit(n)
        /\ cli' = [cli EXCEPT ![c] = "failed"]
        /\ UNCHANGED <<commits, calls, net>>
  /\ UNCHANGED <<role, term, commitLog, loopVars, handlers, fetchers, replies, restarts,
                 historyVars>>

\* commitObject for a member's write, by a leader that may be none any more: then
\* it goes on like a member's command, or says nothing.
CommitWrite(h) ==
  LET m == h.msg
      n == m.to
  IN
  /\ h \in handlers /\ h.at = "commit"
  /\ handlers' = handlers \ {h}
  /\ \/ /\ role[n] = "LEADER"
        /\ RequestAddObject(n, m.obj, m.from, m.conn, net)
        /\ UNCHANGED leaders
     \/ /\ role[n] = "MEMBER" /\ leaders[n] \cap Peers(n) # {}
        /\ SendLeaderWrite(n, m.obj, m.from, m.conn)
        /\ UNCHANGED leaders
     \/ /\ NoCommit(n)
        /\ UNCHANGED <<commits, calls, net>>
  /\ UNCHANGED <<role, term, commitLog, loopVars, fetchers, replies, cli, restarts, historyVars>>

\* The aggregator of a quorum round counts a confirmation.
ReceiveConfirmation(k, r) ==
  /\ k \in commits /\ k.awaits = "peers" /\ Cardinality(k.votes) < Quorum(k.node)
  /\ r \in replies /\ r.type = "AppendEntry" /\ r.to = k.node /\ r.conn = k.id
  /\ Confirmed(r)
  /\ commits' = (commits \ {k}) \cup {[k EXCEPT !.votes = @ \cup {r.from}]}
  /\ replies' = replies \ {r}
  /\ UNCHANGED <<nodeVars, loopVars, handlers, fetchers, net, calls, cli, restarts,
                 historyVars>>

Added(k) == [node |-> k.node, cmd |-> k.cmd, conn |-> k.id, awaits |-> k.awaits]

\* commitObject returns: the node's own CLI is told, and of a success the member
\* whose write it was.
ReportSuccess(k, pending) ==
  \/ /\ k.from = k.node /\ Finish(k, "ok")
     /\ replies' = pending /\ UNCHANGED accepts
  \/ /\ k.from # k.node /\ UNCHANGED cli
     /\ SendReplyObjectCommited({Confirmation(k.node, k.from, k.conn, k.cmd)}, pending)
ReportFailure(k) == IF k.from = k.node THEN Finish(k, "failed") ELSE UNCHANGED cli

\* A quorum confirmed: the object joins the log, and the member whose write
\* it was, or the node's own CLI, is told.
QuorumReached(k) ==
  /\ k \in commits /\ k.awaits = "peers" /\ Cardinality(k.votes) >= Quorum(k.node)
  /\ AddCommit(k.node, k.cmd)
  /\ added' = added \cup {Added(k)}
  /\ commits' = commits \ {k}
  /\ ReportSuccess(k, replies)
  /\ UNCHANGED <<role, term, leaders, loopVars, handlers, fetchers, net, calls, restarts,
                 grants>>

\* Fault: the round is asked for again, though its answers may still come.
QuorumTimeoutRetries(k) ==
  /\ k \in commits /\ k.awaits = "peers" /\ Cardinality(k.votes) < Quorum(k.node)
  /\ RequestAddObject(k.node, k.cmd, k.from, k.conn, net)
  /\ UNCHANGED <<nodeVars, loopVars, handlers, fetchers, replies, cli, restarts, historyVars>>

\* The round times out: a member's write gets no answer at all.
QuorumTimeout(k) ==
  /\ k \in commits /\ k.awaits = "peers" /\ Cardinality(k.votes) < Quorum(k.node)
  /\ commits' = commits \ {k}
  /\ ReportFailure(k)
  /\ UNCHANGED <<nodeVars, loopVars, rpcVars, calls, restarts, historyVars>>

\* The answer to a forwarded write: the member adds the object to its own log
\* at once, at whatever length that log has by now.
LeaderAnswers(k, r) ==
  /\ k \in commits /\ k.awaits = "leader"
  /\ r \in replies /\ r.type = "AppendEntry" /\ r.to = k.node /\ r.conn = k.id
  /\ commits' = commits \ {k}
  /\ \/ /\ Confirmed(r)
        /\ AddCommit(k.node, k.cmd)
        /\ added' = added \cup {Added(k)}
        /\ ReportSuccess(k, replies \ {r})
     \/ /\ ~Confirmed(r)
        /\ replies' = replies \ {r}
        /\ ReportFailure(k)
        /\ UNCHANGED <<commitLog, added, accepts>>
  /\ UNCHANGED <<role, term, leaders, loopVars, handlers, fetchers, net, calls, restarts,
                 grants>>

\* Fault: the wait for the leader has no timer.
NoLeaderTimeout(k) == FALSE

\* Fault: the timeout does not return, so the object is added after all.
LeaderTimeoutAdds(k) ==
  /\ k \in commits /\ k.awaits = "leader"
  /\ commits' = commits \ {k}
  /\ AddCommit(k.node, k.cmd)
  /\ added' = added \cup {Added(k)}
  /\ ReportFailure(k)
  /\ UNCHANGED <<role, term, leaders, loopVars, rpcVars, calls, restarts, grants, accepts>>

LeaderTimeout(k) ==
  /\ k \in commits /\ k.awaits = "leader"
  /\ commits' = commits \ {k}
  /\ ReportFailure(k)
  /\ UNCHANGED <<nodeVars, loopVars, rpcVars, calls, restarts, historyVars>>

-----------------------------------------------------------------------------
\* The process stops and is started again: nothing is persisted, so it is back
\* in the state of InitRaft.  Its open connections are gone.
Restart(n) ==
  /\ restarts < MaxRestarts /\ Events < MaxEvents
  /\ restarts' = restarts + 1
  /\ ChangeRole(n, "MEMBER")
  /\ UpdateTerm(n, 0)
  /\ commitLog' = [commitLog EXCEPT ![n] = <<>>]
  /\ WipeLeader(n)
  /\ loop' = [loop EXCEPT ![n] = "watch"]
  /\ nextTerm' = [nextTerm EXCEPT ![n] = 0]
  /\ votes' = [votes EXCEPT ![n] = {}]
  /\ handlers' = {h \in handlers : h.msg.to # n}
  /\ fetchers' = {f \in fetchers : f.msg.to # n}
  /\ net' = {m \in net : m.type = "FetchMissingEntries" => m.from # n}
  /\ replies' = {r \in replies : r.to # n}
  /\ commits' = {k \in commits : k.node # n}
  /\ cli' = [c \in Cmd |-> IF \E k \in commits : k.node = n /\ k.from = n /\ k.cmd = c
                           THEN "lost" ELSE cli[c]]
  /\ UNCHANGED <<elections, election, calls, historyVars>>

LoopNext(n) ==
  \/ WatchLeader(n) \/ RequestLeaderVotes(n) \/ WinElection(n) \/ LoseElection(n)
  \/ \E h \in handlers : NewLeader(n, h)
  \/ SendLogUpdates(n) \/ LeaveLead(n)

RpcNext ==
  \/ \E m \in net :
       \/ TestTerm(m) \/ HandleSameTermVote(m)
       \/ DenyWrite(m) \/ AcceptWrite(m) \/ ConfirmEntry(m) \/ StartFetch(m)
       \/ ServeFetch(m)
  \/ \E h \in handlers :
       HandleNewerVote(h) \/ HandleNewerAppend(h) \/ HandleCandidateAppend(h) \/ CommitWrite(h)
  \/ \E f \in fetchers : FetchTimeout(f) \/ \E r \in replies : FetchEntry(f, r)
  \/ \E r \in replies : ReceiveVote(r)

CommitNext ==
  \/ \E n \in Node, c \in Cmd : CommitObject(n, c)
  \/ \E k \in commits :
       \/ QuorumReached(k) \/ QuorumTimeout(k) \/ LeaderTimeout(k)
       \/ \E r \in replies : ReceiveConfirmation(k, r) \/ LeaderAnswers(k, r)

Next ==
  \/ \E n \in Node : LoopNext(n) \/ Restart(n)
  \/ RpcNext
  \/ CommitNext

Spec == Init /\ [][Next]_vars

\* A goroutine that can go on does so: a leader ticks for ever, an election is
\* decided, a handler that has tested the term finishes, a timer that nothing
\* stops fires.  A lease is not such a timer, as every message renews it.
GoroutineFairness ==
  /\ \A n \in Node :
       /\ WF_vars(SendLogUpdates(n) \/ LeaveLead(n))
       /\ WF_vars(RequestLeaderVotes(n) \/ WinElection(n) \/ LoseElection(n))
  /\ WF_vars(\E h \in handlers :
               HandleNewerVote(h) \/ HandleNewerAppend(h) \/ HandleCandidateAppend(h) \/ CommitWrite(h))
  /\ WF_vars(\E k \in commits : QuorumReached(k) \/ QuorumTimeout(k) \/ LeaderTimeout(k))

\* The network loses messages, but not for ever those that are sent again for
\* ever, and an answer beats the timer now and then.
NetworkFairness ==
  \A n \in Node :
    /\ SF_vars(\E m \in net : m.to = n /\ m.type = "AppendEntry" /\ TestTerm(m))
    /\ SF_vars(\E m \in net : m.to = n /\ StartFetch(m))
    /\ SF_vars(\E m \in net : m.from = n /\ ServeFetch(m))
    /\ SF_vars(\E f \in fetchers, r \in replies : f.msg.to = n /\ FetchEntry(f, r))
    /\ WF_vars(\E f \in fetchers : f.msg.to = n /\ FetchTimeout(f))

FairSpec == Spec /\ GoroutineFairness /\ NetworkFairness

-----------------------------------------------------------------------------
Roles == {"LEADER", "CANDIDATE", "MEMBER"}
LoopStates == {"watch", "campaign", "elect", "lead"}

RequestVoteType ==
  [type : {"RequestVote"}, from : Node, to : Node, conn : Nat, term : Nat, logIndex : Nat]
AppendEntryType ==
  [type : {"AppendEntry"}, from : Node, to : Node, conn : Nat, term : Nat, logIndex : Nat,
   leaderAddr : Node, obj : Cmd \cup {Nil}]
FetchType ==
  [type : {"FetchMissingEntries"}, from : Node, to : Node, conn : FetchId, term : Nat,
   logIndex : Nat \ {0}]
RequestType == RequestVoteType \cup AppendEntryType \cup FetchType

VoteReplyType == [type : {"RequestVote"}, from : Node, to : Node, conn : Nat]
AppendReplyType ==
  [type : {"AppendEntry"}, from : Node, to : Node, conn : Nat, confirmed : BOOLEAN]
FetchReplyType ==
  [type : {"FetchMissingEntries"}, from : Node, to : Node, conn : FetchId,
   logIndex : Nat \ {0}, obj : Cmd]
ReplyType == VoteReplyType \cup AppendReplyType \cup FetchReplyType

HandlerType ==
  [msg : RequestVoteType, at : {"newer", "newLeaderCh"}]
    \cup [msg : AppendEntryType, at : {"newer", "candidate", "newLeaderCh"}]
    \cup [msg : {m \in AppendEntryType : m.obj # Nil}, at : {"commit"}]
FetcherType ==
  [id : FetchId, msg : AppendEntryType, ladr : Node, term : Nat,
   index : Nat \ {0}, left : Nat]
CommitType ==
  [node : Node, id : Nat, cmd : Cmd, from : Node, conn : Nat, awaits : {"peers", "leader"},
   votes : SUBSET Node]
GrantType == [voter : Node, candidate : Node, election : Nat, term : Nat, length : Nat]
AcceptType == [by : Node, for : Node, conn : Nat, cmd : Cmd]
AddedType == [node : Node, cmd : Cmd, conn : Nat, awaits : {"peers", "leader"}]

\* Every variable keeps the shape the code gives it.
TypeOK ==
  /\ role \in [Node -> Roles]
  /\ term \in [Node -> Nat]
  /\ commitLog \in [Node -> Seq(Cmd)]
  /\ leaders \in [Node -> SUBSET Node]
  /\ loop \in [Node -> LoopStates]
  /\ nextTerm \in [Node -> Nat]
  /\ elections \in Nat
  /\ election \in [Node -> Nat]
  /\ votes \in [Node -> SUBSET Node]
  /\ handlers \subseteq HandlerType
  /\ fetchers \subseteq FetcherType
  /\ net \subseteq RequestType
  /\ replies \subseteq ReplyType
  /\ commits \subseteq CommitType
  /\ calls \in Nat
  /\ cli \in [Cmd -> {"idle", "pending", "ok", "failed", "lost"}]
  /\ restarts \in Nat
  /\ grants \subseteq GrantType
  /\ accepts \subseteq AcceptType
  /\ added \subseteq AddedType

-----------------------------------------------------------------------------
IsMajority(S) == 2 * Cardinality(S) > Cardinality(Node)

\* The nodes whose vote in election e went to n.
Voters(n, e) == {g.voter : g \in {x \in grants : x.candidate = n /\ x.election = e}}

\* A leader and the peers that granted it the last election it started are a
\* majority of the nodes (LockRoutingTableEntries, requestLeaderVotes).
LeaderHasMajority ==
  \A n \in Node : role[n] = "LEADER" => IsMajority(Voters(n, election[n]) \cup {n})

\* The nodes that answered Confirmed to call id of node n about c.
Acceptors(n, id, c) ==
  {a.by : a \in {x \in accepts : x.for = n /\ x.conn = id /\ x.cmd = c}}

\* Every entry of every log, however it got there, was added by a commitObject
\* that was confirmed: a quorum round by a majority of the nodes, a forwarded
\* write by another node (requestAddObject, commitObject, the fetch loop).
EntriesConfirmed ==
  /\ \A n \in Node : \A i \in 1..LengthLog(n) : \E a \in added : a.cmd = commitLog[n][i]
  /\ \A a \in added :
       LET by == Acceptors(a.node, a.conn, a.cmd) \ {a.node}
       IN IF a.awaits = "peers" THEN IsMajority(by \cup {a.node}) ELSE by # {}

\* As long as no process restarts, the entry a fetch loop is about to append
\* is the one the log it asked has at that index (getLogItem, handleRpc).
FetchedEntryIsSendersEntry ==
  restarts = 0 =>
    \A r \in replies : r.type = "FetchMissingEntries" =>
      /\ r.logIndex \in 1..LengthLog(r.from)
      /\ r.obj = commitLog[r.from][r.logIndex]

\* The logs and the CLIs implement ReplicatedLog: entries are appended one at a
\* time, none is invented, each command is answered once, and "ok" only with an
\* entry added for it (addCommit and its callers, commitObject).
Replicated == INSTANCE ReplicatedLog
  WITH log <- commitLog, committed <- {a.cmd : a \in added}, answer <- cli
ImplementsReplicatedLog == Replicated!Spec

\* f takes l, and no other node, for its leader, and l is one.
Follows(f, l) ==
  /\ role[f] = "MEMBER" /\ leaders[f] = {l} /\ term[f] <= term[l]
  /\ role[l] = "LEADER" /\ loop[l] = "lead"

\* A member that keeps following a leader keeps catching up with its log
\* (startLeader, sendLogUpdates, the fetch loop of handleRpc).
MembersCatchUp ==
  \A f, l \in Node : <>[]Follows(f, l) => []<>(LengthLog(f) >= LengthLog(l))

\* Every command typed at a CLI is answered (commitObject, requestAddObject).
EveryWriteAnswered == \A c \in Cmd : cli[c] = "pending" ~> cli[c] # "pending"

\* The comment in awaitLeaderTTL, newTerm is consumed "for possible candidate
\* and leader states": a node that took over a later term from a vote request while
\* it campaigned, and that the quorum of its own, older election then makes leader
\* of a term it never campaigned for (handleRpc, startRAFT), does not stay leader.
DeposedLeaderStepsDown ==
  \A n \in Node : (role[n] = "LEADER" /\ term[n] > nextTerm[n]) ~> role[n] # "LEADER"

LogsAgree ==
  \A n, p \in Node : \A i \in 1..LengthLog(n) :
    i <= LengthLog(p) => commitLog[n][i] = commitLog[p][i]

LogsHaveObjectsOnce ==
  \A n \in Node : \A i, j \in 1..LengthLog(n) : commitLog[n][i] = commitLog[n][j] => i = j

\* Circumstances in which logs may be expected to agree.
OnlyOneCampaigns == restarts = 0 /\ \E l \in Node : \A n \in Peers(l) : election[n] = 0
OnlyLeadersAdd   == \A a \in added : a.awaits = "peers"
OneFetchLoop     == \A i, j \in FetchId : i = j

\* The logs agree while only one node ever campaigns, no member has added an
\* object on the leader's word, and no two fetch loops overlap at a node
\* (addCommit, handleRpc): the conditions under which replication is sound.
StableLogsAgree == OnlyOneCampaigns /\ OnlyLeadersAdd /\ OneFetchLoop => LogsAgree

\* In the same circumstances an object typed once enters each log once, and so
\* is created once in each cluster, though a member may give up a write whose
\* round goes on, or lose the answer to it (commitObject, addCommit).
ObjectsLoggedOnce == OnlyOneCampaigns /\ OnlyLeadersAdd /\ OneFetchLoop => LogsHaveObjectsOnce

\* The README's "fully replicated cluster object logs", with a single leader
\* that alone adds objects: members only fetch.
CatchUpAgrees == OnlyOneCampaigns /\ OnlyLeadersAdd => LogsAgree

\* The comment of sendReplyLeaderVote, "Will only be sent if new leader is in
\* greater term": a node never votes twice in a term.
OneVotePerTerm == \A g, h \in grants : g.voter = h.voter /\ g.term = h.term => g = h

\* The comment at startLeader, "if leader then simply get quorum or else send
\* to leader for quorum": an object a member added was added by a quorum round.
ForwardedWritesHaveQuorum ==
  \A a \in added : a.awaits = "leader" => \E b \in added : b.cmd = a.cmd /\ b.awaits = "peers"

=============================================================================
