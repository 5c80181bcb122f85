--------------------------- MODULE RaftLogProofs ---------------------------
(***************************************************************************)
(* Agreement of the logs of Raft, for every set of nodes and commands and  *)
(* every bound: while one node alone campaigns, only leaders add objects   *)
(* and no two fetch loops overlap at a node, every log is a prefix of the  *)
(* log of the node that campaigns.                                         *)
(***************************************************************************)
EXTENDS RaftProofs

USE DEF nodeVars, loopVars, rpcVars, commitVars, historyVars

-----------------------------------------------------------------------------
(***************************************************************************)
(* What only a node that has campaigned can do: lead, run a quorum round,  *)
(* and answer a fetch.                                                     *)
(***************************************************************************)
Campaigned(n) == election[n] # 0

LeadersCampaigned ==
  \A n \in Node : loop[n] \in {"elect", "lead"} \/ role[n] = "LEADER" => Campaigned(n)

RoundsByCampaigners == \A k \in commits : k.awaits = "peers" => Campaigned(k.node)

\* ... and the answer goes to another node: nobody fetches from itself.
FetchesFromCampaigners ==
  \A r \in replies : r.type = "FetchMissingEntries" => Campaigned(r.from) /\ r.from # r.to

CampaignInv == LeadersCampaigned /\ RoundsByCampaigners /\ FetchesFromCampaigners

LEMMA InitCampaign == Init => CampaignInv
BY DEF Init, CampaignInv, LeadersCampaigned, RoundsByCampaigners, FetchesFromCampaigners

\* A node that has campaigned has done so for good, through restarts too.
LEMMA CampaignsStay ==
  ASSUME TypeOK, [Next]_vars
  PROVE  \A n \in Node : Campaigned(n) => Campaigned(n)'
<1>1. CASE \E n \in Node : RequestLeaderVotes(n)
  BY <1>1 DEF RequestLeaderVotes, Campaigned, TypeOK
<1>2. CASE ~\E n \in Node : RequestLeaderVotes(n)
  <2>1. CASE \E n \in Node : LoopNext(n)
    BY <1>2, <2>1 DEF LoopNext, WatchLeader, WinElection, LoseElection, NewLeader, SendLogUpdates,
                      LeaveLead, Campaigned
  <2>2. CASE \E n \in Node : Restart(n)
    BY <2>2 DEF Restart, Campaigned
  <2>3. CASE RpcNext
    BY <2>3 DEF RpcNext, TestTerm, HandleSameTermVote, DenyWrite, AcceptWrite, ConfirmEntry,
                StartFetch, ServeFetch, HandleNewerVote, HandleNewerAppend,
                HandleCandidateAppend, CommitWrite, FetchTimeout, FetchEntry, ReceiveVote,
                Campaigned
  <2>4. CASE CommitNext
    BY <2>4 DEF CommitNext, CommitObject, QuorumReached, QuorumTimeout, LeaderTimeout,
                ReceiveConfirmation, LeaderAnswers, Campaigned
  <2>5. CASE UNCHANGED vars
    BY <2>5 DEF vars, Campaigned
  <2>. QED  BY <2>1, <2>2, <2>3, <2>4, <2>5 DEF Next
<1>. QED  BY <1>1, <1>2

\* Steps that make no leader, no round and no answer to a fetch.
LEMMA CampaignFrame ==
  ASSUME TypeOK, CampaignInv, \A n \in Node : Campaigned(n) => Campaigned(n)',
         \A n \in Node : role'[n] = "LEADER" => role[n] = "LEADER",
         \A n \in Node : loop'[n] \in {"elect", "lead"} => Campaigned(n)',
         \A k \in commits' : k.awaits = "peers" =>
            \E j \in commits : j.awaits = "peers" /\ j.node = k.node,
         \A r \in replies' : r.type = "FetchMissingEntries" => r \in replies
  PROVE  CampaignInv'
<1>1. \A k \in commits : k.node \in Node
  BY DEF TypeOK, CommitType
<1>2. \A r \in replies : r.from \in Node
  BY PacketTypes
<1>3. LeadersCampaigned'
  BY DEF CampaignInv, LeadersCampaigned
<1>4. RoundsByCampaigners'
  BY <1>1 DEF CampaignInv, RoundsByCampaigners
<1>5. FetchesFromCampaigners'
  BY <1>2 DEF CampaignInv, FetchesFromCampaigners
<1>. QED  BY <1>3, <1>4, <1>5 DEF CampaignInv

\* Of the steps of startRAFT, RequestLeaderVotes makes a campaigner, and only
\* what it has made goes on to elect and lead.
LEMMA LoopCampaign ==
  ASSUME TypeOK, CampaignInv, NEW n \in Node, LoopNext(n)
  PROVE  CampaignInv'
<1>0. /\ \A p \in Node : loop[p] \in {"elect", "lead"} \/ role[p] = "LEADER" => Campaigned(p)
      /\ role \in [Node -> Roles] /\ loop \in [Node -> LoopStates]
  BY DEF CampaignInv, LeadersCampaigned, TypeOK
<1>1. UNCHANGED commits
  BY DEF LoopNext, WatchLeader, RequestLeaderVotes, WinElection, LoseElection, NewLeader,
         SendLogUpdates, LeaveLead
<1>2. \A r \in replies' : r.type = "FetchMissingEntries" => r \in replies
  BY DEF LoopNext, WatchLeader, RequestLeaderVotes, WinElection, LoseElection, NewLeader,
         SendLogUpdates, LeaveLead, SendReplyLeaderVote, VoteReply
<1>3. \A p \in Node : Campaigned(p) => Campaigned(p)'
  BY CampaignsStay DEF Next
<1>4. CASE WinElection(n)
  <2>1. Campaigned(n)'
    BY <1>0, <1>3, <1>4 DEF WinElection
  <2>2. \A p \in Node : loop'[p] \in {"elect", "lead"} \/ role'[p] = "LEADER" => Campaigned(p)'
    BY <1>0, <1>3, <1>4, <2>1 DEF WinElection, ChangeRole, Switch
  <2>. QED  BY <1>1, <1>2, <1>4, <2>2
            DEF WinElection, CampaignInv, LeadersCampaigned, RoundsByCampaigners,
                FetchesFromCampaigners, Campaigned
<1>5. CASE ~WinElection(n)
  <2>1. \A p \in Node : role'[p] = "LEADER" => role[p] = "LEADER"
    BY <1>0, <1>5 DEF LoopNext, WatchLeader, RequestLeaderVotes, LoseElection, NewLeader,
                      SendLogUpdates, LeaveLead, ChangeRole
  <2>2. ASSUME NEW p \in Node, loop'[p] \in {"elect", "lead"}
        PROVE  Campaigned(p)'
    <3>1. CASE RequestLeaderVotes(n)
      BY <1>0, <1>3, <2>2, <3>1 DEF RequestLeaderVotes, Campaigned, TypeOK
    <3>2. CASE WatchLeader(n) \/ LoseElection(n) \/ LeaveLead(n) \/ SendLogUpdates(n)
      BY <1>0, <1>3, <2>2, <3>2
         DEF WatchLeader, LoseElection, LeaveLead, SendLogUpdates, Switch, Roles
    <3>3. CASE \E h \in handlers : NewLeader(n, h)
      BY <1>0, <1>3, <2>2, <3>3 DEF NewLeader, Switch
    <3>. QED  BY <1>5, <3>1, <3>2, <3>3 DEF LoopNext
  <2>. QED  BY <1>1, <1>2, <1>3, <2>1, <2>2, CampaignFrame
<1>. QED  BY <1>4, <1>5

\* Of the handlers, a leader's alone starts a round or answers a fetch.
LEMMA RpcCampaign ==
  ASSUME TypeOK, CampaignInv, RpcNext
  PROVE  CampaignInv'
<1>0. \A p \in Node : loop[p] \in {"elect", "lead"} \/ role[p] = "LEADER" => Campaigned(p)
  BY DEF CampaignInv, LeadersCampaigned
<1>1. \A p \in Node : Campaigned(p) => Campaigned(p)'
  BY CampaignsStay DEF Next
<1>2. UNCHANGED <<loop, election>>
  BY DEF RpcNext, TestTerm, HandleSameTermVote, DenyWrite, AcceptWrite, ConfirmEntry, StartFetch,
         ServeFetch, HandleNewerVote, HandleNewerAppend, HandleCandidateAppend, CommitWrite,
         FetchTimeout, FetchEntry, ReceiveVote
<1>3. \A p \in Node : role'[p] = "LEADER" => role[p] = "LEADER"
  <2>. role \in [Node -> Roles]
    BY DEF TypeOK
  <2>. QED
    BY DEF RpcNext, TestTerm, HandleSameTermVote, DenyWrite, AcceptWrite, ConfirmEntry, StartFetch,
           ServeFetch, HandleNewerVote, HandleNewerAppend, HandleCandidateAppend, CommitWrite,
           FetchTimeout, FetchEntry, ReceiveVote, ChangeRole
<1>4. CASE \E h \in handlers : CommitWrite(h)
  <2>1. PICK h \in handlers : CommitWrite(h)
    BY <1>4
  <2>2. h.msg.to \in Node /\ (role[h.msg.to] = "LEADER" => Campaigned(h.msg.to))
    BY <1>0, <2>1, GoroutineTypes
  <2>3. RoundsByCampaigners'
    BY <1>2, <2>1, <2>2 DEF CommitWrite, RequestAddObject, SendLeaderWrite, CampaignInv,
                            RoundsByCampaigners, Campaigned
  <2>4. LeadersCampaigned' /\ FetchesFromCampaigners'
    BY <1>2, <1>3, <2>1 DEF CommitWrite, CampaignInv, LeadersCampaigned, FetchesFromCampaigners,
                            Campaigned
  <2>. QED  BY <2>3, <2>4 DEF CampaignInv
<1>5. CASE \E m \in net : ServeFetch(m)
  <2>1. PICK m \in net : ServeFetch(m)
    BY <1>5
  <2>2. Campaigned(m.to) /\ m.from # m.to
    BY <1>0, <2>1, PacketTypes DEF ServeFetch, Incoming, Peers
  <2>3. FetchesFromCampaigners'
    BY <1>2, <2>1, <2>2 DEF ServeFetch, FetchReply, CampaignInv, FetchesFromCampaigners,
                            Campaigned
  <2>4. LeadersCampaigned' /\ RoundsByCampaigners'
    BY <1>2, <1>3, <2>1 DEF ServeFetch, CampaignInv, LeadersCampaigned, RoundsByCampaigners,
                            Campaigned
  <2>. QED  BY <2>3, <2>4 DEF CampaignInv
<1>6. CASE /\ ~\E h \in handlers : CommitWrite(h)
           /\ ~\E m \in net : ServeFetch(m)
  <2>1. UNCHANGED commits
    BY <1>6, QuietRpc
  <2>2. \A r \in replies' : r.type = "FetchMissingEntries" => r \in replies
    <3>1. CASE \E m \in net : ConfirmEntry(m)
      BY <3>1, ConfirmationReplies, ConfirmationsForm DEF ConfirmEntry
    <3>2. CASE \E f \in fetchers, r \in replies : FetchEntry(f, r)
      <4>1. PICK f \in fetchers, r \in replies : FetchEntry(f, r)
        BY <3>2
      <4>. QED  BY <4>1, ConfirmationReplies, ConfirmationsForm DEF FetchEntry
    <3>3. CASE /\ ~\E m \in net : ConfirmEntry(m)
               /\ ~\E f \in fetchers, r \in replies : FetchEntry(f, r)
      BY <1>6, <3>3 DEF RpcNext, TestTerm, HandleSameTermVote, DenyWrite, AcceptWrite,
                        StartFetch, HandleNewerVote, HandleNewerAppend, HandleCandidateAppend,
                        FetchTimeout, ReceiveVote, SendReplyLeaderVote, VoteReply,
                        AppendEntryResponse
    <3>. QED  BY <3>1, <3>2, <3>3
  <2>. QED  BY <1>0, <1>1, <1>2, <1>3, <2>1, <2>2, CampaignFrame
<1>. QED  BY <1>4, <1>5, <1>6

LEMMA CommitCampaign ==
  ASSUME TypeOK, CampaignInv, CommitNext
  PROVE  CampaignInv'
<1>0. \A p \in Node : loop[p] \in {"elect", "lead"} \/ role[p] = "LEADER" => Campaigned(p)
  BY DEF CampaignInv, LeadersCampaigned
<1>1. UNCHANGED <<loop, election, role>>
  BY DEF CommitNext, CommitObject, QuorumReached, QuorumTimeout, LeaderTimeout,
         ReceiveConfirmation, LeaderAnswers
<1>2. \A r \in replies' : r.type = "FetchMissingEntries" => r \in replies
  <2>1. CASE \E k \in commits : QuorumReached(k)
    BY <2>1, ReportReplies DEF QuorumReached
  <2>2. CASE \E k \in commits, r \in replies : LeaderAnswers(k, r)
    BY <2>2, ReportReplies DEF LeaderAnswers
  <2>3. CASE ~\/ \E k \in commits : QuorumReached(k)
              \/ \E k \in commits, r \in replies : LeaderAnswers(k, r)
    BY <2>3 DEF CommitNext, CommitObject, QuorumTimeout, LeaderTimeout, ReceiveConfirmation
  <2>. QED  BY <2>1, <2>2, <2>3
<1>3. RoundsByCampaigners'
  <2>1. CASE \E n \in Node, c \in Cmd : CommitObject(n, c)
    BY <1>0, <1>1, <2>1 DEF CommitObject, RequestAddObject, SendLeaderWrite, CampaignInv,
                            RoundsByCampaigners, Campaigned
  <2>2. CASE \E k \in commits, r \in replies : ReceiveConfirmation(k, r)
    <3>1. PICK k \in commits, r \in replies : ReceiveConfirmation(k, r)
      BY <2>2
    <3>2. [k EXCEPT !.votes = @ \cup {r.from}].node = k.node
      BY DEF TypeOK, CommitType
    <3>. QED  BY <1>1, <3>1, <3>2 DEF ReceiveConfirmation, CampaignInv, RoundsByCampaigners,
                                      Campaigned
  <2>3. CASE \E k \in commits : \/ QuorumReached(k) \/ QuorumTimeout(k) \/ LeaderTimeout(k)
                                \/ \E r \in replies : LeaderAnswers(k, r)
    BY <1>1, <2>3 DEF QuorumReached, QuorumTimeout, LeaderTimeout, LeaderAnswers, CampaignInv,
                      RoundsByCampaigners, Campaigned
  <2>. QED  BY <2>1, <2>2, <2>3 DEF CommitNext
<1>4. LeadersCampaigned' /\ FetchesFromCampaigners'
  BY <1>1, <1>2 DEF CampaignInv, LeadersCampaigned, FetchesFromCampaigners, Campaigned
<1>. QED  BY <1>3, <1>4 DEF CampaignInv

LEMMA NextCampaign == TypeOK /\ CampaignInv /\ [Next]_vars => CampaignInv'
<1>. SUFFICES ASSUME TypeOK, CampaignInv, [Next]_vars PROVE CampaignInv'
  OBVIOUS
<1>1. CASE \E n \in Node : LoopNext(n)
  BY <1>1, LoopCampaign
<1>2. CASE \E n \in Node : Restart(n)
  BY <1>2 DEF Restart, ChangeRole, CampaignInv, LeadersCampaigned, RoundsByCampaigners,
              FetchesFromCampaigners, Campaigned, TypeOK
<1>3. CASE RpcNext
  BY <1>3, RpcCampaign
<1>4. CASE CommitNext
  BY <1>4, CommitCampaign
<1>5. CASE UNCHANGED vars
  BY <1>5 DEF vars, CampaignInv, LeadersCampaigned, RoundsByCampaigners, FetchesFromCampaigners,
              Campaigned
<1>. QED  BY <1>1, <1>2, <1>3, <1>4, <1>5 DEF Next

-----------------------------------------------------------------------------
(***************************************************************************)
(* Fetch loops.  A node that has not campaigned adds to its log only what  *)
(* its fetch loop brings, so the loop asks for the entry the log lacks     *)
(* next, unless a second loop or an answer of the leader comes between.    *)
(***************************************************************************)
OneFetcherEach ==
  OneFetchLoop => \A f, g \in fetchers : f.msg.to = g.msg.to => f = g

FetchersInStep ==
  OneFetchLoop /\ OnlyLeadersAdd =>
    \A f \in fetchers : ~Campaigned(f.msg.to) => f.index = LengthLog(f.msg.to) + 1

FetcherInv == OneFetcherEach /\ FetchersInStep

LEMMA InitFetcher == Init => FetcherInv
BY DEF Init, FetcherInv, OneFetcherEach, FetchersInStep

\* What has been added stays in the history.
LEMMA AddedStays == [Next]_vars => added \subseteq added'
BY DEF vars, Next, LoopNext, WatchLeader, RequestLeaderVotes, WinElection, LoseElection, NewLeader,
       SendLogUpdates, LeaveLead, Restart, RpcNext, TestTerm, HandleSameTermVote, DenyWrite,
       AcceptWrite, ConfirmEntry, StartFetch, ServeFetch, HandleNewerVote, HandleNewerAppend,
       HandleCandidateAppend, CommitWrite, FetchTimeout, FetchEntry, ReceiveVote, CommitNext,
       CommitObject, QuorumReached, QuorumTimeout, LeaderTimeout, ReceiveConfirmation, LeaderAnswers

\* An entry added to one log leaves the others as they are.
LEMMA OtherLogs ==
  ASSUME TypeOK, NEW n \in Node, NEW c \in Cmd, AddCommit(n, c)
  PROVE  /\ LengthLog(n)' = LengthLog(n) + 1
         /\ commitLog'[n][LengthLog(n) + 1] = c
         /\ \A p \in Node \ {n} : commitLog'[p] = commitLog[p]
BY DEF TypeOK, AddCommit, LengthLog

\* Steps that start no loop, and add nothing where one is running.
LEMMA FetcherFrame ==
  ASSUME TypeOK, FetcherInv, [Next]_vars, fetchers' \subseteq fetchers,
         OnlyLeadersAdd' => \A f \in fetchers' :
           ~Campaigned(f.msg.to) => LengthLog(f.msg.to)' = LengthLog(f.msg.to)
  PROVE  FetcherInv'
<1>1. OneFetcherEach'
  BY DEF FetcherInv, OneFetcherEach, OneFetchLoop
<1>2. OnlyLeadersAdd' => OnlyLeadersAdd
  BY AddedStays DEF OnlyLeadersAdd
<1>3. \A f \in fetchers : ~Campaigned(f.msg.to)' => ~Campaigned(f.msg.to)
  BY CampaignsStay, GoroutineTypes DEF AppendEntryType
<1>4. FetchersInStep'
  BY <1>2, <1>3 DEF FetcherInv, FetchersInStep, OneFetchLoop
<1>. QED  BY <1>1, <1>4 DEF FetcherInv

LEMMA StartFetcher ==
  ASSUME TypeOK, FetcherInv, NEW m \in net, StartFetch(m)
  PROVE  FetcherInv'
<1>1. PICK f : /\ fetchers' = fetchers \cup {f} /\ f.id \in FetchId
               /\ f.msg = m /\ f.index = LengthLog(m.to) + 1
               /\ \A g \in fetchers : g.msg.to = m.to => g.id # f.id
  <2>1. PICK ladr \in LeaderAddrs(m.to), i \in FetchId :
          /\ \A f \in fetchers : f.msg.to = m.to => f.id # i
          /\ fetchers' = fetchers \cup
               {[id |-> i, msg |-> m, ladr |-> ladr, term |-> term[m.to],
                 index |-> FetchIndex(LengthLog(m.to)), left |-> m.logIndex - LengthLog(m.to)]}
    BY DEF StartFetch
  <2>. DEFINE f == [id |-> i, msg |-> m, ladr |-> ladr, term |-> term[m.to],
                    index |-> FetchIndex(LengthLog(m.to)),
                    left |-> m.logIndex - LengthLog(m.to)]
  <2>2. f.id = i /\ f.msg = m /\ f.index = LengthLog(m.to) + 1
    BY DEF FetchIndex
  <2>3. fetchers' = fetchers \cup {f}
    BY <2>1
  <2>. HIDE DEF f
  <2>. QED  BY <2>1, <2>2, <2>3
<1>2. \A g \in fetchers : g.id \in FetchId
  BY GoroutineTypes DEF FetcherType
<1>3. OneFetcherEach'
  BY <1>1, <1>2 DEF FetcherInv, OneFetcherEach, OneFetchLoop
<1>4. UNCHANGED <<commitLog, added, election>>
  BY DEF StartFetch
<1>5. FetchersInStep'
  BY <1>1, <1>4 DEF FetcherInv, FetchersInStep, OneFetchLoop, OnlyLeadersAdd, Campaigned, LengthLog
<1>. QED  BY <1>3, <1>5 DEF FetcherInv

LEMMA FetcherGoesOn ==
  ASSUME TypeOK, FetcherInv, NEW f \in fetchers, NEW r \in replies, FetchEntry(f, r)
  PROVE  FetcherInv'
<1>. DEFINE n == f.msg.to
            g == [f EXCEPT !.index = FetchIndex(LengthLog(n) + 1), !.left = @ - 1]
<1>1. n \in Node /\ r.obj \in Cmd /\ \A h \in fetchers : h.msg.to \in Node
  BY GoroutineTypes, PacketTypes DEF FetchEntry, AppendEntryType, FetchReplyType
<1>2. AddCommit(n, r.obj) /\ UNCHANGED <<added, election>>
  BY DEF FetchEntry
<1>3. /\ LengthLog(n) \in Nat /\ LengthLog(n)' = LengthLog(n) + 1
      /\ \A p \in Node : p # n => LengthLog(p)' = LengthLog(p)
  BY <1>1, <1>2, OtherLogs, LogLength DEF LengthLog
<1>4. g.msg = f.msg /\ g.index = LengthLog(n)' + 1
  <2>1. f \in FetcherType
    BY GoroutineTypes
  <2>. QED  BY <1>3, <2>1 DEF FetcherType, FetchIndex
<1>5. fetchers' = (fetchers \ {f}) \cup {g} \/ fetchers' = fetchers \ {f}
  BY DEF FetchEntry
<1>. HIDE DEF g
<1>6. OneFetcherEach'
  BY <1>4, <1>5 DEF FetcherInv, OneFetcherEach, OneFetchLoop
<1>7. FetchersInStep'
  <2>. SUFFICES ASSUME OneFetchLoop, OnlyLeadersAdd, NEW h \in fetchers',
                       ~Campaigned(h.msg.to)
                PROVE  h.index = LengthLog(h.msg.to)' + 1
    BY <1>2 DEF FetchersInStep, OneFetchLoop, OnlyLeadersAdd, Campaigned
  <2>1. CASE h = g
    BY <1>4, <2>1
  <2>2. CASE h # g
    <3>1. h \in fetchers /\ h.msg.to # n
      BY <1>5, <2>2 DEF FetcherInv, OneFetcherEach
    <3>. QED  BY <1>1, <1>3, <3>1 DEF FetcherInv, FetchersInStep
  <2>. QED  BY <2>1, <2>2
<1>. QED  BY <1>6, <1>7 DEF FetcherInv

LEMMA NextFetcher == TypeOK /\ CampaignInv /\ FetcherInv /\ [Next]_vars => FetcherInv'
<1>. SUFFICES ASSUME TypeOK, CampaignInv, FetcherInv, [Next]_vars PROVE FetcherInv'
  OBVIOUS
<1>0. \A f \in fetchers : f.msg.to \in Node
  BY GoroutineTypes DEF AppendEntryType
<1>1. CASE \E m \in net : StartFetch(m)
  BY <1>1, StartFetcher
<1>2. CASE \E f \in fetchers, r \in replies : FetchEntry(f, r)
  BY <1>2, FetcherGoesOn
<1>3. CASE \E n \in Node : Restart(n)
  <2>1. PICK n \in Node : Restart(n)
    BY <1>3
  <2>2. fetchers' \subseteq fetchers /\ \A f \in fetchers' : commitLog'[f.msg.to] = commitLog[f.msg.to]
    BY <1>0, <2>1 DEF Restart, TypeOK
  <2>. QED  BY <2>2, FetcherFrame DEF LengthLog
<1>4. CASE \E k \in commits : QuorumReached(k)
  <2>1. PICK k \in commits : QuorumReached(k)
    BY <1>4
  <2>2. Campaigned(k.node) /\ k.node \in Node /\ k.cmd \in Cmd
    BY <2>1 DEF QuorumReached, CampaignInv, RoundsByCampaigners, TypeOK, CommitType
  <2>3. \A p \in Node : ~Campaigned(p) => LengthLog(p)' = LengthLog(p)
    BY <2>1, <2>2, OtherLogs DEF QuorumReached, LengthLog
  <2>. QED  BY <1>0, <2>1, <2>3, FetcherFrame DEF QuorumReached
<1>5. CASE \E k \in commits, r \in replies : LeaderAnswers(k, r)
  <2>1. PICK k \in commits, r \in replies : LeaderAnswers(k, r)
    BY <1>5
  <2>2. Added(k).awaits = "leader"
    BY <2>1 DEF LeaderAnswers, Added
  <2>3. OnlyLeadersAdd' => Added(k) \notin added'
    BY <2>2 DEF OnlyLeadersAdd
  <2>4. OnlyLeadersAdd' => UNCHANGED commitLog
    BY <2>1, <2>3 DEF LeaderAnswers
  <2>. QED  BY <2>1, <2>4, FetcherFrame DEF LeaderAnswers, LengthLog
<1>6. ASSUME fetchers' \subseteq fetchers, UNCHANGED commitLog
      PROVE  FetcherInv'
  BY <1>6, FetcherFrame DEF LengthLog
<1>7. CASE \E n \in Node : LoopNext(n)
  BY <1>6, <1>7 DEF LoopNext, WatchLeader, RequestLeaderVotes, WinElection, LoseElection,
                    NewLeader, SendLogUpdates, LeaveLead
<1>8. CASE RpcNext
  BY <1>1, <1>2, <1>6, <1>8
     DEF RpcNext, TestTerm, HandleSameTermVote, DenyWrite, AcceptWrite, ConfirmEntry, ServeFetch,
         HandleNewerVote, HandleNewerAppend, HandleCandidateAppend, CommitWrite, FetchTimeout,
         ReceiveVote
<1>9. CASE CommitNext
  BY <1>4, <1>5, <1>6, <1>9 DEF CommitNext, CommitObject, QuorumTimeout, LeaderTimeout,
                                ReceiveConfirmation
<1>10. CASE UNCHANGED vars
  BY <1>6, <1>10 DEF vars
<1>. QED  BY <1>3, <1>7, <1>8, <1>9, <1>10 DEF Next

-----------------------------------------------------------------------------
(***************************************************************************)
(* The logs.  Agreement of any two logs is not inductive; that each is a   *)
(* prefix of the campaigner's is.  Before anybody campaigns every node can *)
(* be that one, so all logs are equal, and in fact empty.                  *)
(***************************************************************************)
PrefixOf(n, l) ==
  /\ LengthLog(n) <= LengthLog(l)
  /\ \A i \in 1..LengthLog(n) : commitLog[n][i] = commitLog[l][i]

\* Only l can have campaigned.
OnlyCampaigner(l) == \A n \in Peers(l) : ~Campaigned(n)

LogsFollow ==
  restarts = 0 /\ OnlyLeadersAdd /\ OneFetchLoop =>
    \A l \in Node : OnlyCampaigner(l) => \A n \in Node : PrefixOf(n, l)

LEMMA InitFollow == Init => LogsFollow
BY DEF Init, LogsFollow, PrefixOf, LengthLog

LEMMA FollowedLogsAgree == TypeOK /\ LogsFollow => StableLogsAgree
<1>. SUFFICES ASSUME TypeOK, LogsFollow, OnlyOneCampaigns, OnlyLeadersAdd, OneFetchLoop,
                     NEW n \in Node, NEW p \in Node, NEW i \in 1..LengthLog(n), i <= LengthLog(p)
              PROVE  commitLog[n][i] = commitLog[p][i]
  BY DEF StableLogsAgree, LogsAgree
<1>1. PICK l \in Node : OnlyCampaigner(l)
  BY DEF OnlyOneCampaigns, OnlyCampaigner, Campaigned
<1>2. PrefixOf(n, l) /\ PrefixOf(p, l)
  BY <1>1 DEF LogsFollow, OnlyOneCampaigns
<1>3. LengthLog(n) \in Nat /\ LengthLog(p) \in Nat
  BY LogLength
<1>4. i \in 1..LengthLog(p)
  BY <1>3
<1>. QED  BY <1>2, <1>4 DEF PrefixOf

\* Restarts are counted, so a run without restarts had none before.
LEMMA NoRestartBefore ==
  ASSUME TypeOK, [Next]_vars, restarts' = 0
  PROVE  restarts = 0 /\ ~\E n \in Node : Restart(n)
<1>1. ~\E n \in Node : Restart(n)
  BY DEF Restart, TypeOK
<1>2. UNCHANGED restarts
  BY <1>1 DEF vars, Next, LoopNext, WatchLeader, RequestLeaderVotes, WinElection, LoseElection,
         NewLeader, SendLogUpdates, LeaveLead, RpcNext, TestTerm, HandleSameTermVote, DenyWrite,
         AcceptWrite, ConfirmEntry, StartFetch, ServeFetch, HandleNewerVote, HandleNewerAppend,
         HandleCandidateAppend, CommitWrite, FetchTimeout, FetchEntry, ReceiveVote, CommitNext,
         CommitObject, QuorumReached, QuorumTimeout, LeaderTimeout, ReceiveConfirmation,
         LeaderAnswers
<1>. QED  BY <1>1, <1>2

\* While nobody restarts and only leaders add, logs change in two ways.
LEMMA LogSteps ==
  ASSUME TypeOK, [Next]_vars, restarts' = 0, OnlyLeadersAdd'
  PROVE  \/ UNCHANGED commitLog
         \/ \E k \in commits : QuorumReached(k)
         \/ \E f \in fetchers, r \in replies : FetchEntry(f, r)
<1>1. ASSUME NEW k \in commits, NEW r \in replies, LeaderAnswers(k, r)
      PROVE  UNCHANGED commitLog
  <2>1. Added(k).awaits = "leader"
    BY <1>1 DEF LeaderAnswers, Added
  <2>2. Added(k) \notin added'
    BY <2>1 DEF OnlyLeadersAdd
  <2>. QED  BY <1>1, <2>2 DEF LeaderAnswers
<1>2. CASE \E n \in Node : LoopNext(n)
  BY <1>2 DEF LoopNext, WatchLeader, RequestLeaderVotes, WinElection, LoseElection, NewLeader,
              SendLogUpdates, LeaveLead
<1>3. CASE RpcNext
  BY <1>3 DEF RpcNext, TestTerm, HandleSameTermVote, DenyWrite, AcceptWrite, ConfirmEntry,
              StartFetch, ServeFetch, HandleNewerVote, HandleNewerAppend, HandleCandidateAppend,
              CommitWrite, FetchTimeout, ReceiveVote
<1>4. CASE CommitNext
  BY <1>1, <1>4 DEF CommitNext, CommitObject, QuorumTimeout, LeaderTimeout, ReceiveConfirmation
<1>5. CASE UNCHANGED vars
  BY <1>5 DEF vars
<1>. QED  BY <1>2, <1>3, <1>4, <1>5, NoRestartBefore DEF Next

LEMMA NextFollow ==
  ASSUME TypeOK, CampaignInv, FetcherInv, FetchedEntryIsSendersEntry, LogsFollow, [Next]_vars
  PROVE  LogsFollow'
<1>. SUFFICES ASSUME restarts' = 0, OnlyLeadersAdd', OneFetchLoop, NEW l \in Node,
                     OnlyCampaigner(l)', NEW n \in Node
              PROVE  PrefixOf(n, l)'
  BY DEF LogsFollow, OneFetchLoop
<1>1. restarts = 0 /\ OnlyLeadersAdd
  BY NoRestartBefore, AddedStays DEF OnlyLeadersAdd
<1>2. \A p \in Node : p # l => ~Campaigned(p)
  BY CampaignsStay DEF OnlyCampaigner, Peers
<1>3. \A p \in Node : PrefixOf(p, l)
  BY <1>1, <1>2 DEF LogsFollow, OnlyCampaigner, Peers
<1>4. LengthLog(n) \in Nat /\ LengthLog(l) \in Nat
  BY LogLength
<1>5. CASE UNCHANGED commitLog
  BY <1>3, <1>5 DEF PrefixOf, LengthLog
<1>6. CASE \E k \in commits : QuorumReached(k)
  <2>1. PICK k \in commits : QuorumReached(k)
    BY <1>6
  <2>2. k.node = l /\ k.cmd \in Cmd
    BY <1>2, <2>1 DEF QuorumReached, CampaignInv, RoundsByCampaigners, TypeOK, CommitType
  <2>3. AddCommit(l, k.cmd)
    BY <2>1, <2>2 DEF QuorumReached
  <2>4. CASE n = l
    BY <1>4, <2>2, <2>3, <2>4, OtherLogs DEF PrefixOf
  <2>5. CASE n # l
    <3>1. commitLog'[n] = commitLog[n] /\ LengthLog(l)' = LengthLog(l) + 1
      BY <2>2, <2>3, <2>5, OtherLogs
    <3>2. \A i \in 1..LengthLog(l) : commitLog'[l][i] = commitLog[l][i]
      BY <2>2, <2>3, LogsGrow
    <3>. QED  BY <1>3, <1>4, <3>1, <3>2 DEF PrefixOf, LengthLog
  <2>. QED  BY <2>4, <2>5
<1>7. CASE \E f \in fetchers, r \in replies : FetchEntry(f, r)
  <2>1. PICK f \in fetchers, r \in replies : FetchEntry(f, r)
    BY <1>7
  <2>. DEFINE p == f.msg.to
  <2>2. p \in Node /\ r.obj \in Cmd /\ r.from \in Node /\ r.to = p
        /\ r.logIndex = f.index /\ r.type = "FetchMissingEntries"
    BY <2>1, GoroutineTypes, PacketTypes DEF FetchEntry, AppendEntryType, FetchReplyType
  <2>3. r.from = l /\ p # l
    BY <1>2, <2>2 DEF CampaignInv, FetchesFromCampaigners
  <2>4. f.index = LengthLog(p) + 1
    BY <1>1, <1>2, <2>2, <2>3 DEF FetcherInv, FetchersInStep
  <2>5. LengthLog(p) + 1 <= LengthLog(l) /\ r.obj = commitLog[l][LengthLog(p) + 1]
    BY <1>1, <1>4, <2>2, <2>3, <2>4 DEF FetchedEntryIsSendersEntry
  <2>6. AddCommit(p, r.obj)
    BY <2>1 DEF FetchEntry
  <2>7. commitLog'[l] = commitLog[l]
    BY <2>2, <2>3, <2>6, OtherLogs
  <2>8. CASE n # p
    BY <1>3, <2>2, <2>6, <2>7, <2>8, OtherLogs DEF PrefixOf, LengthLog
  <2>9. CASE n = p
    <3>1. /\ LengthLog(p)' = LengthLog(p) + 1
          /\ commitLog'[p][LengthLog(p) + 1] = r.obj
          /\ \A i \in 1..LengthLog(p) : commitLog'[p][i] = commitLog[p][i]
      BY <2>2, <2>6, OtherLogs, LogsGrow
    <3>2. PrefixOf(p, l) /\ LengthLog(p) \in Nat /\ LengthLog(l)' = LengthLog(l)
      BY <1>3, <2>2, <2>7, LogLength DEF LengthLog
    <3>3. ASSUME NEW i \in 1..LengthLog(p)' PROVE commitLog'[p][i] = commitLog'[l][i]
      <4>1. CASE i \in 1..LengthLog(p)
        BY <2>7, <3>1, <3>2, <4>1 DEF PrefixOf
      <4>2. CASE i = LengthLog(p) + 1
        BY <2>5, <2>7, <3>1, <4>2
      <4>. QED  BY <3>1, <3>2, <4>1, <4>2
    <3>. QED  BY <2>5, <2>9, <3>1, <3>2, <3>3 DEF PrefixOf
  <2>. QED  BY <2>8, <2>9
<1>. QED  BY <1>5, <1>6, <1>7, LogSteps

\* With one campaigner, objects added by leaders alone and one fetch loop at a
\* time at a node, any two logs agree wherever both have an entry (addCommit
\* and its callers, the fetch loop of handleRpc).
THEOREM StableLogsCorrect == Spec => []StableLogsAgree
<1>. DEFINE LogInv == /\ TypeOK /\ CampaignInv /\ FetcherInv
                      /\ FetchedEntryIsSendersEntry /\ LogsFollow
<1>1. Init => LogInv
  BY InitType, InitCampaign, InitFetcher, InitFollow DEF Init, FetchedEntryIsSendersEntry
<1>2. LogInv /\ [Next]_vars => LogInv'
  BY NextType, NextCampaign, NextFetcher, NextFetched, NextFollow
<1>3. LogInv => StableLogsAgree
  BY FollowedLogsAgree
<1>. QED  BY <1>1, <1>2, <1>3, PTL DEF Spec

-----------------------------------------------------------------------------
(***************************************************************************)
(* Each object once.  What may still bring an object into the log of the   *)
(* only campaigner is a round at it, a member's write on its way to it or  *)
(* a handler that has accepted one: there is one of them at most, and none *)
(* any more once it is added.                                              *)
(***************************************************************************)
Rounds(c) == {k \in commits : k.awaits = "peers" /\ k.cmd = c}
WritesTo(l, c) == {m \in net : m.type = "AppendEntry" /\ m.obj = c /\ m.to = l}
Writers(c) == {h \in handlers : h.at = "commit" /\ h.msg.obj = c}
LedAdditions(c) == {a \in added : a.awaits = "peers" /\ a.cmd = c}

OneWay(l, c) ==
  /\ \A j, k \in Rounds(c) : j = k
  /\ \A m, w \in WritesTo(l, c) : m = w
  /\ \A g, h \in Writers(c) : g = h
  /\ WritesTo(l, c) = {} \/ Writers(c) = {}
  /\ Rounds(c) = {} \/ (WritesTo(l, c) = {} /\ Writers(c) = {})
  /\ LedAdditions(c) = {} \/ (Rounds(c) = {} /\ WritesTo(l, c) = {} /\ Writers(c) = {})

OneWayEach == \A l \in Node, c \in Cmd : OnlyCampaigner(l) => OneWay(l, c)

LEMMA InitOneWay == Init => OneWayEach
BY DEF Init, OneWayEach, OneWay, Rounds, WritesTo, Writers, LedAdditions

LEMMA CampaignerBefore ==
  ASSUME TypeOK, [Next]_vars, NEW l \in Node, OnlyCampaigner(l)'
  PROVE  OnlyCampaigner(l)
BY CampaignsStay DEF OnlyCampaigner, Peers

\* Steps after which there is no more on its way than there was.
LEMMA OneWayFrame ==
  ASSUME TypeOK, OneWayEach, [Next]_vars,
         \A c \in Cmd : /\ Rounds(c)' \subseteq Rounds(c) /\ Writers(c)' \subseteq Writers(c)
                       /\ LedAdditions(c)' \subseteq LedAdditions(c),
         \A l \in Node, c \in Cmd : WritesTo(l, c)' \subseteq WritesTo(l, c)
  PROVE  OneWayEach'
<1>. SUFFICES ASSUME NEW l \in Node, NEW c \in Cmd, OnlyCampaigner(l)' PROVE OneWay(l, c)'
  BY DEF OneWayEach
<1>1. OneWay(l, c)
  BY CampaignerBefore DEF OneWayEach
<1>. QED  BY <1>1 DEF OneWay

LEMMA NoNewWay ==
  ASSUME commits' \subseteq commits, \A a \in added' : a \in added \/ a.awaits = "leader",
         \A m \in net' : m.type = "AppendEntry" => m \in net \/ m.obj = Nil,
         \A h \in handlers' : h.at = "commit" => h \in handlers
  PROVE  /\ \A c \in Cmd : /\ Rounds(c)' \subseteq Rounds(c) /\ Writers(c)' \subseteq Writers(c)
                          /\ LedAdditions(c)' \subseteq LedAdditions(c)
         /\ \A l \in Node, c \in Cmd : WritesTo(l, c)' \subseteq WritesTo(l, c)
BY NilAssumption DEF Rounds, WritesTo, Writers, LedAdditions

\* A round starts at the only campaigner, which does not write to itself.
LEMMA RoundStarts ==
  ASSUME NEW n, NEW d, NEW from, NEW conn, RequestAddObject(n, d, from, conn, net)
  PROVE  /\ \A c \in Cmd : c # d => Rounds(c)' = Rounds(c)
         /\ \E k : Rounds(d)' = Rounds(d) \cup {k}
         /\ \A c \in Cmd : WritesTo(n, c)' = WritesTo(n, c)
<1>. DEFINE k == [node |-> n, id |-> calls + 1, cmd |-> d, from |-> from, conn |-> conn,
                  awaits |-> "peers", votes |-> {}]
            M == {AppendEntryMsg(n, p, n, calls + 1, d) : p \in Peers(n)}
<1>1. k.cmd = d /\ k.awaits = "peers"
  OBVIOUS
<1>2. commits' = commits \cup {k} /\ net' = net \cup M
  BY DEF RequestAddObject
<1>3. \A m \in M : m.to # n
  BY DEF AppendEntryMsg, Peers
<1>. HIDE DEF k, M
<1>. QED  BY <1>1, <1>2, <1>3 DEF Rounds, WritesTo

\* A write is forwarded to some node, perhaps to the only campaigner.
LEMMA WriteForwarded ==
  ASSUME NEW n, NEW d, NEW from, NEW conn, SendLeaderWrite(n, d, from, conn)
  PROVE  /\ \A c \in Cmd : Rounds(c)' = Rounds(c)
         /\ \A l \in Node, c \in Cmd : c # d => WritesTo(l, c)' = WritesTo(l, c)
         /\ \E w : \A l \in Node : WritesTo(l, d)' \subseteq WritesTo(l, d) \cup {w}
<1>1. PICK k : commits' = commits \cup {k} /\ k.awaits = "leader"
  <2>. DEFINE k == [node |-> n, id |-> calls + 1, cmd |-> d, from |-> from, conn |-> conn,
                    awaits |-> "leader", votes |-> {}]
  <2>1. commits' = commits \cup {k} /\ k.awaits = "leader"
    BY DEF SendLeaderWrite
  <2>. HIDE DEF k
  <2>. QED  BY <2>1
<1>2. PICK w : net' = net \cup {w} /\ w.obj = d
  <2>1. PICK ladr \in LeaderAddrs(n) :
          net' = net \cup {AppendEntryMsg(n, ladr, ladr, calls + 1, d)}
    BY DEF SendLeaderWrite
  <2>2. AppendEntryMsg(n, ladr, ladr, calls + 1, d).obj = d
    BY DEF AppendEntryMsg
  <2>. QED  BY <2>1, <2>2
<1>. QED  BY <1>1, <1>2 DEF Rounds, WritesTo

\* A call starts with nothing else on its way.
LEMMA CallOneWay ==
  ASSUME TypeOK, CampaignInv, NEW n \in Node, NEW d \in Cmd, NEW from, NEW conn,
         \/ role[n] = "LEADER" /\ RequestAddObject(n, d, from, conn, net)
         \/ SendLeaderWrite(n, d, from, conn),
         UNCHANGED added, NEW l \in Node, OnlyCampaigner(l), NEW c \in Cmd, OneWay(l, c),
         Writers(c)' \subseteq Writers(c),
         c = d => /\ Rounds(c) = {} /\ WritesTo(l, c) = {} /\ LedAdditions(c) = {}
                  /\ Writers(c)' = {}
  PROVE  OneWay(l, c)'
<1>1. LedAdditions(c)' = LedAdditions(c)
  BY DEF LedAdditions
<1>2. CASE role[n] = "LEADER" /\ RequestAddObject(n, d, from, conn, net)
  <2>1. n = l
    BY <1>2 DEF CampaignInv, LeadersCampaigned, OnlyCampaigner, Peers
  <2>2. /\ c # d => Rounds(c)' = Rounds(c)
        /\ \E k : Rounds(d)' = Rounds(d) \cup {k}
        /\ WritesTo(l, c)' = WritesTo(l, c)
    BY <1>2, <2>1, RoundStarts
  <2>. QED  BY <1>1, <2>2 DEF OneWay
<1>3. CASE SendLeaderWrite(n, d, from, conn)
  <2>1. /\ Rounds(c)' = Rounds(c)
        /\ c # d => WritesTo(l, c)' = WritesTo(l, c)
        /\ \E w : WritesTo(l, d)' \subseteq WritesTo(l, d) \cup {w}
    BY <1>3, WriteForwarded
  <2>. QED  BY <1>1, <2>1 DEF OneWay
<1>. QED  BY <1>2, <1>3

\* The campaigner accepts a write: a handler takes the place of the message.
LEMMA WriteAccepted ==
  ASSUME TypeOK, CampaignInv, OneWayEach, NEW m \in net, AcceptWrite(m)
  PROVE  OneWayEach'
<1>. SUFFICES ASSUME NEW l \in Node, NEW c \in Cmd, OnlyCampaigner(l)' PROVE OneWay(l, c)'
  BY DEF OneWayEach
<1>0. RpcNext
  BY DEF RpcNext
<1>1. OneWay(l, c) /\ OnlyCampaigner(l)
  BY <1>0, CampaignerBefore DEF OneWayEach, Next
<1>. DEFINE h == [msg |-> m, at |-> "commit"]
<1>2. /\ m.type = "AppendEntry" /\ m.to \in Node /\ role[m.to] = "LEADER" /\ h.msg = m
      /\ net' = net \ {m} /\ handlers' = handlers \cup {h}
      /\ UNCHANGED <<commits, added>>
  BY PacketTypes DEF AcceptWrite, ToLeader, Incoming
<1>. HIDE DEF h
<1>3. /\ Rounds(c)' = Rounds(c) /\ LedAdditions(c)' = LedAdditions(c)
      /\ WritesTo(l, c)' = WritesTo(l, c) \ {m}
  BY <1>2 DEF Rounds, LedAdditions, WritesTo
<1>4. m.to = l
  BY <1>1, <1>2 DEF CampaignInv, LeadersCampaigned, OnlyCampaigner, Peers
<1>5. CASE m.obj = c
  <2>1. Writers(c)' \subseteq Writers(c) \cup {h} /\ m \in WritesTo(l, c)
    BY <1>2, <1>4, <1>5 DEF Writers, WritesTo
  <2>. QED  BY <1>1, <1>3, <2>1 DEF OneWay
<1>6. CASE m.obj # c
  <2>1. Writers(c)' \subseteq Writers(c)
    BY <1>2, <1>6 DEF Writers
  <2>. QED  BY <1>1, <1>3, <2>1 DEF OneWay
<1>. QED  BY <1>5, <1>6

\* The handler calls commitObject: a round, or a forwarded write, takes its place.
LEMMA WriteOneWay ==
  ASSUME TypeOK, CampaignInv, OneWayEach, NEW h \in handlers, CommitWrite(h)
  PROVE  OneWayEach'
<1>. SUFFICES ASSUME NEW l \in Node, NEW c \in Cmd, OnlyCampaigner(l)' PROVE OneWay(l, c)'
  BY DEF OneWayEach
<1>0. RpcNext
  BY DEF RpcNext
<1>1. OneWay(l, c) /\ OnlyCampaigner(l)
  BY <1>0, CampaignerBefore DEF OneWayEach, Next
<1>. DEFINE m == h.msg
<1>2. /\ m.obj \in Cmd /\ m.to \in Node /\ h.at = "commit"
      /\ handlers' = handlers \ {h} /\ UNCHANGED added
  BY WriteHandlers DEF CommitWrite
<1>3. Writers(c)' = Writers(c) \ {h}
  BY <1>2 DEF Writers
<1>4. CASE \/ role[m.to] = "LEADER" /\ RequestAddObject(m.to, m.obj, m.from, m.conn, net)
           \/ SendLeaderWrite(m.to, m.obj, m.from, m.conn)
  <2>1. ASSUME c = m.obj
        PROVE  /\ Rounds(c) = {} /\ WritesTo(l, c) = {} /\ LedAdditions(c) = {}
               /\ Writers(c)' = {}
    <3>1. h \in Writers(c)
      BY <1>2, <2>1 DEF Writers
    <3>. QED  BY <1>1, <1>3, <3>1 DEF OneWay
  <2>. QED  BY <1>1, <1>2, <1>3, <1>4, <2>1, CallOneWay
<1>5. CASE UNCHANGED <<commits, net>>
  <2>1. /\ Rounds(c)' = Rounds(c) /\ WritesTo(l, c)' = WritesTo(l, c)
        /\ LedAdditions(c)' = LedAdditions(c)
    BY <1>2, <1>5 DEF Rounds, WritesTo, LedAdditions
  <2>. QED  BY <1>1, <1>3, <2>1 DEF OneWay
<1>. QED  BY <1>4, <1>5 DEF CommitWrite

LEMMA CommandOneWay ==
  ASSUME TypeOK, CampaignInv, CommandInv, OneWayEach, NEW n \in Node, NEW d \in Cmd,
         CommitObject(n, d)
  PROVE  OneWayEach'
<1>. SUFFICES ASSUME NEW l \in Node, NEW c \in Cmd, OnlyCampaigner(l)' PROVE OneWay(l, c)'
  BY DEF OneWayEach
<1>0. CommitNext
  BY DEF CommitNext
<1>1. OneWay(l, c) /\ OnlyCampaigner(l)
  BY <1>0, CampaignerBefore DEF OneWayEach, Next
<1>2. /\ Rounds(d) = {} /\ WritesTo(l, d) = {} /\ Writers(d) = {} /\ LedAdditions(d) = {}
      /\ UNCHANGED <<added, handlers>>
  BY NilAssumption DEF CommitObject, CommandInv, OnlySubmitted, Submitted, Rounds, WritesTo,
                       Writers, LedAdditions
<1>3. LedAdditions(c)' = LedAdditions(c) /\ Writers(c)' = Writers(c)
  BY <1>2 DEF LedAdditions, Writers
<1>4. CASE \/ role[n] = "LEADER" /\ RequestAddObject(n, d, n, 0, net)
           \/ SendLeaderWrite(n, d, n, 0)
  BY <1>1, <1>2, <1>3, <1>4, CallOneWay
<1>5. CASE UNCHANGED <<commits, net>>
  <2>1. Rounds(c)' = Rounds(c) /\ WritesTo(l, c)' = WritesTo(l, c)
    BY <1>5 DEF Rounds, WritesTo
  <2>. QED  BY <1>1, <1>3, <2>1 DEF OneWay
<1>. QED  BY <1>4, <1>5 DEF CommitObject

\* A quorum makes the one round for an object the one addition of it.
LEMMA QuorumOneWay ==
  ASSUME TypeOK, OneWayEach, NEW k \in commits, QuorumReached(k)
  PROVE  OneWayEach'
<1>. SUFFICES ASSUME NEW l \in Node, NEW c \in Cmd, OnlyCampaigner(l)' PROVE OneWay(l, c)'
  BY DEF OneWayEach
<1>0. CommitNext
  BY DEF CommitNext
<1>1. OneWay(l, c)
  BY <1>0, CampaignerBefore DEF OneWayEach, Next
<1>2. /\ k.awaits = "peers" /\ commits' = commits \ {k} /\ added' = added \cup {Added(k)}
      /\ UNCHANGED <<net, handlers>>
  BY DEF QuorumReached
<1>3. Added(k).cmd = k.cmd
  BY DEF Added
<1>4. /\ Rounds(c)' = Rounds(c) \ {k} /\ WritesTo(l, c)' = WritesTo(l, c)
      /\ Writers(c)' = Writers(c)
  BY <1>2 DEF Rounds, WritesTo, Writers
<1>5. CASE c = k.cmd
  <2>1. k \in Rounds(c)
    BY <1>2, <1>5 DEF Rounds
  <2>. QED  BY <1>1, <1>4, <2>1 DEF OneWay
<1>6. CASE c # k.cmd
  <2>1. LedAdditions(c)' = LedAdditions(c)
    BY <1>2, <1>3, <1>6 DEF LedAdditions
  <2>. QED  BY <1>1, <1>4, <2>1 DEF OneWay
<1>. QED  BY <1>5, <1>6

\* A round counts a confirmation.
LEMMA ConfirmedOneWay ==
  ASSUME TypeOK, OneWayEach, NEW k \in commits, NEW r \in replies, ReceiveConfirmation(k, r)
  PROVE  OneWayEach'
<1>. SUFFICES ASSUME NEW l \in Node, NEW c \in Cmd, OnlyCampaigner(l)' PROVE OneWay(l, c)'
  BY DEF OneWayEach
<1>0. CommitNext
  BY DEF CommitNext
<1>1. OneWay(l, c)
  BY <1>0, CampaignerBefore DEF OneWayEach, Next
<1>. DEFINE j == [k EXCEPT !.votes = @ \cup {r.from}]
<1>2. j.cmd = k.cmd /\ j.awaits = k.awaits
  BY DEF TypeOK, CommitType
<1>3. commits' = (commits \ {k}) \cup {j} /\ UNCHANGED <<net, handlers, added>>
  BY DEF ReceiveConfirmation
<1>. HIDE DEF j
<1>4. /\ WritesTo(l, c)' = WritesTo(l, c) /\ Writers(c)' = Writers(c)
      /\ LedAdditions(c)' = LedAdditions(c)
  BY <1>3 DEF WritesTo, Writers, LedAdditions
<1>5. CASE k \in Rounds(c)
  <2>1. Rounds(c)' = (Rounds(c) \ {k}) \cup {j}
    BY <1>2, <1>3, <1>5 DEF Rounds
  <2>. QED  BY <1>1, <1>4, <1>5, <2>1 DEF OneWay
<1>6. CASE k \notin Rounds(c)
  <2>1. Rounds(c)' = Rounds(c)
    BY <1>2, <1>3, <1>6 DEF Rounds
  <2>. QED  BY <1>1, <1>4, <2>1 DEF OneWay
<1>. QED  BY <1>5, <1>6

LEMMA NextOneWay ==
  ASSUME TypeOK, CampaignInv, CommandInv, OneWayEach, [Next]_vars
  PROVE  OneWayEach'
<1>0. ASSUME commits' \subseteq commits, \A a \in added' : a \in added \/ a.awaits = "leader",
             \A m \in net' : m.type = "AppendEntry" => m \in net \/ m.obj = Nil,
             \A h \in handlers' : h.at = "commit" => h \in handlers
      PROVE  OneWayEach'
  BY <1>0, NoNewWay, OneWayFrame
<1>1. CASE \E n \in Node : LoopNext(n)
  <2>1. UNCHANGED <<commits, added>> /\ handlers' \subseteq handlers
    BY <1>1 DEF LoopNext, WatchLeader, RequestLeaderVotes, WinElection, LoseElection, NewLeader,
                SendLogUpdates, LeaveLead
  <2>2. \A m \in net' : m.type = "AppendEntry" => m \in net \/ m.obj = Nil
    BY <1>1 DEF LoopNext, WatchLeader, RequestLeaderVotes, WinElection, LoseElection, NewLeader,
                SendLogUpdates, LeaveLead, RequestVoteMsg, AppendEntryMsg
  <2>. QED  BY <1>0, <2>1, <2>2
<1>2. CASE \E n \in Node : Restart(n)
  BY <1>0, <1>2 DEF Restart
<1>3. CASE RpcNext
  <2>1. CASE \E m \in net : AcceptWrite(m)
    BY <2>1, WriteAccepted
  <2>2. CASE \E h \in handlers : CommitWrite(h)
    BY <2>2, WriteOneWay
  <2>3. CASE ~\/ \E m \in net : AcceptWrite(m)
              \/ \E h \in handlers : CommitWrite(h)
    BY <1>0, <1>3, <2>3, QuietRpc, WritersAccepted
  <2>. QED  BY <2>1, <2>2, <2>3
<1>4. CASE CommitNext
  <2>1. CASE \E n \in Node, c \in Cmd : CommitObject(n, c)
    BY <2>1, CommandOneWay
  <2>2. CASE \E k \in commits : QuorumReached(k)
    BY <2>2, QuorumOneWay
  <2>3. CASE \E k \in commits, r \in replies : ReceiveConfirmation(k, r)
    BY <2>3, ConfirmedOneWay
  <2>4. CASE \E k \in commits : QuorumTimeout(k) \/ LeaderTimeout(k)
    BY <1>0, <2>4 DEF QuorumTimeout, LeaderTimeout
  <2>5. CASE \E k \in commits, r \in replies : LeaderAnswers(k, r)
    <3>1. PICK k \in commits, r \in replies : LeaderAnswers(k, r)
      BY <2>5
    <3>2. Added(k).awaits = "leader"
      BY <3>1 DEF LeaderAnswers, Added
    <3>. QED  BY <1>0, <3>1, <3>2 DEF LeaderAnswers
  <2>. QED  BY <1>4, <2>1, <2>2, <2>3, <2>4, <2>5 DEF CommitNext
<1>5. CASE UNCHANGED vars
  BY <1>0, <1>5 DEF vars
<1>. QED  BY <1>1, <1>2, <1>3, <1>4, <1>5 DEF Next

\* The log of the only campaigner has no object twice.
CampaignerLogsOnce ==
  restarts = 0 /\ OnlyLeadersAdd =>
    \A l \in Node : OnlyCampaigner(l) =>
      \A i, j \in 1..LengthLog(l) : commitLog[l][i] = commitLog[l][j] => i = j

LEMMA NextLogsOnce ==
  ASSUME TypeOK, CampaignInv, OneWayEach, EntriesConfirmed, CampaignerLogsOnce, [Next]_vars
  PROVE  CampaignerLogsOnce'
<1>. SUFFICES ASSUME restarts' = 0, OnlyLeadersAdd', NEW l \in Node, OnlyCampaigner(l)',
                     NEW i \in 1..LengthLog(l)', NEW j \in 1..LengthLog(l)',
                     commitLog'[l][i] = commitLog'[l][j]
              PROVE  i = j
  BY DEF CampaignerLogsOnce
<1>1. restarts = 0 /\ OnlyLeadersAdd /\ OnlyCampaigner(l)
  BY NoRestartBefore, AddedStays, CampaignerBefore DEF OnlyLeadersAdd
<1>2. \A p, q \in 1..LengthLog(l) : commitLog[l][p] = commitLog[l][q] => p = q
  BY <1>1 DEF CampaignerLogsOnce
<1>3. CASE commitLog'[l] = commitLog[l]
  BY <1>2, <1>3 DEF LengthLog
<1>4. CASE \E k \in commits : QuorumReached(k)
  <2>1. PICK k \in commits : QuorumReached(k)
    BY <1>4
  <2>2. k.node = l /\ k.cmd \in Cmd /\ k.awaits = "peers"
    BY <1>1, <2>1 DEF QuorumReached, CampaignInv, RoundsByCampaigners, OnlyCampaigner, Peers,
                      TypeOK, CommitType
  <2>3. LedAdditions(k.cmd) = {}
    BY <1>1, <2>2 DEF OneWayEach, OneWay, Rounds
  <2>4. \A p \in 1..LengthLog(l) : commitLog[l][p] # k.cmd
    BY <1>1, <2>3 DEF EntriesConfirmed, OnlyLeadersAdd, LedAdditions
  <2>5. AddCommit(l, k.cmd)
    BY <2>1, <2>2 DEF QuorumReached
  <2>6. /\ LengthLog(l)' = LengthLog(l) + 1 /\ LengthLog(l) \in Nat
        /\ commitLog'[l][LengthLog(l) + 1] = k.cmd
        /\ \A p \in 1..LengthLog(l) : commitLog'[l][p] = commitLog[l][p]
    BY <2>2, <2>5, OtherLogs, LogsGrow, LogLength
  <2>. QED  BY <1>2, <2>4, <2>6
<1>5. CASE \E f \in fetchers, r \in replies : FetchEntry(f, r)
  <2>1. PICK f \in fetchers, r \in replies : FetchEntry(f, r)
    BY <1>5
  <2>2. f.msg.to \in Node /\ r.obj \in Cmd /\ r.from \in Node /\ r.to = f.msg.to
        /\ r.type = "FetchMissingEntries"
    BY <2>1, GoroutineTypes, PacketTypes DEF FetchEntry, AppendEntryType, FetchReplyType
  <2>3. f.msg.to # l
    BY <1>1, <2>2 DEF CampaignInv, FetchesFromCampaigners, OnlyCampaigner, Peers
  <2>4. AddCommit(f.msg.to, r.obj)
    BY <2>1 DEF FetchEntry
  <2>. QED  BY <1>3, <2>2, <2>3, <2>4, OtherLogs
<1>. QED  BY <1>3, <1>4, <1>5, LogSteps

LEMMA FollowedLogsOnce == TypeOK /\ LogsFollow /\ CampaignerLogsOnce => ObjectsLoggedOnce
<1>. SUFFICES ASSUME TypeOK, LogsFollow, CampaignerLogsOnce, OnlyOneCampaigns, OnlyLeadersAdd,
                     OneFetchLoop, NEW n \in Node,
                     NEW i \in 1..LengthLog(n), NEW j \in 1..LengthLog(n),
                     commitLog[n][i] = commitLog[n][j]
              PROVE  i = j
  BY DEF ObjectsLoggedOnce, LogsHaveObjectsOnce
<1>1. PICK l \in Node : OnlyCampaigner(l)
  BY DEF OnlyOneCampaigns, OnlyCampaigner, Campaigned
<1>2. PrefixOf(n, l)
  BY <1>1 DEF LogsFollow, OnlyOneCampaigns
<1>3. LengthLog(n) \in Nat /\ LengthLog(l) \in Nat
  BY LogLength
<1>4. i \in 1..LengthLog(l) /\ j \in 1..LengthLog(l)
  BY <1>2, <1>3 DEF PrefixOf
<1>5. commitLog[l][i] = commitLog[l][j]
  BY <1>2 DEF PrefixOf
<1>. QED  BY <1>1, <1>4, <1>5 DEF CampaignerLogsOnce, OnlyOneCampaigns

\* In the same circumstances an object typed once is once in a log at most, and
\* so created once: neither a write the member gave up nor a lost answer makes
\* it enter twice (commitObject, addCommit).
THEOREM ObjectsOnceCorrect == Spec => []ObjectsLoggedOnce
<1>. DEFINE OnceInv == /\ TypeOK /\ CampaignInv /\ FetcherInv /\ CommitInv /\ CommandInv
                       /\ FetchedEntryIsSendersEntry /\ LogsFollow
                       /\ OneWayEach /\ CampaignerLogsOnce
<1>1. Init => OnceInv
  BY InitType, InitCampaign, InitFetcher, InitCommit, InitCommand, InitFollow, InitOneWay
     DEF Init, FetchedEntryIsSendersEntry, CampaignerLogsOnce, LengthLog
<1>2. OnceInv /\ [Next]_vars => OnceInv'
  <2>1. CommitInv => EntriesConfirmed
    BY DEF CommitInv
  <2>. QED  BY <2>1, NextType, NextCampaign, NextFetcher, NextCommit, NextCommand, NextFetched,
                 NextFollow, NextOneWay, NextLogsOnce
<1>3. OnceInv => ObjectsLoggedOnce
  BY FollowedLogsOnce
<1>. QED  BY <1>1, <1>2, <1>3, PTL DEF Spec
=============================================================================
