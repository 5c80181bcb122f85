---------------------------- MODULE RaftProofs ----------------------------
(***************************************************************************)
(* Safety of Raft, for every set of nodes and commands and every bound: a  *)
(* leader was voted for by a majority, and every entry of a log has been   *)
(* confirmed.                                                              *)
(***************************************************************************)
EXTENDS RaftTypeProofs, FiniteSetTheorems

USE DEF nodeVars, loopVars, rpcVars, commitVars, historyVars

-----------------------------------------------------------------------------
(***************************************************************************)
(* The quorum of LockRoutingTableEntries and the node itself are a         *)
(* majority, whether the number of nodes is even or odd.                   *)
(***************************************************************************)
LEMMA QuorumIsMajority ==
  ASSUME NEW n \in Node, NEW V \in SUBSET (Node \ {n}), NEW S \in SUBSET Node,
         Cardinality(V) >= Quorum(n), V \subseteq S
  PROVE  IsMajority(S \cup {n})
<1>. DEFINE N == Cardinality(Node)
<1>1. IsFiniteSet(Node) /\ N \in Nat
  BY NodeAssumption, FS_CardinalityType
<1>2. Cardinality(Node \ {n}) = N - 1
  BY <1>1, FS_RemoveElement
<1>3. IsFiniteSet(V) /\ Cardinality(V) \in Nat
  BY <1>1, FS_Subset, FS_CardinalityType
<1>4. Cardinality(V \cup {n}) = Cardinality(V) + 1
  BY <1>3, FS_AddElement
<1>5. IsFiniteSet(S \cup {n}) /\ Cardinality(S \cup {n}) \in Nat
  BY <1>1, FS_Subset, FS_CardinalityType
<1>6. Cardinality(V \cup {n}) <= Cardinality(S \cup {n})
  BY <1>5, FS_Subset
<1>7. Cardinality(V) >= N \div 2
  BY <1>1, <1>2 DEF Quorum, Peers
<1>. QED  BY <1>1, <1>3, <1>4, <1>5, <1>6, <1>7 DEF IsMajority

-----------------------------------------------------------------------------
(***************************************************************************)
(* Elections.                                                              *)
(***************************************************************************)

\* Votes on their way were granted, and to another node.
VotesGranted ==
  /\ \A h \in handlers : h.msg.from # h.msg.to
  /\ \A r \in replies : r.type = "RequestVote" =>
       r.from \in Voters(r.to, r.conn) /\ r.from # r.to

\* The votes of the election a node counts, or has counted, were granted in it.
VotesCounted == \A n \in Node : votes[n] \subseteq Voters(n, election[n]) \ {n}

\* A node leads only after a quorum in its last election.
LeadersElected ==
  \A n \in Node : /\ role[n] = "LEADER" => loop[n] = "lead"
                  /\ role[n] = "LEADER" => Cardinality(votes[n]) >= Quorum(n)

ElectionInv == VotesGranted /\ VotesCounted /\ LeadersElected

LEMMA VotersGrow ==
  ASSUME NEW n, NEW e, grants \subseteq grants'
  PROVE  Voters(n, e) \subseteq Voters(n, e)'
BY DEF Voters

\* A granted vote is a vote in the election it was asked for.
LEMMA VoteRecorded ==
  ASSUME NEW m, SendReplyLeaderVote(m)
  PROVE  /\ grants \subseteq grants'
         /\ replies' = replies \cup {VoteReply(m)}
         /\ m.to \in Voters(m.from, m.conn)'
<1>. DEFINE g == [voter |-> m.to, candidate |-> m.from, election |-> m.conn, term |-> m.term,
                  length |-> LengthLog(m.to)]
<1>1. grants' = grants \cup {g} /\ replies' = replies \cup {VoteReply(m)}
  BY DEF SendReplyLeaderVote
<1>2. g \in grants' /\ g.voter = m.to /\ g.candidate = m.from /\ g.election = m.conn
  BY <1>1
<1>. HIDE DEF g
<1>. QED  BY <1>1, <1>2 DEF Voters

\* Steps that leave the elections alone keep their invariant.
LEMMA ElectionFrame ==
  ASSUME ElectionInv, UNCHANGED <<role, loop, election, votes, grants>>,
         \A h \in handlers' : h.msg.from # h.msg.to,
         \A r \in replies' : r.type = "RequestVote" => r \in replies
  PROVE  ElectionInv'
<1>1. \A n, e : Voters(n, e)' = Voters(n, e)
  BY DEF Voters
<1>2. VotesGranted'
  BY <1>1 DEF ElectionInv, VotesGranted
<1>3. VotesCounted'
  BY <1>1 DEF ElectionInv, VotesCounted
<1>4. LeadersElected'
  BY DEF ElectionInv, LeadersElected, Quorum, Peers
<1>. QED  BY <1>2, <1>3, <1>4 DEF ElectionInv

\* Steps in which a vote is granted, or nothing is, and no leader appears.
LEMMA VoteFrame ==
  ASSUME ElectionInv, NEW m, m.from # m.to,
         \/ SendReplyLeaderVote(m)
         \/ UNCHANGED <<replies, grants>>,
         \A h \in handlers' : h.msg.from # h.msg.to,
         UNCHANGED <<election, votes>>,
         \A n \in Node : role'[n] = "LEADER" => role[n] = "LEADER" /\ loop'[n] = loop[n]
  PROVE  ElectionInv'
<1>1. grants \subseteq grants'
  BY VoteRecorded
<1>2. \A n, e : Voters(n, e) \subseteq Voters(n, e)'
  BY <1>1, VotersGrow
<1>3. \A r \in replies' : r.type = "RequestVote" =>
        r.from \in Voters(r.to, r.conn)' /\ r.from # r.to
  <2>1. SUFFICES ASSUME NEW r \in replies', r.type = "RequestVote"
                 PROVE  r.from \in Voters(r.to, r.conn)' /\ r.from # r.to
    OBVIOUS
  <2>2. CASE r \in replies
    BY <1>2, <2>1, <2>2 DEF ElectionInv, VotesGranted
  <2>3. CASE r \notin replies
    <3>1. SendReplyLeaderVote(m) /\ r = VoteReply(m)
      BY <2>1, <2>3, VoteRecorded
    <3>. QED  BY <3>1, VoteRecorded DEF VoteReply
  <2>. QED  BY <2>2, <2>3
<1>4. VotesGranted'
  BY <1>3 DEF VotesGranted
<1>5. VotesCounted'
  BY <1>2 DEF ElectionInv, VotesCounted
<1>6. LeadersElected'
  BY DEF ElectionInv, LeadersElected, Quorum, Peers
<1>. QED  BY <1>4, <1>5, <1>6 DEF ElectionInv

\* Confirmations are neither votes nor fetched entries.
LEMMA ConfirmationReplies ==
  ASSUME NEW S, NEW pending, SendReplyObjectCommited(S, pending),
         \A x \in S : \E from, to, conn, c : x = Confirmation(from, to, conn, c)
  PROVE  \A r \in replies' : r.type # "AppendEntry" => r \in pending
BY DEF SendReplyObjectCommited, Confirmation, AppendEntryResponse

LEMMA ConfirmationsForm ==
  ASSUME NEW m
  PROVE  \A x \in Confirmations(m) : \E from, to, conn, c : x = Confirmation(from, to, conn, c)
BY DEF Confirmations

LEMMA ReportReplies ==
  ASSUME NEW k, NEW pending, ReportSuccess(k, pending)
  PROVE  \A r \in replies' : r.type # "AppendEntry" => r \in pending
BY ConfirmationReplies DEF ReportSuccess

LEMMA InitElection == Init => ElectionInv
BY DEF Init, ElectionInv, VotesGranted, VotesCounted, LeadersElected

\* Of the steps of startRAFT, RequestLeaderVotes starts a count afresh,
\* WinElection is the only one to make a leader, and the others make none.
LEMMA LoopElection ==
  ASSUME TypeOK, ElectionInv, NEW n \in Node, LoopNext(n)
  PROVE  ElectionInv'
<1>. role \in [Node -> Roles] /\ loop \in [Node -> LoopStates]
  BY DEF TypeOK
<1>0. /\ \A h \in handlers : h.msg.from # h.msg.to
      /\ \A p \in Node : role[p] = "LEADER" => loop[p] = "lead"
      /\ VotesGranted /\ VotesCounted /\ LeadersElected
  BY DEF ElectionInv, VotesGranted, LeadersElected
<1>1. CASE WatchLeader(n) \/ LoseElection(n) \/ LeaveLead(n)
  <2>1. /\ UNCHANGED <<election, votes, grants, handlers, replies>>
        /\ \A p \in Node : role'[p] = "LEADER" => role[p] = "LEADER" /\ loop'[p] = loop[p]
    BY <1>0, <1>1 DEF WatchLeader, LoseElection, LeaveLead, ChangeRole, Switch, Roles
  <2>2. VotesGranted'
    BY <1>0, <2>1 DEF VotesGranted, Voters
  <2>3. VotesCounted'
    BY <1>0, <2>1 DEF VotesCounted, Voters
  <2>4. LeadersElected'
    BY <1>0, <2>1 DEF LeadersElected, Quorum, Peers
  <2>. QED  BY <2>2, <2>3, <2>4 DEF ElectionInv
<1>2. CASE RequestLeaderVotes(n)
  <2>1. VotesGranted'
    BY <1>0, <1>2 DEF RequestLeaderVotes, VotesGranted, Voters
  <2>2. VotesCounted'
    BY <1>0, <1>2 DEF RequestLeaderVotes, VotesCounted, Voters, TypeOK
  <2>3. LeadersElected'
    BY <1>0, <1>2 DEF RequestLeaderVotes, LeadersElected, Quorum, Peers, TypeOK
  <2>. QED  BY <2>1, <2>2, <2>3 DEF ElectionInv
<1>3. CASE WinElection(n)
  <2>1. VotesGranted'
    BY <1>0, <1>3 DEF WinElection, VotesGranted, Voters
  <2>2. VotesCounted'
    BY <1>0, <1>3 DEF WinElection, VotesCounted, Voters
  <2>3. LeadersElected'
    BY <1>0, <1>3 DEF WinElection, LeadersElected, ChangeRole, Switch, Quorum, Peers
  <2>. QED  BY <2>1, <2>2, <2>3 DEF ElectionInv
<1>4. CASE \E h \in handlers : NewLeader(n, h)
  <2>1. PICK h \in handlers : NewLeader(n, h)
    BY <1>4
  <2>2. \A p \in Node : role'[p] = "LEADER" => role[p] = "LEADER" /\ loop'[p] = loop[p]
    BY <2>1 DEF NewLeader, ChangeRole, Switch
  <2>. QED  BY <1>0, <2>1, <2>2, VoteFrame DEF NewLeader
<1>5. CASE SendLogUpdates(n)
  BY <1>0, <1>5, ElectionFrame DEF SendLogUpdates
<1>. QED  BY <1>1, <1>2, <1>3, <1>4, <1>5 DEF LoopNext

LEMMA RpcElection ==
  ASSUME TypeOK, ElectionInv, RpcNext
  PROVE  ElectionInv'
<1>0. \A h \in handlers : h.msg.from # h.msg.to
  BY DEF ElectionInv, VotesGranted
<1>1. CASE \E m \in net : TestTerm(m)
  <2>1. PICK m \in net : TestTerm(m)
    BY <1>1
  <2>2. m.from # m.to
    BY <2>1 DEF TestTerm, Incoming, Peers
  <2>3. \A h \in handlers' : h.msg.from # h.msg.to
    BY <1>0, <2>1, <2>2 DEF TestTerm
  <2>. QED  BY <2>1, <2>3, ElectionFrame DEF TestTerm
<1>2. CASE \E m \in net : HandleSameTermVote(m)
  <2>1. PICK m \in net : HandleSameTermVote(m)
    BY <1>2
  <2>2. m.from # m.to
    BY <2>1 DEF HandleSameTermVote, Incoming, Peers
  <2>3. \A h \in handlers' : h.msg.from # h.msg.to
    BY <1>0, <2>1, <2>2 DEF HandleSameTermVote
  <2>. QED  BY <2>1, <2>2, <2>3, VoteFrame DEF HandleSameTermVote
<1>3. CASE \E h \in handlers : HandleNewerVote(h)
  <2>1. PICK h \in handlers : HandleNewerVote(h)
    BY <1>3
  <2>2. \A p \in Node : role'[p] = "LEADER" => role[p] = "LEADER" /\ loop'[p] = loop[p]
    BY <2>1 DEF HandleNewerVote, ChangeRole, TypeOK
  <2>3. h.msg.from # h.msg.to /\ \A x \in handlers' : x.msg.from # x.msg.to
    BY <1>0, <2>1 DEF HandleNewerVote
  <2>4. SendReplyLeaderVote(h.msg) \/ UNCHANGED <<replies, grants>>
    BY <2>1 DEF HandleNewerVote
  <2>. QED  BY <2>1, <2>2, <2>3, <2>4, VoteFrame DEF HandleNewerVote
<1>4. CASE \E h \in handlers : HandleNewerAppend(h)
  BY <1>0, <1>4, ElectionFrame DEF HandleNewerAppend
<1>5. CASE \E h \in handlers : HandleCandidateAppend(h)
  <2>1. PICK h \in handlers : HandleCandidateAppend(h)
    BY <1>5
  <2>2. [h EXCEPT !.at = "newLeaderCh"].msg = h.msg
    BY DEF TypeOK, HandlerType
  <2>3. \A x \in handlers' : x.msg.from # x.msg.to
    BY <1>0, <2>1, <2>2 DEF HandleCandidateAppend
  <2>. QED  BY <2>1, <2>3, ElectionFrame DEF HandleCandidateAppend
<1>6. CASE \E m \in net : DenyWrite(m)
  BY <1>0, <1>6, ElectionFrame DEF DenyWrite, AppendEntryResponse
<1>7. CASE \E m \in net : AcceptWrite(m) \/ StartFetch(m)
  BY <1>0, <1>7, ElectionFrame DEF AcceptWrite, StartFetch, Incoming, Peers
<1>8. CASE \E m \in net : ConfirmEntry(m)
  BY <1>0, <1>8, ElectionFrame, ConfirmationsForm, ConfirmationReplies DEF ConfirmEntry
<1>9. CASE \E m \in net : ServeFetch(m)
  BY <1>0, <1>9, ElectionFrame DEF ServeFetch, FetchReply
<1>10. CASE \E f \in fetchers : FetchTimeout(f)
  BY <1>0, <1>10, ElectionFrame DEF FetchTimeout
<1>11. CASE \E f \in fetchers, r \in replies : FetchEntry(f, r)
  <2>1. PICK f \in fetchers, r \in replies : FetchEntry(f, r)
    BY <1>11
  <2>2. \A x \in replies' : x.type = "RequestVote" => x \in replies
    BY <2>1, ConfirmationsForm, ConfirmationReplies DEF FetchEntry
  <2>. QED  BY <1>0, <2>1, <2>2, ElectionFrame DEF FetchEntry
<1>12. CASE \E r \in replies : ReceiveVote(r)
  <2>1. PICK r \in replies : ReceiveVote(r)
    BY <1>12
  <2>2. r.to \in Node /\ r.from \in Voters(r.to, election[r.to]) /\ r.from # r.to
    BY <2>1, PacketTypes DEF ReceiveVote, ElectionInv, VotesGranted
  <2>3. VotesGranted'
    BY <2>1 DEF ReceiveVote, ElectionInv, VotesGranted, Voters
  <2>4. VotesCounted'
    <3>1. \A n \in Node : votes'[n] \subseteq votes[n] \cup {r.from}
                         /\ (n # r.to => votes'[n] = votes[n])
      BY <2>1, <2>2 DEF ReceiveVote, TypeOK
    <3>2. \A n, e : Voters(n, e)' = Voters(n, e)
      BY <2>1 DEF ReceiveVote, Voters
    <3>. QED  BY <2>1, <2>2, <3>1, <3>2 DEF ReceiveVote, ElectionInv, VotesCounted
  <2>5. LeadersElected'
    BY <2>1, <2>2 DEF ReceiveVote, ElectionInv, LeadersElected, Quorum, Peers, TypeOK
  <2>. QED  BY <2>3, <2>4, <2>5 DEF ElectionInv
<1>13. CASE \E h \in handlers : CommitWrite(h)
  BY <1>0, <1>13, ElectionFrame DEF CommitWrite
<1>. QED
  BY <1>1, <1>2, <1>3, <1>4, <1>5, <1>6, <1>7, <1>8, <1>9, <1>10, <1>11, <1>12, <1>13
     DEF RpcNext

LEMMA CommitElection ==
  ASSUME TypeOK, ElectionInv, CommitNext
  PROVE  ElectionInv'
<1>0. \A h \in handlers : h.msg.from # h.msg.to
  BY DEF ElectionInv, VotesGranted
<1>1. UNCHANGED <<role, loop, election, votes, grants, handlers>>
  BY DEF CommitNext, CommitObject, QuorumReached, QuorumTimeout, LeaderTimeout,
         ReceiveConfirmation, LeaderAnswers
<1>2. \A r \in replies' : r.type = "RequestVote" => r \in replies
  <2>1. CASE \E k \in commits : QuorumReached(k)
    BY <2>1, ReportReplies DEF QuorumReached
  <2>2. CASE \E k \in commits, r \in replies : LeaderAnswers(k, r)
    BY <2>2, ReportReplies DEF LeaderAnswers
  <2>3. CASE ~\/ \E k \in commits : QuorumReached(k)
              \/ \E k \in commits, r \in replies : LeaderAnswers(k, r)
    BY <2>3 DEF CommitNext, CommitObject, QuorumTimeout, LeaderTimeout, ReceiveConfirmation
  <2>. QED  BY <2>1, <2>2, <2>3
<1>. QED  BY <1>0, <1>1, <1>2, ElectionFrame

LEMMA RestartElection ==
  ASSUME TypeOK, ElectionInv, NEW n \in Node, Restart(n)
  PROVE  ElectionInv'
<1>1. VotesGranted'
  BY DEF Restart, ElectionInv, VotesGranted, Voters
<1>2. VotesCounted'
  BY DEF Restart, ElectionInv, VotesCounted, Voters, TypeOK
<1>3. LeadersElected'
  BY DEF Restart, ChangeRole, ElectionInv, LeadersElected, Quorum, Peers, TypeOK
<1>. QED  BY <1>1, <1>2, <1>3 DEF ElectionInv

LEMMA NextElection == TypeOK /\ ElectionInv /\ [Next]_vars => ElectionInv'
<1>. SUFFICES ASSUME TypeOK, ElectionInv, [Next]_vars PROVE ElectionInv'
  OBVIOUS
<1>1. CASE \E n \in Node : LoopNext(n)
  BY <1>1, LoopElection
<1>2. CASE \E n \in Node : Restart(n)
  BY <1>2, RestartElection
<1>3. CASE RpcNext
  BY <1>3, RpcElection
<1>4. CASE CommitNext
  BY <1>4, CommitElection
<1>5. CASE UNCHANGED vars
  <2>. QED  BY <1>5, ElectionFrame DEF vars, ElectionInv, VotesGranted
<1>. QED  BY <1>1, <1>2, <1>3, <1>4, <1>5 DEF Next

LEMMA ElectionInvMajority == TypeOK /\ ElectionInv => LeaderHasMajority
<1>. SUFFICES ASSUME TypeOK, ElectionInv, NEW n \in Node, role[n] = "LEADER"
              PROVE  IsMajority(Voters(n, election[n]) \cup {n})
  BY DEF LeaderHasMajority
<1>1. Cardinality(votes[n]) >= Quorum(n)
  BY DEF ElectionInv, LeadersElected
<1>2. votes[n] \subseteq Voters(n, election[n]) \ {n}
  BY DEF ElectionInv, VotesCounted
<1>3. Voters(n, election[n]) \subseteq Node
  BY DEF Voters, TypeOK, GrantType
<1>4. votes[n] \in SUBSET (Node \ {n}) /\ Voters(n, election[n]) \in SUBSET Node
  BY <1>2, <1>3
<1>. QED  BY <1>1, <1>2, <1>4, QuorumIsMajority

\* However elections, handlers of old elections and restarts interleave, a node
\* is leader only with the votes of a majority, its own included, in the last
\* election it started (requestLeaderVotes, startRAFT).
THEOREM ElectionSafe == Spec => []LeaderHasMajority
<1>1. Init => TypeOK /\ ElectionInv
  BY InitType, InitElection
<1>2. TypeOK /\ ElectionInv /\ [Next]_vars => (TypeOK /\ ElectionInv)'
  BY NextType, NextElection
<1>. QED  BY <1>1, <1>2, ElectionInvMajority, PTL DEF Spec

-----------------------------------------------------------------------------
(***************************************************************************)
(* Commits.  The calls of commitObject are numbered, so whatever speaks of *)
(* call id, a waiting call, a request, a fetch loop or a handler started   *)
(* by one, or a confirmation, speaks of the same node and the same object. *)
(***************************************************************************)
Claimed(n, id, c) ==
  \/ \E k \in commits : k.node = n /\ k.id = id /\ k.cmd = c
  \/ \E k \in commits : k.from # k.node /\ k.from = n /\ k.conn = id /\ k.cmd = c
  \/ \E m \in net : m.type = "AppendEntry" /\ m.obj # Nil
                     /\ m.from = n /\ m.conn = id /\ m.obj = c
  \/ \E f \in fetchers : f.msg.obj # Nil
                          /\ f.msg.from = n /\ f.msg.conn = id /\ f.msg.obj = c
  \/ \E h \in handlers : h.at = "commit"
                          /\ h.msg.from = n /\ h.msg.conn = id /\ h.msg.obj = c
  \/ \E a \in accepts : a.for = n /\ a.conn = id /\ a.cmd = c

ClaimsAgree ==
  \A n, p \in Node, id \in Nat, c, d \in Cmd :
    Claimed(n, id, c) => id <= calls /\ (Claimed(p, id, d) => n = p /\ c = d)

\* A confirmation on its way was given, and by another node.
ConfirmationsGiven ==
  /\ \A f \in fetchers : f.msg.from # f.msg.to
  /\ \A r \in replies : r.type = "AppendEntry" /\ r.confirmed =>
       /\ r.from # r.to
       /\ \E a \in accepts : a.by = r.from /\ a.for = r.to /\ a.conn = r.conn

\* The confirmations a call has counted were given to it.
ConfirmationsCounted ==
  \A k \in commits : k.votes \subseteq Acceptors(k.node, k.id, k.cmd) \ {k.node}

\* A fetched entry comes from a log.
FetchedEntriesAdded ==
  \A r \in replies : r.type = "FetchMissingEntries" => \E a \in added : a.cmd = r.obj

CommitInv ==
  /\ ClaimsAgree /\ ConfirmationsGiven /\ ConfirmationsCounted /\ FetchedEntriesAdded
  /\ EntriesConfirmed

\* Handlers that are about to call commitObject do so for a member's write.
LEMMA WriteHandlers ==
  ASSUME TypeOK, NEW h \in handlers, h.at = "commit"
  PROVE  /\ h.msg \in AppendEntryType /\ h.msg.type = "AppendEntry"
         /\ h.msg.to \in Node /\ h.msg.from \in Node /\ h.msg.conn \in Nat
         /\ h.msg.obj \in Cmd /\ h.msg.obj # Nil
BY DEF TypeOK, HandlerType, AppendEntryType

\* They are started by a write that a leader accepts.
LEMMA WritersAccepted ==
  ASSUME TypeOK, RpcNext, NEW h \in handlers', h.at = "commit", h \notin handlers
  PROVE  /\ h.msg \in net /\ AcceptWrite(h.msg)
         /\ h.msg.type = "AppendEntry" /\ h.msg.obj # Nil /\ h.msg.from # h.msg.to
<1>1. CASE \E m \in net : TestTerm(m)
  <2>1. PICK m \in net : TestTerm(m)
    BY <1>1
  <2>2. PICK at \in {"candidate", "newer"} : h = [msg |-> m, at |-> at]
    BY <2>1 DEF TestTerm
  <2>. QED  BY <2>2
<1>2. CASE \E m \in net : HandleSameTermVote(m)
  BY <1>2 DEF HandleSameTermVote
<1>3. CASE \E m \in net : AcceptWrite(m)
  <2>1. PICK m \in net : AcceptWrite(m)
    BY <1>3
  <2>2. h.msg = m
    BY <2>1 DEF AcceptWrite
  <2>. QED  BY <2>1, <2>2 DEF AcceptWrite, Incoming, Peers, ToLeader
<1>4. CASE \E g \in handlers : HandleCandidateAppend(g)
  <2>1. PICK g \in handlers : HandleCandidateAppend(g)
    BY <1>4
  <2>2. [g EXCEPT !.at = "newLeaderCh"].at = "newLeaderCh"
    BY DEF TypeOK, HandlerType
  <2>. QED  BY <2>1, <2>2 DEF HandleCandidateAppend
<1>5. CASE ~\/ \E m \in net : TestTerm(m) \/ HandleSameTermVote(m) \/ AcceptWrite(m)
            \/ \E g \in handlers : HandleCandidateAppend(g)
  <2>1. handlers' \subseteq handlers
    BY <1>5 DEF RpcNext, DenyWrite, ConfirmEntry, StartFetch, ServeFetch, HandleNewerVote,
                HandleNewerAppend, CommitWrite, FetchTimeout, FetchEntry, ReceiveVote
  <2>. QED  BY <2>1
<1>. QED  BY <1>1, <1>2, <1>3, <1>4, <1>5

LEMMA InitCommit == Init => CommitInv
<1>. SUFFICES ASSUME Init PROVE CommitInv
  OBVIOUS
<1>1. ClaimsAgree
  BY DEF Init, ClaimsAgree, Claimed
<1>2. EntriesConfirmed
  BY DEF Init, EntriesConfirmed, LengthLog
<1>. QED  BY <1>1, <1>2 DEF Init, CommitInv, ConfirmationsGiven, ConfirmationsCounted,
                            FetchedEntriesAdded

\* Nobody speaks of a call that was not spoken of before.
NoNewClaims ==
  \A n \in Node, id \in Nat, c \in Cmd : Claimed(n, id, c)' => Claimed(n, id, c)

LEMMA ClaimsKept ==
  ASSUME ClaimsAgree, NoNewClaims, UNCHANGED calls
  PROVE  ClaimsAgree'
BY DEF ClaimsAgree, NoNewClaims

LEMMA ClaimsFresh ==
  ASSUME ClaimsAgree, calls \in Nat, calls' = calls + 1, NEW p, NEW d,
         \A n \in Node, id \in Nat, c \in Cmd :
           Claimed(n, id, c)' => Claimed(n, id, c) \/ (n = p /\ id = calls + 1 /\ c = d)
  PROVE  ClaimsAgree'
BY DEF ClaimsAgree

LEMMA AcceptorsGrow ==
  ASSUME accepts \subseteq accepts', NEW n, NEW id, NEW c
  PROVE  Acceptors(n, id, c) \subseteq Acceptors(n, id, c)'
BY DEF Acceptors

LEMMA AcceptorsType ==
  ASSUME TypeOK, NEW n, NEW id, NEW c
  PROVE  Acceptors(n, id, c) \in SUBSET Node
BY DEF Acceptors, TypeOK, AcceptType

LEMMA MajorityGrows ==
  ASSUME NEW S \in SUBSET Node, NEW T \in SUBSET Node, S \subseteq T, IsMajority(S)
  PROVE  IsMajority(T)
<1>1. IsFiniteSet(Node) /\ IsFiniteSet(S) /\ IsFiniteSet(T)
  BY NodeAssumption, FS_Subset
<1>2. Cardinality(S) \in Nat /\ Cardinality(T) \in Nat /\ Cardinality(Node) \in Nat
  BY <1>1, FS_CardinalityType
<1>3. Cardinality(S) <= Cardinality(T)
  BY <1>1, FS_Subset
<1>. QED  BY <1>2, <1>3 DEF IsMajority

\* An addition that was confirmed stays confirmed.
LEMMA AddedStaysConfirmed ==
  ASSUME TypeOK, TypeOK', EntriesConfirmed, accepts \subseteq accepts', NEW a \in added
  PROVE  LET by == Acceptors(a.node, a.conn, a.cmd) \ {a.node}
         IN (IF a.awaits = "peers" THEN IsMajority(by \cup {a.node}) ELSE by # {})'
<1>. DEFINE S == Acceptors(a.node, a.conn, a.cmd) \ {a.node}
            T == Acceptors(a.node, a.conn, a.cmd)' \ {a.node}
<1>1. S \subseteq T
  BY AcceptorsGrow
<1>2. a.node \in Node
  BY DEF TypeOK, AddedType
<1>3. S \cup {a.node} \in SUBSET Node /\ T \cup {a.node} \in SUBSET Node
  <2>1. Acceptors(a.node, a.conn, a.cmd) \in SUBSET Node
    BY AcceptorsType
  <2>2. Acceptors(a.node, a.conn, a.cmd)' \in SUBSET Node
    <3>1. accepts' \subseteq AcceptType
      BY DEF TypeOK
    <3>. QED  BY <3>1 DEF Acceptors, AcceptType
  <2>. QED  BY <1>2, <2>1, <2>2
<1>4. IF a.awaits = "peers" THEN IsMajority(S \cup {a.node}) ELSE S # {}
  BY DEF EntriesConfirmed
<1>5. IsMajority(S \cup {a.node}) => IsMajority(T \cup {a.node})
  <2>1. S \cup {a.node} \subseteq T \cup {a.node}
    BY <1>1
  <2>. HIDE DEF S, T
  <2>. QED  BY <1>3, <2>1, MajorityGrows
<1>. QED  BY <1>1, <1>4, <1>5 DEF IsMajority

\* Steps that add nothing to a log.
LEMMA CommitFrame ==
  ASSUME TypeOK, TypeOK', CommitInv, UNCHANGED <<commitLog, added>>,
         accepts \subseteq accepts', ClaimsAgree', ConfirmationsGiven',
         \A k \in commits' : \/ k \in commits
                             \/ k.votes \subseteq Acceptors(k.node, k.id, k.cmd)' \ {k.node},
         \A r \in replies' : r.type = "FetchMissingEntries" =>
                               r \in replies \/ \E a \in added : a.cmd = r.obj
  PROVE  CommitInv'
<1>1. ConfirmationsCounted'
  <2>. SUFFICES ASSUME NEW k \in commits'
                PROVE  k.votes \subseteq Acceptors(k.node, k.id, k.cmd)' \ {k.node}
    BY DEF ConfirmationsCounted
  <2>1. Acceptors(k.node, k.id, k.cmd) \subseteq Acceptors(k.node, k.id, k.cmd)'
    BY AcceptorsGrow
  <2>. QED  BY <2>1 DEF CommitInv, ConfirmationsCounted
<1>2. FetchedEntriesAdded'
  BY DEF CommitInv, FetchedEntriesAdded
<1>3. EntriesConfirmed'
  <2>1. \A n \in Node : \A i \in 1..LengthLog(n)' : \E a \in added' : a.cmd = commitLog'[n][i]
    BY DEF CommitInv, EntriesConfirmed, LengthLog
  <2>2. \A a \in added' :
          LET by == Acceptors(a.node, a.conn, a.cmd) \ {a.node}
          IN (IF a.awaits = "peers" THEN IsMajority(by \cup {a.node}) ELSE by # {})'
    BY AddedStaysConfirmed DEF CommitInv
  <2>. QED  BY <2>1, <2>2 DEF EntriesConfirmed
<1>. QED  BY <1>1, <1>2, <1>3 DEF CommitInv

\* ... and that confirm nothing and start no call.
LEMMA QuietFrame ==
  ASSUME TypeOK, TypeOK', CommitInv,
         UNCHANGED <<commitLog, added, accepts, calls>>, commits' \subseteq commits,
         \A m \in net' : m.type = "AppendEntry" /\ m.obj # Nil => m \in net,
         \A f \in fetchers' : /\ f.msg.from # f.msg.to
                              /\ f.msg.obj # Nil => \/ \E g \in fetchers : g.msg = f.msg
                                                    \/ f.msg \in net /\ f.msg.type = "AppendEntry",
         \A h \in handlers' : h.at = "commit" =>
           \/ h \in handlers
           \/ h.msg \in net /\ h.msg.type = "AppendEntry" /\ h.msg.obj # Nil,
         \A r \in replies' :
           \/ r \in replies
           \/ r.type = "RequestVote"
           \/ r.type = "AppendEntry" /\ ~r.confirmed
           \/ r.type = "FetchMissingEntries" /\ \E a \in added : a.cmd = r.obj
  PROVE  CommitInv'
<1>1. NoNewClaims
  <2>. SUFFICES ASSUME NEW n \in Node, NEW id \in Nat, NEW c \in Cmd, Claimed(n, id, c)'
                PROVE  Claimed(n, id, c)
    BY DEF NoNewClaims
  <2>. QED  BY DEF Claimed
<1>2. ClaimsAgree'
  BY <1>1, ClaimsKept DEF CommitInv
<1>3. ConfirmationsGiven'
  BY DEF CommitInv, ConfirmationsGiven
<1>. QED  BY <1>2, <1>3, CommitFrame

LEMMA LoopCommit ==
  ASSUME TypeOK, TypeOK', CommitInv, NEW n \in Node, LoopNext(n)
  PROVE  CommitInv'
<1>0. \A f \in fetchers : f.msg.from # f.msg.to
  BY DEF CommitInv, ConfirmationsGiven
<1>1. UNCHANGED <<commitLog, added, accepts, calls, commits, fetchers>>
  BY DEF LoopNext, WatchLeader, RequestLeaderVotes, WinElection, LoseElection, NewLeader,
         SendLogUpdates, LeaveLead
<1>2. \A m \in net' : m.type = "AppendEntry" /\ m.obj # Nil => m \in net
  BY DEF LoopNext, WatchLeader, RequestLeaderVotes, WinElection, LoseElection, NewLeader,
         SendLogUpdates, LeaveLead, RequestVoteMsg, AppendEntryMsg
<1>3. \A r \in replies' : r \in replies \/ r.type = "RequestVote"
  BY DEF LoopNext, WatchLeader, RequestLeaderVotes, WinElection, LoseElection, NewLeader,
         SendLogUpdates, LeaveLead, SendReplyLeaderVote, VoteReply
<1>4. \A h \in handlers' : h \in handlers
  BY DEF LoopNext, WatchLeader, RequestLeaderVotes, WinElection, LoseElection, NewLeader,
         SendLogUpdates, LeaveLead
<1>. QED  BY <1>0, <1>1, <1>2, <1>3, <1>4, QuietFrame

LEMMA RestartCommit ==
  ASSUME TypeOK, TypeOK', CommitInv, NEW n \in Node, Restart(n)
  PROVE  CommitInv'
<1>1. /\ UNCHANGED <<added, accepts, calls>> /\ commits' \subseteq commits
      /\ net' \subseteq net /\ fetchers' \subseteq fetchers /\ replies' \subseteq replies
      /\ handlers' \subseteq handlers
      /\ commitLog' = [commitLog EXCEPT ![n] = <<>>]
  BY DEF Restart
<1>2. NoNewClaims
  <2>. SUFFICES ASSUME NEW p \in Node, NEW id \in Nat, NEW c \in Cmd, Claimed(p, id, c)'
                PROVE  Claimed(p, id, c)
    BY DEF NoNewClaims
  <2>. QED  BY <1>1 DEF Claimed
<1>3. ClaimsAgree'
  BY <1>1, <1>2, ClaimsKept DEF CommitInv
<1>4. ConfirmationsGiven' /\ FetchedEntriesAdded'
  BY <1>1 DEF CommitInv, ConfirmationsGiven, FetchedEntriesAdded
<1>5. ConfirmationsCounted'
  BY <1>1 DEF CommitInv, ConfirmationsCounted, Acceptors
<1>6. EntriesConfirmed'
  <2>1. \A p \in Node : \A i \in 1..LengthLog(p)' : \E a \in added' : a.cmd = commitLog'[p][i]
    BY <1>1 DEF CommitInv, EntriesConfirmed, LengthLog, TypeOK
  <2>2. \A a \in added' :
          LET by == Acceptors(a.node, a.conn, a.cmd) \ {a.node}
          IN (IF a.awaits = "peers" THEN IsMajority(by \cup {a.node}) ELSE by # {})'
    BY <1>1, AddedStaysConfirmed DEF CommitInv
  <2>. QED  BY <2>1, <2>2 DEF EntriesConfirmed
<1>. QED  BY <1>3, <1>4, <1>5, <1>6 DEF CommitInv

\* The handlers that neither confirm an object nor add one.
LEMMA QuietRpcCommit ==
  ASSUME TypeOK, TypeOK', CommitInv,
         \/ \E m \in net : \/ TestTerm(m) \/ HandleSameTermVote(m) \/ DenyWrite(m)
                           \/ AcceptWrite(m) \/ StartFetch(m) \/ ServeFetch(m)
         \/ \E h \in handlers :
               HandleNewerVote(h) \/ HandleNewerAppend(h) \/ HandleCandidateAppend(h)
         \/ \E f \in fetchers : FetchTimeout(f)
         \/ \E r \in replies : ReceiveVote(r)
  PROVE  CommitInv'
<1>0. \A f \in fetchers : f.msg.from # f.msg.to
  BY DEF CommitInv, ConfirmationsGiven
<1>1. CASE \E m \in net : \/ TestTerm(m) \/ HandleSameTermVote(m) \/ DenyWrite(m)
                          \/ AcceptWrite(m)
  <2>1. \A h \in handlers' : h.at = "commit" =>
          \/ h \in handlers
          \/ h.msg \in net /\ h.msg.type = "AppendEntry" /\ h.msg.obj # Nil
    BY <1>1, WritersAccepted DEF RpcNext
  <2>. QED
    BY <1>0, <1>1, <2>1, QuietFrame
       DEF TestTerm, HandleSameTermVote, DenyWrite, AcceptWrite, SendReplyLeaderVote, VoteReply,
           AppendEntryResponse
<1>2. CASE \E m \in net : StartFetch(m)
  <2>1. PICK m \in net : StartFetch(m)
    BY <1>2
  <2>2. m.from # m.to /\ m.type = "AppendEntry"
    BY <2>1 DEF StartFetch, Incoming, Peers
  <2>3. PICK f : /\ f.msg = m /\ fetchers' = fetchers \cup {f}
                 /\ net' = (net \ {m}) \cup {SendFetchObjectAtIndex(f)}
    BY <2>1 DEF StartFetch
  <2>4. SendFetchObjectAtIndex(f).type = "FetchMissingEntries"
    BY DEF SendFetchObjectAtIndex, FetchMsg
  <2>5. UNCHANGED <<commitLog, added, accepts, calls, commits, handlers, replies>>
    BY <2>1 DEF StartFetch
  <2>6. \A x \in net' : x.type = "AppendEntry" /\ x.obj # Nil => x \in net
    BY <2>3, <2>4
  <2>7. \A x \in fetchers' : /\ x.msg.from # x.msg.to
                             /\ x.msg.obj # Nil => \/ \E g \in fetchers : g.msg = x.msg
                                                   \/ x.msg \in net /\ x.msg.type = "AppendEntry"
    BY <1>0, <2>2, <2>3
  <2>. QED  BY <2>5, <2>6, <2>7, QuietFrame
<1>3. CASE \E m \in net : ServeFetch(m)
  <2>1. PICK m \in net : ServeFetch(m)
    BY <1>3
  <2>2. m \in FetchType
    BY <2>1, PacketTypes DEF ServeFetch, Incoming
  <2>3. \E a \in added : a.cmd = GetLogItem(m.to, m.logIndex)
    <3>1. m.to \in Node /\ m.logIndex \in Nat \ {0} /\ LengthLog(m.to) \in Nat
      BY <2>2, LogLength DEF FetchType
    <3>2. m.logIndex \in 1..LengthLog(m.to)
      BY <2>1, <3>1 DEF ServeFetch
    <3>. QED  BY <3>1, <3>2 DEF CommitInv, EntriesConfirmed, GetLogItem
  <2>. QED  BY <1>0, <2>1, <2>3, QuietFrame DEF ServeFetch, FetchReply
<1>4. CASE \E h \in handlers :
             HandleNewerVote(h) \/ HandleNewerAppend(h) \/ HandleCandidateAppend(h)
  <2>1. \A h \in handlers' : h.at = "commit" =>
          \/ h \in handlers
          \/ h.msg \in net /\ h.msg.type = "AppendEntry" /\ h.msg.obj # Nil
    BY <1>4, WritersAccepted DEF RpcNext
  <2>. QED
    BY <1>0, <1>4, <2>1, QuietFrame
       DEF HandleNewerVote, HandleNewerAppend, HandleCandidateAppend, SendReplyLeaderVote,
           VoteReply
<1>5. CASE \E f \in fetchers : FetchTimeout(f)
  BY <1>0, <1>5, QuietFrame DEF FetchTimeout
<1>6. CASE \E r \in replies : ReceiveVote(r)
  BY <1>0, <1>6, QuietFrame DEF ReceiveVote
<1>. QED  BY <1>1, <1>2, <1>3, <1>4, <1>5, <1>6

\* A call of commitObject starts, for the node's own CLI or for a member.
LEMMA CallCommit ==
  ASSUME TypeOK, TypeOK', CommitInv, NEW n \in Node, NEW c \in Cmd, NEW from, NEW conn,
         NEW pending \in SUBSET net,
         RequestAddObject(n, c, from, conn, pending) \/ SendLeaderWrite(n, c, from, conn),
         \A id \in Nat : from # n /\ conn = id => Claimed(from, id, c),
         handlers' \subseteq handlers, UNCHANGED <<commitLog, added, accepts, fetchers, replies>>
  PROVE  CommitInv'
<1>1. calls \in Nat /\ calls' = calls + 1
  BY DEF RequestAddObject, SendLeaderWrite, TypeOK
<1>2. PICK k : /\ commits' = commits \cup {k}
               /\ k.node = n /\ k.id = calls + 1 /\ k.cmd = c /\ k.votes = {}
               /\ k.from = from /\ k.conn = conn
  <2>1. PICK awaits \in {"peers", "leader"} :
          commits' = commits \cup {[node |-> n, id |-> calls + 1, cmd |-> c, from |-> from,
                                   conn |-> conn, awaits |-> awaits, votes |-> {}]}
    BY DEF RequestAddObject, SendLeaderWrite
  <2>. DEFINE k == [node |-> n, id |-> calls + 1, cmd |-> c, from |-> from, conn |-> conn,
                    awaits |-> awaits, votes |-> {}]
  <2>2. /\ k.node = n /\ k.id = calls + 1 /\ k.cmd = c /\ k.votes = {}
        /\ k.from = from /\ k.conn = conn
    OBVIOUS
  <2>3. commits' = commits \cup {k}
    BY <2>1
  <2>. HIDE DEF k
  <2>. QED  BY <2>2, <2>3
<1>3. \A m \in net' : \/ m \in net
                      \/ m.from = n /\ m.conn = calls + 1 /\ m.obj = c
  BY DEF RequestAddObject, SendLeaderWrite, AppendEntryMsg
<1>4. \A p \in Node, id \in Nat, d \in Cmd :
        Claimed(p, id, d)' => Claimed(p, id, d) \/ (p = n /\ id = calls + 1 /\ d = c)
  <2>. SUFFICES ASSUME NEW p \in Node, NEW id \in Nat, NEW d \in Cmd, Claimed(p, id, d)'
                PROVE  Claimed(p, id, d) \/ (p = n /\ id = calls + 1 /\ d = c)
    OBVIOUS
  <2>1. CASE \E j \in commits' : j.node = p /\ j.id = id /\ j.cmd = d
    BY <1>2, <2>1 DEF Claimed
  <2>2. CASE \E j \in commits' : j.from # j.node /\ j.from = p /\ j.conn = id /\ j.cmd = d
    BY <1>2, <2>2 DEF Claimed
  <2>3. CASE \E m \in net' : m.type = "AppendEntry" /\ m.obj # Nil
                             /\ m.from = p /\ m.conn = id /\ m.obj = d
    BY <1>3, <2>3 DEF Claimed
  <2>4. CASE \E f \in fetchers' : f.msg.obj # Nil
                                  /\ f.msg.from = p /\ f.msg.conn = id /\ f.msg.obj = d
    BY <2>4 DEF Claimed
  <2>5. CASE \/ \E a \in accepts' : a.for = p /\ a.conn = id /\ a.cmd = d
             \/ \E h \in handlers' : h.at = "commit" /\ h.msg.from = p /\ h.msg.conn = id
                                       /\ h.msg.obj = d
    BY <2>5 DEF Claimed
  <2>. QED  BY <2>1, <2>2, <2>3, <2>4, <2>5 DEF Claimed
<1>5. ClaimsAgree'
  BY <1>1, <1>4, ClaimsFresh DEF CommitInv
<1>6. ConfirmationsGiven'
  BY DEF CommitInv, ConfirmationsGiven
<1>. QED  BY <1>2, <1>5, <1>6, CommitFrame

\* One confirmation more, about a call that was spoken of before, keeps what is
\* on its way confirmed.
LEMMA ConfirmationRecorded ==
  ASSUME CommitInv, NEW by, NEW for, NEW conn, NEW c, by # for,
         \A f \in fetchers' : f.msg.from # f.msg.to,
         NEW pending \in SUBSET replies,
         SendReplyObjectCommited({Confirmation(by, for, conn, c)}, pending)
  PROVE  /\ ConfirmationsGiven'
         /\ accepts \subseteq accepts'
         /\ \A a \in accepts' : a \in accepts \/ (a.for = for /\ a.conn = conn /\ a.cmd = c)
         /\ \A r \in replies' : r.type = "FetchMissingEntries" => r \in replies
<1>. DEFINE x == Confirmation(by, for, conn, c)
<1>1. /\ x.reply.from = by /\ x.reply.to = for /\ x.reply.conn = conn
      /\ x.reply.type = "AppendEntry"
      /\ x.trace.by = by /\ x.trace.for = for /\ x.trace.conn = conn /\ x.trace.cmd = c
  BY DEF Confirmation, AppendEntryResponse
<1>. HIDE DEF x
<1>2. replies' = pending \cup {x.reply} /\ accepts' = accepts \cup {x.trace}
  BY DEF SendReplyObjectCommited, x
<1>3. ConfirmationsGiven'
  BY <1>1, <1>2 DEF CommitInv, ConfirmationsGiven
<1>. QED  BY <1>1, <1>2, <1>3

LEMMA ConfirmCommit ==
  ASSUME TypeOK, TypeOK', CommitInv, NEW m \in net, ConfirmEntry(m)
  PROVE  CommitInv'
<1>1. /\ m \in AppendEntryType /\ m.from # m.to /\ m.type = "AppendEntry" /\ m.obj # Nil
  BY PacketTypes DEF ConfirmEntry, Incoming, Peers
<1>2. /\ UNCHANGED <<commitLog, added, calls, commits, handlers, fetchers>>
      /\ net' \subseteq net
      /\ SendReplyObjectCommited({Confirmation(m.to, m.from, m.conn, m.obj)}, replies)
  BY <1>1 DEF ConfirmEntry, Confirmations
<1>3. /\ ConfirmationsGiven' /\ accepts \subseteq accepts'
      /\ \A a \in accepts' : a \in accepts \/ (a.for = m.from /\ a.conn = m.conn /\ a.cmd = m.obj)
      /\ \A r \in replies' : r.type = "FetchMissingEntries" => r \in replies
  <2>1. \A f \in fetchers' : f.msg.from # f.msg.to
    BY <1>2 DEF CommitInv, ConfirmationsGiven
  <2>2. m.to # m.from /\ replies \in SUBSET replies
    BY <1>1
  <2>. QED  BY <1>2, <2>1, <2>2, ConfirmationRecorded
<1>4. NoNewClaims
  <2>. SUFFICES ASSUME NEW n \in Node, NEW id \in Nat, NEW c \in Cmd, Claimed(n, id, c)'
                PROVE  Claimed(n, id, c)
    BY DEF NoNewClaims
  <2>. QED  BY <1>1, <1>2, <1>3 DEF Claimed
<1>5. ClaimsAgree'
  BY <1>2, <1>4, ClaimsKept DEF CommitInv
<1>. QED  BY <1>2, <1>3, <1>5, CommitFrame

\* A log grows by an object that was added before or is added now.
LEMMA AddCommitEntries ==
  ASSUME TypeOK, EntriesConfirmed, NEW n \in Node, NEW c \in Cmd, AddCommit(n, c),
         added \subseteq added', \E a \in added' : a.cmd = c
  PROVE  \A p \in Node : \A i \in 1..LengthLog(p)' : \E a \in added' : a.cmd = commitLog'[p][i]
<1>. SUFFICES ASSUME NEW p \in Node, NEW i \in 1..LengthLog(p)'
              PROVE  \E a \in added' : a.cmd = commitLog'[p][i]
  OBVIOUS
<1>0. commitLog \in [Node -> Seq(Cmd)]
  BY DEF TypeOK
<1>1. CASE p # n
  <2>1. commitLog'[p] = commitLog[p]
    BY <1>0, <1>1 DEF AddCommit
  <2>. QED  BY <2>1 DEF EntriesConfirmed, LengthLog
<1>2. CASE p = n
  <2>1. commitLog'[p] = Append(commitLog[p], c)
    BY <1>0, <1>2 DEF AddCommit
  <2>2. CASE i = Len(commitLog[p]) + 1
    <3>1. commitLog'[p][i] = c
      BY <1>0, <2>1, <2>2
    <3>. QED  BY <3>1
  <2>3. CASE i # Len(commitLog[p]) + 1
    <3>1. i \in 1..Len(commitLog[p]) /\ commitLog'[p][i] = commitLog[p][i]
      BY <1>0, <2>1, <2>3 DEF LengthLog
    <3>. QED  BY <3>1 DEF EntriesConfirmed, LengthLog
  <2>. QED  BY <2>2, <2>3
<1>. QED  BY <1>1, <1>2

\* Steps that add an object to a log.
LEMMA AddFrame ==
  ASSUME TypeOK, TypeOK', CommitInv, NEW n \in Node, NEW c \in Cmd, AddCommit(n, c),
         added \subseteq added', \E a \in added' : a.cmd = c,
         \A a \in added' : a \notin added =>
            LET by == Acceptors(a.node, a.conn, a.cmd)' \ {a.node}
            IN IF a.awaits = "peers" THEN IsMajority(by \cup {a.node}) ELSE by # {},
         accepts \subseteq accepts', ClaimsAgree', ConfirmationsGiven', commits' \subseteq commits,
         \A r \in replies' : r.type = "FetchMissingEntries" => r \in replies
  PROVE  CommitInv'
<1>1. ConfirmationsCounted'
  <2>. SUFFICES ASSUME NEW k \in commits'
                PROVE  k.votes \subseteq Acceptors(k.node, k.id, k.cmd)' \ {k.node}
    BY DEF ConfirmationsCounted
  <2>1. Acceptors(k.node, k.id, k.cmd) \subseteq Acceptors(k.node, k.id, k.cmd)'
    BY AcceptorsGrow
  <2>. QED  BY <2>1 DEF CommitInv, ConfirmationsCounted
<1>2. FetchedEntriesAdded'
  BY DEF CommitInv, FetchedEntriesAdded
<1>3. EntriesConfirmed'
  <2>1. \A p \in Node : \A i \in 1..LengthLog(p)' : \E a \in added' : a.cmd = commitLog'[p][i]
    BY AddCommitEntries DEF CommitInv
  <2>2. \A a \in added' :
          LET by == Acceptors(a.node, a.conn, a.cmd) \ {a.node}
          IN (IF a.awaits = "peers" THEN IsMajority(by \cup {a.node}) ELSE by # {})'
    BY AddedStaysConfirmed DEF CommitInv, IsMajority
  <2>. QED  BY <2>1, <2>2 DEF EntriesConfirmed
<1>. QED  BY <1>1, <1>2, <1>3 DEF CommitInv

LEMMA FetchCommit ==
  ASSUME TypeOK, TypeOK', CommitInv, NEW f \in fetchers, NEW r \in replies, FetchEntry(f, r)
  PROVE  CommitInv'
<1>1. /\ f.msg \in AppendEntryType /\ f.msg.to \in Node /\ f.msg.from # f.msg.to
  <2>1. f.msg \in AppendEntryType
    BY GoroutineTypes
  <2>. QED  BY <2>1 DEF AppendEntryType, CommitInv, ConfirmationsGiven
<1>2. r.obj \in Cmd /\ \E a \in added : a.cmd = r.obj
  <2>1. r \in FetchReplyType
    BY PacketTypes DEF FetchEntry
  <2>. QED  BY <2>1 DEF FetchReplyType, FetchEntry, CommitInv, FetchedEntriesAdded
<1>3. AddCommit(f.msg.to, r.obj) /\ UNCHANGED <<added, commits, calls, handlers>>
  BY DEF FetchEntry
<1>. DEFINE g == [f EXCEPT !.index = FetchIndex(LengthLog(f.msg.to) + 1), !.left = @ - 1]
<1>4. CASE /\ fetchers' = (fetchers \ {f}) \cup {g}
           /\ net' = net \cup {SendFetchObjectAtIndex(g)}
           /\ replies' = replies \ {r}
           /\ UNCHANGED accepts
  <2>1. g.msg = f.msg
    BY GoroutineTypes DEF FetcherType
  <2>. HIDE DEF g
  <2>2. SendFetchObjectAtIndex(g).type = "FetchMissingEntries"
    BY DEF SendFetchObjectAtIndex, FetchMsg
  <2>3. NoNewClaims
    <3>. SUFFICES ASSUME NEW n \in Node, NEW id \in Nat, NEW c \in Cmd, Claimed(n, id, c)'
                  PROVE  Claimed(n, id, c)
      BY DEF NoNewClaims
    <3>. QED  BY <1>3, <1>4, <2>1, <2>2 DEF Claimed
  <2>4. ClaimsAgree'
    BY <1>3, <2>3, ClaimsKept DEF CommitInv
  <2>5. ConfirmationsGiven'
    BY <1>1, <1>4, <2>1 DEF CommitInv, ConfirmationsGiven
  <2>. QED  BY <1>1, <1>2, <1>3, <1>4, <2>4, <2>5, AddFrame
<1>5. CASE /\ fetchers' = fetchers \ {f}
           /\ SendReplyObjectCommited(Confirmations(f.msg), replies \ {r})
           /\ UNCHANGED net
  <2>1. \A x \in fetchers' : x.msg.from # x.msg.to
    BY <1>5 DEF CommitInv, ConfirmationsGiven
  <2>2. /\ ConfirmationsGiven' /\ accepts \subseteq accepts'
        /\ \A a \in accepts' : \/ a \in accepts
                               \/ /\ f.msg.obj # Nil
                                  /\ a.for = f.msg.from /\ a.conn = f.msg.conn
                                  /\ a.cmd = f.msg.obj
        /\ \A x \in replies' : x.type = "FetchMissingEntries" => x \in replies
    <3>1. CASE f.msg.obj = Nil
      <4>1. accepts' = accepts /\ replies' = replies \ {r}
        BY <1>5, <3>1 DEF SendReplyObjectCommited, Confirmations
      <4>. QED  BY <2>1, <4>1 DEF CommitInv, ConfirmationsGiven
    <3>2. CASE f.msg.obj # Nil
      <4>1. SendReplyObjectCommited(
              {Confirmation(f.msg.to, f.msg.from, f.msg.conn, f.msg.obj)}, replies \ {r})
        BY <1>5, <3>2 DEF Confirmations
      <4>. QED  BY <1>1, <2>1, <3>2, <4>1, ConfirmationRecorded
    <3>. QED  BY <3>1, <3>2
  <2>3. NoNewClaims
    <3>. SUFFICES ASSUME NEW n \in Node, NEW id \in Nat, NEW c \in Cmd, Claimed(n, id, c)'
                  PROVE  Claimed(n, id, c)
      BY DEF NoNewClaims
    <3>. QED  BY <1>3, <1>5, <2>2 DEF Claimed
  <2>4. ClaimsAgree'
    BY <1>3, <2>3, ClaimsKept DEF CommitInv
  <2>. QED  BY <1>1, <1>2, <1>3, <2>2, <2>4, AddFrame
<1>. QED  BY <1>4, <1>5 DEF FetchEntry

\* A confirmation that reaches the call it was given for is about its object.
LEMMA AnswerIsForCall ==
  ASSUME TypeOK, CommitInv, NEW k \in commits, NEW r \in replies,
         r.type = "AppendEntry", r.to = k.node, r.conn = k.id, r.confirmed
  PROVE  r.from \in Acceptors(k.node, k.id, k.cmd) \ {k.node}
<1>1. PICK a \in accepts : a.by = r.from /\ a.for = k.node /\ a.conn = k.id
  BY DEF CommitInv, ConfirmationsGiven
<1>2. r.from # k.node
  BY DEF CommitInv, ConfirmationsGiven
<1>3. k.node \in Node /\ k.id \in Nat /\ k.cmd \in Cmd /\ a.cmd \in Cmd
  BY DEF TypeOK, CommitType, AcceptType
<1>4. Claimed(k.node, k.id, k.cmd) /\ Claimed(k.node, k.id, a.cmd)
  BY <1>1 DEF Claimed
<1>5. a.cmd = k.cmd
  BY <1>3, <1>4 DEF CommitInv, ClaimsAgree
<1>. QED  BY <1>1, <1>2, <1>5 DEF Acceptors

\* The report of a success that goes to a member speaks of the member's call.
LEMMA ReportCommit ==
  ASSUME TypeOK, CommitInv, NEW k \in commits, NEW pending \in SUBSET replies,
         ReportSuccess(k, pending), UNCHANGED fetchers
  PROVE  /\ ConfirmationsGiven' /\ accepts \subseteq accepts'
         /\ \A a \in accepts' : \/ a \in accepts
                                \/ /\ k.from # k.node
                                   /\ a.for = k.from /\ a.conn = k.conn /\ a.cmd = k.cmd
         /\ \A x \in replies' : x.type = "FetchMissingEntries" => x \in replies
<1>1. CASE replies' = pending /\ UNCHANGED accepts
  BY <1>1 DEF CommitInv, ConfirmationsGiven
<1>2. CASE /\ k.from # k.node
           /\ SendReplyObjectCommited({Confirmation(k.node, k.from, k.conn, k.cmd)}, pending)
  <2>1. \A f \in fetchers' : f.msg.from # f.msg.to
    BY DEF CommitInv, ConfirmationsGiven
  <2>. QED  BY <1>2, <2>1, ConfirmationRecorded
<1>. QED  BY <1>1, <1>2 DEF ReportSuccess

LEMMA CommitStepsCommit ==
  ASSUME TypeOK, TypeOK', CommitInv, CommitNext
  PROVE  CommitInv'
<1>0. /\ \A f \in fetchers : f.msg.from # f.msg.to
      /\ \A k \in commits : k.node \in Node /\ k.cmd \in Cmd /\ k.from \in Node
                            /\ k.id \in Nat /\ k.conn \in Nat
  BY DEF CommitInv, ConfirmationsGiven, TypeOK, CommitType
<1>1. CASE \E n \in Node, c \in Cmd : CommitObject(n, c)
  <2>1. PICK n \in Node, c \in Cmd : CommitObject(n, c)
    BY <1>1
  <2>2. UNCHANGED <<commitLog, added, accepts, handlers, fetchers, replies>>
    BY <2>1 DEF CommitObject
  <2>3. CASE RequestAddObject(n, c, n, 0, net) \/ SendLeaderWrite(n, c, n, 0)
    BY <2>2, <2>3, CallCommit
  <2>4. CASE UNCHANGED <<commits, calls, net>>
    BY <1>0, <2>2, <2>4, QuietFrame
  <2>. QED  BY <2>1, <2>3, <2>4 DEF CommitObject
<1>2. CASE \E k \in commits : QuorumTimeout(k) \/ LeaderTimeout(k)
  BY <1>0, <1>2, QuietFrame DEF QuorumTimeout, LeaderTimeout
<1>3. CASE \E k \in commits, r \in replies : ReceiveConfirmation(k, r)
  <2>1. PICK k \in commits, r \in replies : ReceiveConfirmation(k, r)
    BY <1>3
  <2>. DEFINE j == [k EXCEPT !.votes = @ \cup {r.from}]
  <2>2. /\ j.node = k.node /\ j.id = k.id /\ j.cmd = k.cmd /\ j.from = k.from
        /\ j.conn = k.conn /\ j.votes = k.votes \cup {r.from}
    BY DEF TypeOK, CommitType
  <2>. HIDE DEF j
  <2>3. /\ commits' = (commits \ {k}) \cup {j} /\ replies' \subseteq replies
        /\ UNCHANGED <<commitLog, added, accepts, calls, net, handlers, fetchers>>
    BY <2>1 DEF ReceiveConfirmation, j
  <2>4. j.votes \subseteq Acceptors(j.node, j.id, j.cmd)' \ {j.node}
    <3>1. r.from \in Acceptors(k.node, k.id, k.cmd) \ {k.node}
      BY <2>1, AnswerIsForCall DEF ReceiveConfirmation, Confirmed
    <3>2. k.votes \subseteq Acceptors(k.node, k.id, k.cmd) \ {k.node}
      BY DEF CommitInv, ConfirmationsCounted
    <3>3. Acceptors(k.node, k.id, k.cmd)' = Acceptors(k.node, k.id, k.cmd)
      BY <2>3 DEF Acceptors
    <3>. QED  BY <2>2, <3>1, <3>2, <3>3
  <2>5. NoNewClaims
    <3>. SUFFICES ASSUME NEW n \in Node, NEW id \in Nat, NEW c \in Cmd, Claimed(n, id, c)'
                  PROVE  Claimed(n, id, c)
      BY DEF NoNewClaims
    <3>. QED  BY <2>2, <2>3 DEF Claimed
  <2>6. ClaimsAgree'
    BY <2>3, <2>5, ClaimsKept DEF CommitInv
  <2>7. ConfirmationsGiven'
    BY <2>3 DEF CommitInv, ConfirmationsGiven
  <2>. QED  BY <2>3, <2>4, <2>6, <2>7, CommitFrame
<1>4. CASE \E k \in commits : QuorumReached(k)
  <2>1. PICK k \in commits : QuorumReached(k)
    BY <1>4
  <2>2. /\ AddCommit(k.node, k.cmd) /\ added' = added \cup {Added(k)}
        /\ commits' \subseteq commits /\ UNCHANGED <<calls, net, handlers, fetchers>>
    BY <2>1 DEF QuorumReached
  <2>3. /\ Added(k).node = k.node /\ Added(k).conn = k.id /\ Added(k).cmd = k.cmd
        /\ Added(k).awaits = "peers"
    BY <2>1 DEF Added, QuorumReached
  <2>4. /\ ConfirmationsGiven' /\ accepts \subseteq accepts'
        /\ \A a \in accepts' : \/ a \in accepts
                               \/ /\ k.from # k.node
                                  /\ a.for = k.from /\ a.conn = k.conn /\ a.cmd = k.cmd
        /\ \A x \in replies' : x.type = "FetchMissingEntries" => x \in replies
    BY <2>1, <2>2, ReportCommit DEF QuorumReached
  <2>5. NoNewClaims
    <3>. SUFFICES ASSUME NEW n \in Node, NEW id \in Nat, NEW c \in Cmd, Claimed(n, id, c)'
                  PROVE  Claimed(n, id, c)
      BY DEF NoNewClaims
    <3>. QED  BY <2>2, <2>4 DEF Claimed
  <2>6. ClaimsAgree'
    BY <2>2, <2>5, ClaimsKept DEF CommitInv
  <2>7. IsMajority((Acceptors(k.node, k.id, k.cmd)' \ {k.node}) \cup {k.node})
    <3>. DEFINE T == Acceptors(k.node, k.id, k.cmd)' \ {k.node}
    <3>1. k.votes \subseteq Acceptors(k.node, k.id, k.cmd) \ {k.node}
      BY DEF CommitInv, ConfirmationsCounted
    <3>2. Acceptors(k.node, k.id, k.cmd) \subseteq Acceptors(k.node, k.id, k.cmd)'
      BY <2>4, AcceptorsGrow
    <3>3. accepts' \subseteq AcceptType
      BY DEF TypeOK
    <3>4. Acceptors(k.node, k.id, k.cmd)' \subseteq Node
      BY <3>3 DEF Acceptors, AcceptType
    <3>5. k.votes \subseteq T /\ T \in SUBSET Node /\ k.votes \in SUBSET (Node \ {k.node})
      BY <3>1, <3>2, <3>4
    <3>. HIDE DEF T
    <3>6. IsMajority(T \cup {k.node})
      BY <1>0, <2>1, <3>5, QuorumIsMajority DEF QuorumReached
    <3>. QED  BY <3>6 DEF T
  <2>. QED  BY <1>0, <2>2, <2>3, <2>4, <2>6, <2>7, AddFrame
<1>5. CASE \E k \in commits, r \in replies : LeaderAnswers(k, r)
  <2>1. PICK k \in commits, r \in replies : LeaderAnswers(k, r)
    BY <1>5
  <2>2. CASE ~Confirmed(r)
    BY <1>0, <2>1, <2>2, QuietFrame DEF LeaderAnswers
  <2>3. CASE Confirmed(r)
    <3>1. /\ AddCommit(k.node, k.cmd) /\ added' = added \cup {Added(k)}
          /\ commits' \subseteq commits /\ UNCHANGED <<calls, net, handlers, fetchers>>
      BY <2>1, <2>3 DEF LeaderAnswers
    <3>2. /\ ConfirmationsGiven' /\ accepts \subseteq accepts'
          /\ \A a \in accepts' : \/ a \in accepts
                                 \/ /\ k.from # k.node
                                    /\ a.for = k.from /\ a.conn = k.conn /\ a.cmd = k.cmd
          /\ \A x \in replies' : x.type = "FetchMissingEntries" => x \in replies
      BY <2>1, <2>3, <3>1, ReportCommit DEF LeaderAnswers
    <3>3. /\ Added(k).node = k.node /\ Added(k).conn = k.id /\ Added(k).cmd = k.cmd
          /\ Added(k).awaits = "leader"
      BY <2>1 DEF Added, LeaderAnswers
    <3>4. r.from \in Acceptors(k.node, k.id, k.cmd)' \ {k.node}
      <4>1. r.from \in Acceptors(k.node, k.id, k.cmd) \ {k.node}
        BY <2>1, <2>3, AnswerIsForCall DEF LeaderAnswers, Confirmed
      <4>. QED  BY <3>2, <4>1, AcceptorsGrow
    <3>5. NoNewClaims
      <4>. SUFFICES ASSUME NEW n \in Node, NEW id \in Nat, NEW c \in Cmd, Claimed(n, id, c)'
                    PROVE  Claimed(n, id, c)
        BY DEF NoNewClaims
      <4>. QED  BY <3>1, <3>2 DEF Claimed
    <3>6. ClaimsAgree'
      BY <3>1, <3>5, ClaimsKept DEF CommitInv
    <3>. QED  BY <1>0, <3>1, <3>2, <3>3, <3>4, <3>6, AddFrame
  <2>. QED  BY <2>2, <2>3
<1>. QED  BY <1>1, <1>2, <1>3, <1>4, <1>5 DEF CommitNext

\* The call made for a member's write speaks of what the handler spoke of.
LEMMA WriteCommit ==
  ASSUME TypeOK, TypeOK', CommitInv, NEW h \in handlers, CommitWrite(h)
  PROVE  CommitInv'
<1>. DEFINE m == h.msg
<1>1. /\ m.to \in Node /\ m.obj \in Cmd /\ h.at = "commit"
      /\ \A id \in Nat : m.from # m.to /\ m.conn = id => Claimed(m.from, id, m.obj)
  BY WriteHandlers DEF CommitWrite, Claimed
<1>2. /\ UNCHANGED <<commitLog, added, accepts, fetchers, replies>> /\ handlers' \subseteq handlers
  BY DEF CommitWrite
<1>3. CASE \/ RequestAddObject(m.to, m.obj, m.from, m.conn, net)
           \/ SendLeaderWrite(m.to, m.obj, m.from, m.conn)
  BY <1>1, <1>2, <1>3, CallCommit
<1>4. CASE UNCHANGED <<commits, calls, net>>
  <2>1. \A f \in fetchers : f.msg.from # f.msg.to
    BY DEF CommitInv, ConfirmationsGiven
  <2>. QED  BY <1>2, <1>4, <2>1, QuietFrame
<1>. QED  BY <1>3, <1>4 DEF CommitWrite

LEMMA NextCommit == TypeOK /\ TypeOK' /\ CommitInv /\ [Next]_vars => CommitInv'
<1>. SUFFICES ASSUME TypeOK, TypeOK', CommitInv, [Next]_vars PROVE CommitInv'
  OBVIOUS
<1>1. CASE \E n \in Node : LoopNext(n)
  BY <1>1, LoopCommit
<1>2. CASE \E n \in Node : Restart(n)
  BY <1>2, RestartCommit
<1>3. CASE RpcNext
  <2>1. CASE \E h \in handlers : CommitWrite(h)
    BY <2>1, WriteCommit
  <2>. QED  BY <1>3, <2>1, QuietRpcCommit, ConfirmCommit, FetchCommit DEF RpcNext
<1>4. CASE CommitNext
  BY <1>4, CommitStepsCommit
<1>5. CASE UNCHANGED vars
  BY <1>5, QuietFrame DEF vars, CommitInv, ConfirmationsGiven
<1>. QED  BY <1>1, <1>2, <1>3, <1>4, <1>5 DEF Next

\* Whatever is lost, delayed or restarted, every entry of every log was added by
\* a call of commitObject that was confirmed, a quorum round by a majority and
\* a forwarded write by another node (requestAddObject, commitObject).
THEOREM CommitSafe == Spec => []EntriesConfirmed
<1>1. Init => TypeOK /\ CommitInv
  BY InitType, InitCommit
<1>2. TypeOK /\ CommitInv /\ [Next]_vars => (TypeOK /\ CommitInv)'
  BY NextType, NextCommit
<1>3. CommitInv => EntriesConfirmed
  BY DEF CommitInv
<1>. QED  BY <1>1, <1>2, <1>3, PTL DEF Spec

-----------------------------------------------------------------------------
(***************************************************************************)
(* Commands.  Whatever speaks of an object has its command typed, and the  *)
(* call that answers a CLI is the only one to wait for that command there. *)
(***************************************************************************)
Submitted(c) == cli[c] # "idle"

OnlySubmitted ==
  /\ \A k \in commits : Submitted(k.cmd)
  /\ \A m \in net : m.type = "AppendEntry" /\ m.obj # Nil => Submitted(m.obj)
  /\ \A h \in handlers : h.at = "commit" => Submitted(h.msg.obj) /\ h.msg.from # h.msg.to
  /\ \A a \in added : Submitted(a.cmd)

Own(k) == k.from = k.node

OwnCallsPend ==
  /\ \A k \in commits : Own(k) => cli[k.cmd] = "pending"
  /\ \A j, k \in commits : Own(j) /\ Own(k) /\ j.cmd = k.cmd => j = k

CommandInv == OnlySubmitted /\ OwnCallsPend

LEMMA InitCommand == Init => CommandInv
BY DEF Init, CommandInv, OnlySubmitted, OwnCallsPend

\* Steps that answer no command and speak of no new object.
LEMMA CommandFrame ==
  ASSUME CommandInv, UNCHANGED <<cli, added>>, commits' \subseteq commits,
         \A m \in net' : m.type = "AppendEntry" /\ m.obj # Nil => m \in net,
         \A h \in handlers' : h.at = "commit" =>
           \/ h \in handlers
           \/ /\ h.msg \in net /\ h.msg.type = "AppendEntry" /\ h.msg.obj # Nil
              /\ h.msg.from # h.msg.to
  PROVE  CommandInv'
BY DEF CommandInv, OnlySubmitted, OwnCallsPend, Submitted, Own

\* A call that waits for a leader's or a quorum's answer ends.
LEMMA CallEnds ==
  ASSUME TypeOK, CommandInv, NEW k \in commits, commits' = commits \ {k}, UNCHANGED <<net, handlers>>,
         \/ UNCHANGED cli
         \/ Own(k) /\ \E result \in {"ok", "failed"} : Finish(k, result),
         added' \in {added, added \cup {Added(k)}}
  PROVE  CommandInv'
<1>1. \A c \in Cmd : Submitted(c) => Submitted(c)'
  BY DEF Finish, Submitted, TypeOK
<1>2. /\ k.cmd \in Cmd /\ \A j \in commits : j.cmd \in Cmd
      /\ \A a \in added : a.cmd \in Cmd
      /\ \A m \in net : m.type = "AppendEntry" /\ m.obj # Nil => m.obj \in Cmd
      /\ \A h \in handlers : h.at = "commit" => h.msg.obj \in Cmd
  BY PacketTypes, WriteHandlers DEF TypeOK, CommitType, AddedType, AppendEntryType
<1>3. Added(k).cmd = k.cmd
  BY DEF Added
<1>4. OnlySubmitted'
  BY <1>1, <1>2, <1>3 DEF CommandInv, OnlySubmitted
<1>5. ASSUME NEW j \in commits', Own(j) PROVE cli'[j.cmd] = "pending"
  <2>1. Own(k) => j.cmd # k.cmd
    BY <1>5 DEF CommandInv, OwnCallsPend
  <2>. QED  BY <1>2, <1>5, <2>1 DEF CommandInv, OwnCallsPend, Finish, TypeOK
<1>6. OwnCallsPend'
  BY <1>5 DEF CommandInv, OwnCallsPend, Own
<1>. QED  BY <1>4, <1>6 DEF CommandInv

\* A member's write starts a call that answers no CLI, or none.
LEMMA WriteCommand ==
  ASSUME TypeOK, CommandInv, NEW h \in handlers, CommitWrite(h)
  PROVE  CommandInv'
<1>. DEFINE m == h.msg
<1>1. /\ m.obj # Nil /\ m.from # m.to /\ Submitted(m.obj)
  BY WriteHandlers DEF CommitWrite, CommandInv, OnlySubmitted
<1>2. UNCHANGED <<cli, added>> /\ handlers' \subseteq handlers
  BY DEF CommitWrite
<1>3. CASE \/ RequestAddObject(m.to, m.obj, m.from, m.conn, net)
           \/ SendLeaderWrite(m.to, m.obj, m.from, m.conn)
  <2>1. PICK k : commits' = commits \cup {k} /\ k.cmd = m.obj /\ ~Own(k)
    <3>1. PICK awaits \in {"peers", "leader"} :
            commits' = commits \cup {[node |-> m.to, id |-> calls + 1, cmd |-> m.obj,
                                     from |-> m.from, conn |-> m.conn, awaits |-> awaits,
                                     votes |-> {}]}
      BY <1>3 DEF RequestAddObject, SendLeaderWrite
    <3>. DEFINE k == [node |-> m.to, id |-> calls + 1, cmd |-> m.obj, from |-> m.from,
                      conn |-> m.conn, awaits |-> awaits, votes |-> {}]
    <3>2. k.cmd = m.obj /\ k.node = m.to /\ k.from = m.from
      OBVIOUS
    <3>3. commits' = commits \cup {k}
      BY <3>1
    <3>. HIDE DEF k
    <3>. QED  BY <1>1, <3>2, <3>3 DEF Own
  <2>2. \A x \in net' : x.type = "AppendEntry" => x \in net \/ x.obj = m.obj
    BY <1>3 DEF RequestAddObject, SendLeaderWrite, AppendEntryMsg
  <2>. QED  BY <1>1, <1>2, <2>1, <2>2 DEF CommandInv, OnlySubmitted, OwnCallsPend, Submitted, Own
<1>4. CASE UNCHANGED <<commits, calls, net>>
  BY <1>2, <1>4, CommandFrame
<1>. QED  BY <1>3, <1>4 DEF CommitWrite

\* A command is typed: the only call to wait for it starts, or it is refused.
LEMMA TypedCommand ==
  ASSUME TypeOK, CommandInv, NEW n \in Node, NEW c \in Cmd, CommitObject(n, c)
  PROVE  CommandInv'
<1>1. /\ cli[c] = "idle" /\ cli' \in {[cli EXCEPT ![c] = "pending"], [cli EXCEPT ![c] = "failed"]}
      /\ UNCHANGED <<added, handlers>>
  BY DEF CommitObject
<1>2. \A k \in commits : k.cmd # c /\ k.cmd \in Cmd
  BY <1>1 DEF CommandInv, OnlySubmitted, Submitted, TypeOK, CommitType
<1>3. /\ \A d \in Cmd : Submitted(d) => Submitted(d)'
      /\ \A d \in Cmd \ {c} : cli'[d] = cli[d]
  BY <1>1 DEF Submitted, TypeOK
<1>4. Submitted(c)'
  BY <1>1 DEF Submitted, TypeOK
<1>5. /\ \A a \in added : a.cmd \in Cmd
      /\ \A m \in net : m.type = "AppendEntry" /\ m.obj # Nil => m.obj \in Cmd
      /\ \A h \in handlers : h.at = "commit" => h.msg.obj \in Cmd
  BY PacketTypes, WriteHandlers DEF TypeOK, AddedType, AppendEntryType
<1>6. \A m \in net' : m.type = "AppendEntry" => m \in net \/ m.obj = c
  BY DEF CommitObject, RequestAddObject, SendLeaderWrite, AppendEntryMsg
<1>7. /\ \A m \in net' : m.type = "AppendEntry" /\ m.obj # Nil => Submitted(m.obj)'
      /\ \A a \in added' : Submitted(a.cmd)'
      /\ \A h \in handlers' : h.at = "commit" => Submitted(h.msg.obj)' /\ h.msg.from # h.msg.to
  <2>1. /\ \A a \in added' : Submitted(a.cmd)'
        /\ \A h \in handlers' : h.at = "commit" =>
             Submitted(h.msg.obj)' /\ h.msg.from # h.msg.to
    BY <1>1, <1>3, <1>5 DEF CommandInv, OnlySubmitted
  <2>2. ASSUME NEW m \in net', m.type = "AppendEntry", m.obj # Nil
        PROVE  Submitted(m.obj)'
    BY <1>3, <1>4, <1>5, <1>6, <2>2 DEF CommandInv, OnlySubmitted
  <2>. QED  BY <2>1, <2>2
<1>8. CASE UNCHANGED commits
  <2>1. \A k \in commits' : Submitted(k.cmd)'
    BY <1>2, <1>3, <1>8 DEF CommandInv, OnlySubmitted
  <2>2. OwnCallsPend'
    BY <1>2, <1>3, <1>8 DEF CommandInv, OwnCallsPend, Own
  <2>. QED  BY <1>7, <2>1, <2>2 DEF CommandInv, OnlySubmitted
<1>9. CASE RequestAddObject(n, c, n, 0, net) \/ SendLeaderWrite(n, c, n, 0)
  <2>1. PICK k : commits' = commits \cup {k} /\ k.cmd = c /\ Own(k)
    <3>1. PICK awaits \in {"peers", "leader"} :
            commits' = commits \cup {[node |-> n, id |-> calls + 1, cmd |-> c, from |-> n,
                                     conn |-> 0, awaits |-> awaits, votes |-> {}]}
      BY <1>9 DEF RequestAddObject, SendLeaderWrite
    <3>. DEFINE k == [node |-> n, id |-> calls + 1, cmd |-> c, from |-> n, conn |-> 0,
                      awaits |-> awaits, votes |-> {}]
    <3>2. k.cmd = c /\ k.node = n /\ k.from = n
      OBVIOUS
    <3>3. commits' = commits \cup {k}
      BY <3>1
    <3>. HIDE DEF k
    <3>. QED  BY <3>2, <3>3 DEF Own
  <2>2. cli'[c] = "pending"
    <3>1. calls' # calls
      BY <1>9 DEF RequestAddObject, SendLeaderWrite, TypeOK
    <3>. QED  BY <3>1 DEF CommitObject, TypeOK
  <2>3. OnlySubmitted'
    <3>1. \A j \in commits' : Submitted(j.cmd)'
      BY <1>2, <1>3, <1>4, <2>1 DEF CommandInv, OnlySubmitted
    <3>. QED  BY <1>7, <3>1 DEF OnlySubmitted
  <2>4. OwnCallsPend'
    BY <1>2, <1>3, <2>1, <2>2 DEF CommandInv, OwnCallsPend, Own
  <2>. QED  BY <2>3, <2>4 DEF CommandInv
<1>. QED  BY <1>8, <1>9 DEF CommitObject

\* The waits of a process that restarts are lost with it, and no others.
LEMMA RestartCommand ==
  ASSUME TypeOK, CommandInv, NEW n \in Node, Restart(n)
  PROVE  CommandInv'
<1>1. /\ commits' = {k \in commits : k.node # n} /\ net' \subseteq net /\ UNCHANGED added
      /\ handlers' \subseteq handlers
      /\ cli' = [c \in Cmd |-> IF \E k \in commits : k.node = n /\ k.from = n /\ k.cmd = c
                              THEN "lost" ELSE cli[c]]
  BY DEF Restart
<1>2. /\ \A k \in commits : k.cmd \in Cmd
      /\ \A a \in added : a.cmd \in Cmd
      /\ \A m \in net : m.type = "AppendEntry" /\ m.obj # Nil => m.obj \in Cmd
      /\ \A h \in handlers : h.at = "commit" => h.msg.obj \in Cmd
  BY PacketTypes, WriteHandlers DEF TypeOK, CommitType, AddedType, AppendEntryType
<1>3. \A c \in Cmd : Submitted(c) => Submitted(c)'
  BY <1>1 DEF Submitted
<1>4. OnlySubmitted'
  BY <1>1, <1>2, <1>3 DEF CommandInv, OnlySubmitted
<1>5. ASSUME NEW j \in commits', Own(j) PROVE cli'[j.cmd] = "pending"
  <2>1. ~\E k \in commits : k.node = n /\ k.from = n /\ k.cmd = j.cmd
    BY <1>1, <1>5 DEF CommandInv, OwnCallsPend, Own
  <2>. QED  BY <1>1, <1>2, <1>5, <2>1 DEF CommandInv, OwnCallsPend
<1>6. OwnCallsPend'
  BY <1>1, <1>5 DEF CommandInv, OwnCallsPend, Own
<1>. QED  BY <1>4, <1>6 DEF CommandInv

\* No handler but the one that calls commitObject speaks of a call or an object
\* that was not spoken of before.
LEMMA QuietRpc ==
  ASSUME TypeOK, RpcNext, ~\E h \in handlers : CommitWrite(h)
  PROVE  /\ UNCHANGED <<cli, added, commits>>
         /\ \A m \in net' : m.type = "AppendEntry" => m \in net
         /\ \A h \in handlers' : h.at = "commit" =>
              \/ h \in handlers
              \/ /\ h.msg \in net /\ h.msg.type = "AppendEntry" /\ h.msg.obj # Nil
                 /\ h.msg.from # h.msg.to
<1>0. \A h \in handlers' : h.at = "commit" =>
        \/ h \in handlers
        \/ /\ h.msg \in net /\ h.msg.type = "AppendEntry" /\ h.msg.obj # Nil
           /\ h.msg.from # h.msg.to
  BY WritersAccepted
<1>1. UNCHANGED <<cli, added, commits>>
  BY DEF RpcNext, TestTerm, HandleSameTermVote, DenyWrite, AcceptWrite, ConfirmEntry,
         StartFetch, ServeFetch, HandleNewerVote, HandleNewerAppend, HandleCandidateAppend,
         FetchTimeout, FetchEntry, ReceiveVote
<1>2. \A f : SendFetchObjectAtIndex(f).type = "FetchMissingEntries"
  BY DEF SendFetchObjectAtIndex, FetchMsg
<1>3. CASE \E m \in net : StartFetch(m)
  <2>1. \E f : net' \subseteq net \cup {SendFetchObjectAtIndex(f)}
    BY <1>3 DEF StartFetch
  <2>. QED  BY <1>0, <1>1, <1>2, <2>1
<1>4. CASE \E f \in fetchers, r \in replies : FetchEntry(f, r)
  <2>1. \E f : net' \subseteq net \cup {SendFetchObjectAtIndex(f)}
    BY <1>4 DEF FetchEntry
  <2>. QED  BY <1>0, <1>1, <1>2, <2>1
<1>5. CASE /\ ~\E m \in net : StartFetch(m)
           /\ ~\E f \in fetchers, r \in replies : FetchEntry(f, r)
  <2>1. net' \subseteq net
    BY <1>5 DEF RpcNext, TestTerm, HandleSameTermVote, DenyWrite, AcceptWrite, ConfirmEntry,
                ServeFetch, HandleNewerVote, HandleNewerAppend, HandleCandidateAppend,
                FetchTimeout, ReceiveVote
  <2>. QED  BY <1>0, <1>1, <2>1
<1>. QED  BY <1>3, <1>4, <1>5

LEMMA NextCommand == TypeOK /\ CommandInv /\ [Next]_vars => CommandInv'
<1>. SUFFICES ASSUME TypeOK, CommandInv, [Next]_vars PROVE CommandInv'
  OBVIOUS
<1>1. CASE \E n \in Node : LoopNext(n)
  BY <1>1, CommandFrame
     DEF LoopNext, WatchLeader, RequestLeaderVotes, WinElection, LoseElection, NewLeader,
         SendLogUpdates, LeaveLead, RequestVoteMsg, AppendEntryMsg
<1>2. CASE \E n \in Node : Restart(n)
  BY <1>2, RestartCommand
<1>3. CASE RpcNext
  <2>1. CASE \E h \in handlers : CommitWrite(h)
    BY <2>1, WriteCommand
  <2>2. CASE ~\E h \in handlers : CommitWrite(h)
    BY <1>3, <2>2, QuietRpc, CommandFrame
  <2>. QED  BY <2>1, <2>2
<1>4. CASE CommitNext
  <2>1. CASE \E n \in Node, c \in Cmd : CommitObject(n, c)
    BY <2>1, TypedCommand
  <2>2. CASE \E k \in commits : QuorumReached(k) \/ QuorumTimeout(k)
    BY <2>2, CallEnds DEF QuorumReached, QuorumTimeout, ReportSuccess, ReportFailure, Own
  <2>3. CASE \E k \in commits : LeaderTimeout(k) \/ \E r \in replies : LeaderAnswers(k, r)
    BY <2>3, CallEnds DEF LeaderTimeout, LeaderAnswers, ReportSuccess, ReportFailure, Own
  <2>4. CASE \E k \in commits, r \in replies : ReceiveConfirmation(k, r)
    <3>1. PICK k \in commits, r \in replies : ReceiveConfirmation(k, r)
      BY <2>4
    <3>. DEFINE j == [k EXCEPT !.votes = @ \cup {r.from}]
    <3>2. /\ j.cmd = k.cmd /\ j.awaits = k.awaits /\ j.from = k.from /\ j.node = k.node
      BY DEF TypeOK, CommitType
    <3>3. commits' = (commits \ {k}) \cup {j} /\ UNCHANGED <<cli, net, added, handlers>>
      BY <3>1 DEF ReceiveConfirmation
    <3>. HIDE DEF j
    <3>. QED  BY <3>2, <3>3 DEF CommandInv, OnlySubmitted, OwnCallsPend, Submitted, Own
  <2>. QED  BY <1>4, <2>1, <2>2, <2>3, <2>4 DEF CommitNext
<1>5. CASE UNCHANGED vars
  BY <1>5, CommandFrame DEF vars
<1>. QED  BY <1>1, <1>2, <1>3, <1>4, <1>5 DEF Next

-----------------------------------------------------------------------------
(***************************************************************************)
(* The logs implement ReplicatedLog.                                       *)
(***************************************************************************)
LEMMA StepImplementsReplicatedLog ==
  ASSUME TypeOK, CommitInv, CommandInv, [Next]_vars
  PROVE  [Replicated!Next]_(Replicated!vars)
<1>. USE DEF Replicated!vars, Replicated!Next, Replicated!AppendTo
<1>0. \A k \in commits : k.node \in Node /\ k.cmd \in Cmd
  BY DEF TypeOK, CommitType
<1>1. CASE UNCHANGED <<commitLog, added, cli>>
  BY <1>1
<1>2. CASE \E n \in Node : Restart(n)
  <2>1. PICK n \in Node : Restart(n)
    BY <1>2
  <2>. DEFINE lost == {c \in Cmd : \E k \in commits : k.node = n /\ k.from = n /\ k.cmd = c}
  <2>2. lost \in SUBSET {c \in Cmd : cli[c] = "pending"}
    BY DEF CommandInv, OwnCallsPend, Own
  <2>3. cli' = [c \in Cmd |-> IF c \in lost THEN "lost" ELSE cli[c]]
    BY <2>1 DEF Restart
  <2>4. commitLog' = [commitLog EXCEPT ![n] = <<>>] /\ UNCHANGED added
    BY <2>1 DEF Restart
  <2>. HIDE DEF lost
  <2>5. Replicated!Crash(n)
    BY <2>2, <2>3, <2>4 DEF Replicated!Crash
  <2>. QED  BY <2>5
<1>3. CASE \E f \in fetchers, r \in replies : FetchEntry(f, r)
  <2>1. PICK f \in fetchers, r \in replies : FetchEntry(f, r)
    BY <1>3
  <2>2. f.msg.to \in Node
    BY GoroutineTypes DEF AppendEntryType
  <2>3. r.obj \in Cmd /\ r.obj \in {a.cmd : a \in added}
    <3>1. r \in FetchReplyType
      BY <2>1, PacketTypes DEF FetchEntry
    <3>. QED  BY <2>1, <3>1 DEF FetchReplyType, FetchEntry, CommitInv, FetchedEntriesAdded
  <2>4. Replicated!Learn(f.msg.to, r.obj)
    BY <2>1, <2>3 DEF FetchEntry, AddCommit, Replicated!Learn
  <2>. QED  BY <2>2, <2>3, <2>4
<1>4. CASE \E k \in commits : /\ AddCommit(k.node, k.cmd) /\ added' = added \cup {Added(k)}
                              /\ UNCHANGED cli \/ (Own(k) /\ Finish(k, "ok"))
  <2>1. PICK k \in commits : /\ AddCommit(k.node, k.cmd) /\ added' = added \cup {Added(k)}
                             /\ UNCHANGED cli \/ (Own(k) /\ Finish(k, "ok"))
    BY <1>4
  <2>2. Added(k).cmd = k.cmd
    BY DEF Added
  <2>3. {a.cmd : a \in added'} = {a.cmd : a \in added} \cup {k.cmd}
    BY <2>1, <2>2
  <2>4. cli[k.cmd] # "idle" /\ (Own(k) => cli[k.cmd] = "pending")
    BY DEF CommandInv, OnlySubmitted, OwnCallsPend, Submitted
  <2>5. UNCHANGED cli \/ (cli[k.cmd] = "pending" /\ Replicated!Answer(k.cmd, "ok"))
    BY <2>1, <2>4 DEF Finish, Replicated!Answer
  <2>6. Replicated!Commit(k.node, k.cmd)
    BY <2>1, <2>3, <2>4, <2>5 DEF AddCommit, Replicated!Commit
  <2>. QED  BY <1>0, <2>6
<1>5. CASE \E k \in commits : Own(k) /\ Finish(k, "failed") /\ UNCHANGED <<commitLog, added>>
  <2>1. PICK k \in commits : Own(k) /\ Finish(k, "failed") /\ UNCHANGED <<commitLog, added>>
    BY <1>5
  <2>2. cli[k.cmd] = "pending"
    BY <2>1 DEF CommandInv, OwnCallsPend
  <2>3. Replicated!GiveUp(k.cmd)
    BY <2>1, <2>2 DEF Finish, Replicated!GiveUp, Replicated!Answer
  <2>. QED  BY <1>0, <2>3
<1>6. CASE \E n \in Node : LoopNext(n)
  <2>1. UNCHANGED <<commitLog, added, cli>>
    BY <1>6 DEF LoopNext, WatchLeader, RequestLeaderVotes, WinElection, LoseElection,
                NewLeader, SendLogUpdates, LeaveLead
  <2>. QED  BY <1>1, <2>1
<1>7. CASE RpcNext
  <2>1. ASSUME NEW m \in net,
               \/ TestTerm(m) \/ HandleSameTermVote(m) \/ DenyWrite(m) \/ AcceptWrite(m)
               \/ ConfirmEntry(m) \/ StartFetch(m) \/ ServeFetch(m)
        PROVE  UNCHANGED <<commitLog, added, cli>>
    BY <2>1 DEF TestTerm, HandleSameTermVote, DenyWrite, AcceptWrite, ConfirmEntry, StartFetch,
                ServeFetch
  <2>2. ASSUME NEW h \in handlers,
               \/ HandleNewerVote(h) \/ HandleNewerAppend(h) \/ HandleCandidateAppend(h)
               \/ CommitWrite(h)
        PROVE  UNCHANGED <<commitLog, added, cli>>
    BY <2>2 DEF HandleNewerVote, HandleNewerAppend, HandleCandidateAppend, CommitWrite
  <2>3. ASSUME NEW f \in fetchers, FetchTimeout(f)
        PROVE  UNCHANGED <<commitLog, added, cli>>
    BY <2>3 DEF FetchTimeout
  <2>4. ASSUME NEW r \in replies, ReceiveVote(r)
        PROVE  UNCHANGED <<commitLog, added, cli>>
    BY <2>4 DEF ReceiveVote
  <2>. QED  BY <1>1, <1>3, <1>7, <2>1, <2>2, <2>3, <2>4 DEF RpcNext
<1>8. CASE CommitNext
  <2>1. ASSUME NEW n \in Node, NEW c \in Cmd, CommitObject(n, c)
        PROVE  Replicated!Submit(c)
    BY <2>1 DEF CommitObject, Replicated!Submit, Replicated!Answer
  <2>2. ASSUME NEW k \in commits, QuorumReached(k)
        PROVE  /\ AddCommit(k.node, k.cmd) /\ added' = added \cup {Added(k)}
               /\ UNCHANGED cli \/ (Own(k) /\ Finish(k, "ok"))
    BY <2>2 DEF QuorumReached, ReportSuccess, Own
  <2>3. ASSUME NEW k \in commits, QuorumTimeout(k)
        PROVE  /\ UNCHANGED <<commitLog, added>>
               /\ UNCHANGED cli \/ (Own(k) /\ Finish(k, "failed"))
    BY <2>3 DEF QuorumTimeout, ReportFailure, Own
  <2>4. ASSUME NEW k \in commits, LeaderTimeout(k)
        PROVE  /\ UNCHANGED <<commitLog, added>>
               /\ UNCHANGED cli \/ (Own(k) /\ Finish(k, "failed"))
    BY <2>4 DEF LeaderTimeout, ReportFailure, Own
  <2>5. ASSUME NEW k \in commits, NEW r \in replies, ReceiveConfirmation(k, r)
        PROVE  UNCHANGED <<commitLog, added, cli>>
    BY <2>5 DEF ReceiveConfirmation
  <2>6. ASSUME NEW k \in commits, NEW r \in replies, LeaderAnswers(k, r)
        PROVE  \/ /\ AddCommit(k.node, k.cmd) /\ added' = added \cup {Added(k)}
                  /\ UNCHANGED cli \/ (Own(k) /\ Finish(k, "ok"))
               \/ /\ UNCHANGED <<commitLog, added>>
                  /\ UNCHANGED cli \/ (Own(k) /\ Finish(k, "failed"))
    BY <2>6 DEF LeaderAnswers, ReportSuccess, ReportFailure, Own
  <2>. QED  BY <1>1, <1>4, <1>5, <1>8, <2>1, <2>2, <2>3, <2>4, <2>5, <2>6 DEF CommitNext
<1>9. CASE UNCHANGED vars
  BY <1>1, <1>9 DEF vars
<1>. QED  BY <1>2, <1>6, <1>7, <1>8, <1>9 DEF Next

\* Every behaviour of the code, seen through its logs and its CLIs, is one of
\* ReplicatedLog: addCommit appends, nothing overwrites an entry, what the fetch
\* loop copies was committed somewhere, and commitObject answers a command once,
\* with "ok" only as its object is added.
THEOREM ReplicatedLogImplemented == Spec => ImplementsReplicatedLog
<1>1. Init => TypeOK /\ CommitInv /\ CommandInv
  BY InitType, InitCommit, InitCommand
<1>2. TypeOK /\ CommitInv /\ CommandInv /\ [Next]_vars => (TypeOK /\ CommitInv /\ CommandInv)'
  BY NextType, NextCommit, NextCommand
<1>3. Init => Replicated!Init
  BY DEF Init, Replicated!Init
<1>4. TypeOK /\ CommitInv /\ CommandInv /\ [Next]_vars => [Replicated!Next]_(Replicated!vars)
  BY StepImplementsReplicatedLog
<1>. QED  BY <1>1, <1>2, <1>3, <1>4, PTL DEF Spec, ImplementsReplicatedLog, Replicated!Spec

-----------------------------------------------------------------------------
(***************************************************************************)
(* Fetched entries.                                                        *)
(***************************************************************************)

\* Except in a restart a log keeps its entries.
LEMMA LogsGrow ==
  ASSUME TypeOK, UNCHANGED commitLog \/ \E n \in Node, c \in Cmd : AddCommit(n, c),
         NEW p \in Node, NEW i \in 1..LengthLog(p)
  PROVE  i \in 1..LengthLog(p)' /\ commitLog'[p][i] = commitLog[p][i]
<1>0. commitLog \in [Node -> Seq(Cmd)]
  BY DEF TypeOK
<1>1. CASE UNCHANGED commitLog
  BY <1>1 DEF LengthLog
<1>2. CASE \E n \in Node, c \in Cmd : AddCommit(n, c)
  <2>1. PICK n \in Node, c \in Cmd : AddCommit(n, c)
    BY <1>2
  <2>2. CASE p = n
    <3>1. commitLog'[p] = Append(commitLog[p], c)
      BY <1>0, <2>1, <2>2 DEF AddCommit
    <3>2. commitLog[p] \in Seq(Cmd) /\ i \in 1..Len(commitLog[p])
      BY <1>0 DEF LengthLog
    <3>. QED  BY <3>1, <3>2 DEF LengthLog
  <2>3. CASE p # n
    BY <1>0, <2>1, <2>3 DEF AddCommit, LengthLog
  <2>. QED  BY <2>2, <2>3
<1>. QED  BY <1>1, <1>2

LEMMA FetchFrame ==
  ASSUME TypeOK, FetchedEntryIsSendersEntry, UNCHANGED restarts,
         UNCHANGED commitLog \/ \E n \in Node, c \in Cmd : AddCommit(n, c),
         \A r \in replies' : r.type = "FetchMissingEntries" => r \in replies
  PROVE  FetchedEntryIsSendersEntry'
<1>. SUFFICES ASSUME restarts = 0, NEW r \in replies', r.type = "FetchMissingEntries"
              PROVE  /\ r.logIndex \in 1..LengthLog(r.from)'
                     /\ r.obj = commitLog'[r.from][r.logIndex]
  BY DEF FetchedEntryIsSendersEntry
<1>1. r \in replies /\ r.from \in Node
  BY PacketTypes
<1>2. r.logIndex \in 1..LengthLog(r.from) /\ r.obj = commitLog[r.from][r.logIndex]
  BY <1>1 DEF FetchedEntryIsSendersEntry
<1>. QED  BY <1>1, <1>2, LogsGrow

LEMMA NextFetched ==
  ASSUME TypeOK, FetchedEntryIsSendersEntry, [Next]_vars
  PROVE  FetchedEntryIsSendersEntry'
<1>0. \A k \in commits : k.node \in Node /\ k.cmd \in Cmd
  BY DEF TypeOK, CommitType
<1>1. CASE \E n \in Node : Restart(n)
  <2>1. restarts' # 0
    BY <1>1 DEF Restart, TypeOK
  <2>. QED  BY <2>1 DEF FetchedEntryIsSendersEntry
<1>2. CASE \E m \in net : ServeFetch(m)
  <2>1. PICK m \in net : ServeFetch(m)
    BY <1>2
  <2>2. /\ m.logIndex \in 1..LengthLog(m.to)
        /\ GetLogItem(m.to, m.logIndex) = commitLog[m.to][m.logIndex]
    <3>1. m \in FetchType
      BY <2>1, PacketTypes DEF ServeFetch, Incoming
    <3>2. m.to \in Node /\ m.logIndex \in Nat \ {0} /\ LengthLog(m.to) \in Nat
      BY <3>1, LogLength DEF FetchType
    <3>. QED  BY <2>1, <3>2 DEF ServeFetch, GetLogItem
  <2>. QED  BY <2>1, <2>2 DEF ServeFetch, FetchReply, FetchedEntryIsSendersEntry, LengthLog
<1>3. CASE \E f \in fetchers, r \in replies : FetchEntry(f, r)
  <2>1. PICK f \in fetchers, r \in replies : FetchEntry(f, r)
    BY <1>3
  <2>2. f.msg.to \in Node
    BY GoroutineTypes DEF AppendEntryType
  <2>3. r.obj \in Cmd
    BY <2>1, PacketTypes DEF FetchReplyType, FetchEntry
  <2>4. \A x \in replies' : x.type = "FetchMissingEntries" => x \in replies
    BY <2>1 DEF FetchEntry, SendReplyObjectCommited, Confirmations, Confirmation,
                AppendEntryResponse
  <2>. QED  BY <2>1, <2>2, <2>3, <2>4, FetchFrame DEF FetchEntry
<1>4. CASE \E n \in Node : LoopNext(n)
  BY <1>4, FetchFrame DEF LoopNext, WatchLeader, RequestLeaderVotes, WinElection, LoseElection,
                    NewLeader, SendLogUpdates, LeaveLead, SendReplyLeaderVote, VoteReply
<1>5. CASE RpcNext
  <2>1. CASE \E m \in net : ConfirmEntry(m)
    BY <2>1, FetchFrame DEF ConfirmEntry, SendReplyObjectCommited, Confirmations, Confirmation,
                            AppendEntryResponse
  <2>2. CASE ~\E m \in net : ConfirmEntry(m)
    <3>1. CASE \E m \in net : \/ TestTerm(m) \/ HandleSameTermVote(m) \/ DenyWrite(m)
                              \/ AcceptWrite(m) \/ StartFetch(m)
      BY <3>1, FetchFrame DEF TestTerm, HandleSameTermVote, DenyWrite, AcceptWrite, StartFetch,
                              SendReplyLeaderVote, VoteReply, AppendEntryResponse
    <3>2. CASE \E h \in handlers :
                 \/ HandleNewerVote(h) \/ HandleNewerAppend(h) \/ HandleCandidateAppend(h)
                 \/ CommitWrite(h)
      BY <3>2, FetchFrame DEF HandleNewerVote, HandleNewerAppend, HandleCandidateAppend,
                              CommitWrite, SendReplyLeaderVote, VoteReply
    <3>3. CASE \/ \E f \in fetchers : FetchTimeout(f)
               \/ \E r \in replies : ReceiveVote(r)
      BY <3>3, FetchFrame DEF FetchTimeout, ReceiveVote
    <3>. QED  BY <1>2, <1>3, <1>5, <2>2, <3>1, <3>2, <3>3 DEF RpcNext
  <2>. QED  BY <2>1, <2>2
<1>6. CASE CommitNext
  <2>1. UNCHANGED restarts
    BY <1>6 DEF CommitNext, CommitObject, QuorumReached, QuorumTimeout, LeaderTimeout,
                ReceiveConfirmation, LeaderAnswers
  <2>2. UNCHANGED commitLog \/ \E k \in commits : AddCommit(k.node, k.cmd)
    BY <1>6 DEF CommitNext, CommitObject, QuorumReached, QuorumTimeout, LeaderTimeout,
                ReceiveConfirmation, LeaderAnswers
  <2>3. \A x \in replies' : x.type = "FetchMissingEntries" => x \in replies
    <3>1. CASE \E k \in commits : QuorumReached(k)
      BY <3>1, ReportReplies DEF QuorumReached
    <3>2. CASE \E k \in commits, r \in replies : LeaderAnswers(k, r)
      BY <3>2, ReportReplies DEF LeaderAnswers
    <3>3. CASE ~\/ \E k \in commits : QuorumReached(k)
                \/ \E k \in commits, r \in replies : LeaderAnswers(k, r)
      BY <1>6, <3>3 DEF CommitNext, CommitObject, QuorumTimeout, LeaderTimeout,
                        ReceiveConfirmation
    <3>. QED  BY <3>1, <3>2, <3>3
  <2>. QED  BY <1>0, <2>1, <2>2, <2>3, FetchFrame
<1>7. CASE UNCHANGED vars
  BY <1>7, FetchFrame DEF vars
<1>. QED  BY <1>1, <1>4, <1>5, <1>6, <1>7 DEF Next

\* Without restarts an entry on its way to a fetch loop stays the one its
\* sender has at that index, however its log grows meanwhile (getLogItem).
THEOREM FetchFaithful == Spec => []FetchedEntryIsSendersEntry
<1>1. Init => TypeOK /\ FetchedEntryIsSendersEntry
  BY InitType DEF Init, FetchedEntryIsSendersEntry
<1>2. TypeOK /\ FetchedEntryIsSendersEntry /\ [Next]_vars
        => (TypeOK /\ FetchedEntryIsSendersEntry)'
  BY NextType, NextFetched
<1>. QED  BY <1>1, <1>2, PTL DEF Spec
=============================================================================
