-------------------------- MODULE RaftTypeProofs --------------------------
(***************************************************************************)
(* Type correctness of Raft, for every set of nodes and commands and every *)
(* bound.                                                                  *)
(***************************************************************************)
EXTENDS Raft, TLAPS

USE DEF nodeVars, loopVars, rpcVars, commitVars, historyVars,
        Roles, LoopStates, RequestType, ReplyType

\* A packet's type tells which of the packet types it belongs to.
LEMMA PacketTypes ==
  ASSUME TypeOK
  PROVE  /\ \A m \in net : /\ m.from \in Node /\ m.to \in Node
                           /\ m.term \in Nat /\ m.logIndex \in Nat
                           /\ m.type = "RequestVote" => m \in RequestVoteType
                           /\ m.type = "AppendEntry" => m \in AppendEntryType
                           /\ m.type = "FetchMissingEntries" => m \in FetchType
         /\ \A r \in replies : /\ r.from \in Node /\ r.to \in Node
                               /\ r.type = "RequestVote" => r \in VoteReplyType
                               /\ r.type = "AppendEntry" => r \in AppendReplyType
                               /\ r.type = "FetchMissingEntries" => r \in FetchReplyType
<1>1. \A m \in net : /\ m.from \in Node /\ m.to \in Node
                     /\ m.term \in Nat /\ m.logIndex \in Nat
                     /\ m.type = "RequestVote" => m \in RequestVoteType
                     /\ m.type = "AppendEntry" => m \in AppendEntryType
                     /\ m.type = "FetchMissingEntries" => m \in FetchType
  BY DEF TypeOK, RequestVoteType, AppendEntryType, FetchType
<1>2. \A r \in replies : /\ r.from \in Node /\ r.to \in Node
                         /\ r.type = "RequestVote" => r \in VoteReplyType
                         /\ r.type = "AppendEntry" => r \in AppendReplyType
                         /\ r.type = "FetchMissingEntries" => r \in FetchReplyType
  BY DEF TypeOK, VoteReplyType, AppendReplyType, FetchReplyType
<1>. QED  BY <1>1, <1>2

\* What the node variables have to do with the records handlers build of them.
LEMMA LogLength ==
  ASSUME TypeOK, NEW n \in Node
  PROVE  LengthLog(n) \in Nat
BY DEF TypeOK, LengthLog

LEMMA AddCommitType ==
  ASSUME TypeOK, NEW n \in Node, NEW c \in Cmd, AddCommit(n, c)
  PROVE  commitLog' \in [Node -> Seq(Cmd)]
<1>1. Append(commitLog[n], c) \in Seq(Cmd)
  BY DEF TypeOK
<1>. QED  BY <1>1 DEF AddCommit, TypeOK

LEMMA InitType == Init => TypeOK
BY DEF Init, TypeOK

\* Handlers and the fetch loop hold packets of the types they were started by.
LEMMA GoroutineTypes ==
  ASSUME TypeOK
  PROVE  /\ \A h \in handlers :
              /\ h.msg.from \in Node /\ h.msg.to \in Node /\ h.msg.term \in Nat
              /\ h.msg.logIndex \in Nat /\ h.msg.conn \in Nat
              /\ h.msg.type = "AppendEntry" => h.msg \in AppendEntryType
              /\ h.msg.type = "RequestVote" => h.msg \in RequestVoteType
              /\ h.at = "candidate" => h.msg.type = "AppendEntry"
         /\ \A f \in fetchers : f \in FetcherType /\ f.msg \in AppendEntryType
<1>1. \A h \in handlers :
              /\ h.msg.from \in Node /\ h.msg.to \in Node /\ h.msg.term \in Nat
              /\ h.msg.logIndex \in Nat /\ h.msg.conn \in Nat
              /\ h.msg.type = "AppendEntry" => h.msg \in AppendEntryType
              /\ h.msg.type = "RequestVote" => h.msg \in RequestVoteType
              /\ h.at = "candidate" => h.msg.type = "AppendEntry"
  BY DEF TypeOK, HandlerType, AppendEntryType, RequestVoteType
<1>2. \A f \in fetchers : f \in FetcherType /\ f.msg \in AppendEntryType
  BY DEF TypeOK, FetcherType
<1>. QED  BY <1>1, <1>2

\* Every update of the peer table leaves a set of addresses.
LEMMA RoutingType ==
  ASSUME TypeOK, NEW n \in Node, NEW p \in Node,
         ExpireLeader(n, p) \/ MakeLeader(n, p) \/ WipeLeader(n)
  PROVE  leaders' \in [Node -> SUBSET Node]
<1>0. leaders \in [Node -> SUBSET Node] /\ leaders[n] \subseteq Node
  BY DEF TypeOK
<1>1. \A S \in SUBSET Node : [leaders EXCEPT ![n] = S] \in [Node -> SUBSET Node]
  BY <1>0
<1>2. leaders[n] \ {p} \in SUBSET Node /\ leaders[n] \cup {p} \in SUBSET Node
  BY <1>0
<1>3. CASE ExpireLeader(n, p)
  BY <1>1, <1>2, <1>3 DEF ExpireLeader
<1>4. CASE MakeLeader(n, p)
  BY <1>1, <1>2, <1>4 DEF MakeLeader
<1>5. CASE WipeLeader(n)
  BY <1>1, <1>5 DEF WipeLeader
<1>. QED  BY <1>3, <1>4, <1>5

LEMMA SwitchType ==
  ASSUME TypeOK, NEW n \in Node, NEW r \in Roles, Switch(n, r)
  PROVE  /\ loop' \in [Node -> LoopStates]
         /\ nextTerm' \in [Node -> Nat]
<1>1. CASE r = "CANDIDATE"
  BY <1>1 DEF Switch, TypeOK
<1>2. CASE r # "CANDIDATE"
  BY <1>2 DEF Switch, TypeOK
<1>. QED  BY <1>1, <1>2

\* A vote is a reply to the candidate.
LEMMA VoteType ==
  ASSUME TypeOK, NEW m, m.from \in Node, m.to \in Node, m.conn \in Nat, m.term \in Nat,
         SendReplyLeaderVote(m)
  PROVE  replies' \subseteq ReplyType /\ grants' \subseteq GrantType
<1>1. VoteReply(m) \in VoteReplyType
  BY DEF VoteReply, VoteReplyType
<1>2. LengthLog(m.to) \in Nat
  BY LogLength
<1>3. [voter |-> m.to, candidate |-> m.from, election |-> m.conn, term |-> m.term,
       length |-> LengthLog(m.to)] \in GrantType
  BY <1>2 DEF GrantType
<1>. QED  BY <1>1, <1>3 DEF TypeOK, SendReplyLeaderVote

\* A confirmation is a reply to the node that asked for it.
LEMMA ConfirmationType ==
  ASSUME TypeOK, NEW from \in Node, NEW to \in Node, NEW conn \in Nat, NEW c \in Cmd
  PROVE  /\ Confirmation(from, to, conn, c).reply \in AppendReplyType
         /\ Confirmation(from, to, conn, c).trace \in AcceptType
BY DEF Confirmation, AppendEntryResponse, AppendReplyType, AcceptType

LEMMA ConfirmationsType ==
  ASSUME TypeOK, NEW m \in AppendEntryType, NEW pending \in SUBSET ReplyType,
         SendReplyObjectCommited(Confirmations(m), pending)
  PROVE  replies' \subseteq ReplyType /\ accepts' \subseteq AcceptType
<1>0. /\ m.from \in Node /\ m.to \in Node /\ m.conn \in Nat
      /\ m.obj # Nil => m.obj \in Cmd
  BY DEF AppendEntryType
<1>1. \A x \in Confirmations(m) : x.reply \in AppendReplyType /\ x.trace \in AcceptType
  <2>1. CASE m.obj = Nil
    BY <2>1 DEF Confirmations
  <2>2. CASE m.obj # Nil
    <3>. DEFINE x == Confirmation(m.to, m.from, m.conn, m.obj)
    <3>1. x.reply \in AppendReplyType /\ x.trace \in AcceptType
      BY <1>0, <2>2, ConfirmationType
    <3>2. Confirmations(m) = {x}
      BY <2>2 DEF Confirmations
    <3>. QED  BY <3>1, <3>2
  <2>. QED  BY <2>1, <2>2
<1>. QED  BY <1>1 DEF SendReplyObjectCommited, TypeOK

LEMMA LoopType ==
  ASSUME TypeOK, NEW n \in Node, LoopNext(n)
  PROVE  TypeOK'
<1>. LengthLog(n) \in Nat
  BY LogLength
<1>1. CASE WatchLeader(n)
  <2>1. leaders' \in [Node -> SUBSET Node]
    <3>1. CASE UNCHANGED leaders
      BY <3>1 DEF TypeOK
    <3>2. CASE \E p \in Node : ExpireLeader(n, p)
      BY <3>2, RoutingType
    <3>. QED  BY <1>1, <3>1, <3>2 DEF WatchLeader, Peers
  <2>2. /\ loop' \in [Node -> LoopStates]
        /\ nextTerm' \in [Node -> Nat]
    BY <1>1, SwitchType DEF WatchLeader
  <2>. QED  BY <1>1, <2>1, <2>2 DEF WatchLeader, TypeOK, ChangeRole
<1>2. CASE RequestLeaderVotes(n)
  <2>1. \A p \in Peers(n) : RequestVoteMsg(n, p) \in RequestVoteType
    BY DEF RequestVoteMsg, RequestVoteType, Peers, TypeOK
  <2>2. net' \subseteq RequestType
    BY <1>2, <2>1 DEF RequestLeaderVotes, TypeOK
  <2>. QED  BY <1>2, <2>2 DEF RequestLeaderVotes, UpdateTerm, TypeOK
<1>3. CASE WinElection(n)
  <2>1. /\ loop' \in [Node -> LoopStates]
        /\ nextTerm' \in [Node -> Nat]
    BY <1>3, SwitchType DEF WinElection
  <2>. QED  BY <1>3, <2>1 DEF WinElection, TypeOK, ChangeRole
<1>4. CASE LoseElection(n)
  <2>1. /\ loop' \in [Node -> LoopStates]
        /\ nextTerm' \in [Node -> Nat]
    <3>1. role[n] \in Roles
      BY DEF TypeOK
    <3>. QED  BY <1>4, <3>1, SwitchType DEF LoseElection
  <2>. QED  BY <1>4, <2>1 DEF LoseElection, TypeOK
<1>5. CASE \E h \in handlers : NewLeader(n, h)
  <2>1. PICK h \in handlers : NewLeader(n, h)
    BY <1>5
  <2>2. /\ loop' \in [Node -> LoopStates]
        /\ nextTerm' \in [Node -> Nat]
    BY <2>1, SwitchType DEF NewLeader
  <2>3. /\ replies' \subseteq ReplyType
        /\ grants' \subseteq GrantType
    <3>3. CASE SendReplyLeaderVote(h.msg)
      BY <3>3, GoroutineTypes, VoteType
    <3>4. CASE UNCHANGED <<replies, grants>>
      BY <3>4 DEF TypeOK
    <3>. QED  BY <2>1, <3>3, <3>4 DEF NewLeader
  <2>. QED  BY <2>1, <2>2, <2>3 DEF NewLeader, TypeOK, ChangeRole
<1>6. CASE SendLogUpdates(n)
  <2>1. \A p \in Peers(n) : AppendEntryMsg(n, p, n, 0, Nil) \in AppendEntryType
    BY DEF AppendEntryMsg, AppendEntryType, Peers, TypeOK
  <2>2. net' \subseteq RequestType
    BY <1>6, <2>1 DEF SendLogUpdates, TypeOK
  <2>. QED  BY <1>6, <2>2 DEF SendLogUpdates, TypeOK
<1>7. CASE LeaveLead(n)
  <2>1. /\ loop' \in [Node -> LoopStates]
        /\ nextTerm' \in [Node -> Nat]
    <3>1. role[n] \in Roles
      BY DEF TypeOK
    <3>. QED  BY <1>7, <3>1, SwitchType DEF LeaveLead
  <2>. QED  BY <1>7, <2>1 DEF LeaveLead, TypeOK
<1>. QED  BY <1>1, <1>2, <1>3, <1>4, <1>5, <1>6, <1>7 DEF LoopNext

LEMMA VoteHandlersType ==
  ASSUME TypeOK,
         \/ \E m \in net : HandleSameTermVote(m)
         \/ \E h \in handlers : HandleNewerVote(h)
  PROVE  TypeOK'
<1>1. CASE \E m \in net : HandleSameTermVote(m)
  <2>1. PICK m \in net : HandleSameTermVote(m)
    BY <1>1
  <2>2. m \in RequestVoteType /\ m.from \in Node /\ m.to \in Node
    BY <2>1, PacketTypes DEF HandleSameTermVote, Incoming
  <2>3. leaders' \in [Node -> SUBSET Node]
    BY <2>1, <2>2, RoutingType DEF HandleSameTermVote
  <2>4. /\ handlers' \subseteq HandlerType
        /\ replies' \subseteq ReplyType /\ grants' \subseteq GrantType
    <3>1. CASE /\ handlers' = handlers \cup {[msg |-> m, at |-> "newLeaderCh"]}
               /\ UNCHANGED <<replies, grants>>
      BY <2>2, <3>1 DEF TypeOK, HandlerType
    <3>2. CASE SendReplyLeaderVote(m) /\ UNCHANGED handlers
      <4>1. m.conn \in Nat /\ m.term \in Nat
        BY <2>2 DEF RequestVoteType
      <4>2. replies' \subseteq ReplyType /\ grants' \subseteq GrantType
        BY <2>2, <3>2, <4>1, VoteType
      <4>. QED  BY <3>2, <4>2 DEF TypeOK
    <3>. QED  BY <2>1, <3>1, <3>2 DEF HandleSameTermVote
  <2>. QED  BY <2>1, <2>3, <2>4 DEF HandleSameTermVote, TypeOK
<1>2. CASE \E h \in handlers : HandleNewerVote(h)
  <2>1. PICK h \in handlers : HandleNewerVote(h)
    BY <1>2
  <2>2. /\ h.msg.from \in Node /\ h.msg.to \in Node
        /\ h.msg.term \in Nat /\ h.msg.conn \in Nat
    BY GoroutineTypes
  <2>3. leaders' \in [Node -> SUBSET Node]
    BY <2>1, <2>2, RoutingType DEF HandleNewerVote
  <2>4. replies' \subseteq ReplyType /\ grants' \subseteq GrantType
    <3>1. CASE UNCHANGED <<replies, grants>>
      BY <3>1 DEF TypeOK
    <3>2. CASE SendReplyLeaderVote(h.msg)
      BY <2>2, <3>2, VoteType
    <3>. QED  BY <2>1, <3>1, <3>2 DEF HandleNewerVote
  <2>. QED  BY <2>1, <2>2, <2>3, <2>4 DEF HandleNewerVote, TypeOK, UpdateTerm, ChangeRole
<1>. QED  BY <1>1, <1>2

LEMMA AppendHandlersType ==
  ASSUME TypeOK,
         \/ \E m \in net : TestTerm(m) \/ DenyWrite(m) \/ ConfirmEntry(m)
         \/ \E h \in handlers : HandleNewerAppend(h) \/ HandleCandidateAppend(h)
  PROVE  TypeOK'
<1>1. CASE \E m \in net : TestTerm(m)
  <2>1. PICK m \in net : TestTerm(m)
    BY <1>1
  <2>2. CASE m.type = "RequestVote"
    <3>1. m \in RequestVoteType
      BY <2>2, PacketTypes
    <3>2. handlers' = handlers \cup {[msg |-> m, at |-> "newer"]}
      BY <2>1, <2>2 DEF TestTerm
    <3>. QED  BY <2>1, <3>1, <3>2 DEF TestTerm, TypeOK, HandlerType
  <2>3. CASE m.type = "AppendEntry"
    <3>1. m \in AppendEntryType
      BY <2>3, PacketTypes
    <3>2. PICK a \in {"newer", "candidate"} : handlers' = handlers \cup {[msg |-> m, at |-> a]}
      BY <2>1 DEF TestTerm
    <3>3. [msg |-> m, at |-> a] \in HandlerType
      BY <3>1 DEF HandlerType
    <3>. QED  BY <2>1, <3>2, <3>3 DEF TestTerm, TypeOK
  <2>. QED  BY <2>1, <2>2, <2>3 DEF TestTerm, Incoming
<1>2. CASE \E m \in net : DenyWrite(m)
  <2>1. PICK m \in net : DenyWrite(m)
    BY <1>2
  <2>2. m \in AppendEntryType
    BY <2>1, PacketTypes DEF DenyWrite, Incoming
  <2>3. AppendEntryResponse(m.to, m.from, m.conn, FALSE) \in AppendReplyType
    BY <2>2 DEF AppendEntryType, AppendEntryResponse, AppendReplyType
  <2>. QED  BY <2>1, <2>3 DEF DenyWrite, TypeOK
<1>3. CASE \E m \in net : ConfirmEntry(m)
  <2>1. PICK m \in net : ConfirmEntry(m)
    BY <1>3
  <2>2. m \in AppendEntryType
    BY <2>1, PacketTypes DEF ConfirmEntry, Incoming
  <2>3. replies \subseteq ReplyType
    BY DEF TypeOK
  <2>4. replies' \subseteq ReplyType /\ accepts' \subseteq AcceptType
    BY <2>1, <2>2, <2>3, ConfirmationsType DEF ConfirmEntry
  <2>. QED  BY <2>1, <2>4 DEF ConfirmEntry, TypeOK
<1>4. CASE \E h \in handlers : HandleNewerAppend(h)
  <2>1. PICK h \in handlers : HandleNewerAppend(h)
    BY <1>4
  <2>2. h.msg.term \in Nat
    BY GoroutineTypes
  <2>. QED  BY <2>1, <2>2 DEF HandleNewerAppend, TypeOK, UpdateTerm
<1>5. CASE \E h \in handlers : HandleCandidateAppend(h)
  <2>1. PICK h \in handlers : HandleCandidateAppend(h)
    BY <1>5
  <2>2. /\ h.msg \in AppendEntryType /\ h.msg.to \in Node /\ h.msg.term \in Nat
        /\ h.msg.leaderAddr \in Node
    <3>1. h.msg \in AppendEntryType /\ h.msg.to \in Node /\ h.msg.term \in Nat
      BY <2>1, GoroutineTypes DEF HandleCandidateAppend
    <3>. QED  BY <3>1 DEF AppendEntryType
  <2>3. leaders' \in [Node -> SUBSET Node]
    BY <2>1, <2>2, RoutingType DEF HandleCandidateAppend
  <2>4. [h EXCEPT !.at = "newLeaderCh"] \in HandlerType
    BY <2>2 DEF TypeOK, HandlerType
  <2>. QED  BY <2>1, <2>2, <2>3, <2>4 DEF HandleCandidateAppend, TypeOK, UpdateTerm
<1>. QED  BY <1>1, <1>2, <1>3, <1>4, <1>5

\* A round of the fetch loop asks for an entry, from 1 up.
LEMMA FetchMsgType ==
  ASSUME TypeOK, NEW f \in FetcherType
  PROVE  SendFetchObjectAtIndex(f) \in FetchType
BY DEF SendFetchObjectAtIndex, FetchMsg, FetchType, FetcherType, AppendEntryType

LEMMA FetchStepsType ==
  ASSUME TypeOK,
         \/ \E m \in net : StartFetch(m) \/ ServeFetch(m)
         \/ \E f \in fetchers : FetchTimeout(f) \/ \E r \in replies : FetchEntry(f, r)
  PROVE  TypeOK'
<1>1. CASE \E m \in net : StartFetch(m)
  <2>1. PICK m \in net : StartFetch(m)
    BY <1>1
  <2>2. m \in AppendEntryType /\ m.to \in Node /\ m.logIndex \in Nat
    BY <2>1, PacketTypes DEF StartFetch, Incoming
  <2>3. LengthLog(m.to) \in Nat /\ m.logIndex - LengthLog(m.to) \in Nat
    BY <2>1, <2>2, LogLength DEF StartFetch, Behind
  <2>4. PICK ladr \in LeaderAddrs(m.to), i \in FetchId :
          LET f == [id |-> i, msg |-> m, ladr |-> ladr, term |-> term[m.to],
                    index |-> FetchIndex(LengthLog(m.to)),
                    left |-> m.logIndex - LengthLog(m.to)]
          IN /\ fetchers' = fetchers \cup {f}
             /\ net' = (net \ {m}) \cup {SendFetchObjectAtIndex(f)}
    BY <2>1 DEF StartFetch
  <2>. DEFINE f == [id |-> i, msg |-> m, ladr |-> ladr, term |-> term[m.to],
                    index |-> FetchIndex(LengthLog(m.to)),
                    left |-> m.logIndex - LengthLog(m.to)]
  <2>5. ladr \in Node
    BY <2>2 DEF LeaderAddrs, TypeOK
  <2>6. f \in FetcherType
    BY <2>2, <2>3, <2>5 DEF FetcherType, FetchIndex, TypeOK
  <2>7. SendFetchObjectAtIndex(f) \in FetchType
    BY <2>6, FetchMsgType
  <2>. HIDE DEF f
  <2>8. /\ fetchers' = fetchers \cup {f}
        /\ net' = (net \ {m}) \cup {SendFetchObjectAtIndex(f)}
    BY <2>4 DEF f
  <2>. QED  BY <2>1, <2>6, <2>7, <2>8 DEF StartFetch, TypeOK
<1>2. CASE \E m \in net : ServeFetch(m)
  <2>1. PICK m \in net : ServeFetch(m)
    BY <1>2
  <2>2. m \in FetchType
    BY <2>1, PacketTypes DEF ServeFetch, Incoming
  <2>3. GetLogItem(m.to, m.logIndex) \in Cmd
    BY <2>1, <2>2 DEF ServeFetch, GetLogItem, LengthLog, FetchType, TypeOK
  <2>4. FetchReply(m, GetLogItem(m.to, m.logIndex)) \in FetchReplyType
    BY <2>2, <2>3 DEF FetchReply, FetchReplyType, FetchType
  <2>. QED  BY <2>1, <2>4 DEF ServeFetch, TypeOK
<1>3. CASE \E f \in fetchers : FetchTimeout(f)
  BY <1>3 DEF FetchTimeout, TypeOK
<1>4. CASE \E f \in fetchers, r \in replies : FetchEntry(f, r)
  <2>1. PICK f \in fetchers, r \in replies : FetchEntry(f, r)
    BY <1>4
  <2>2. /\ f \in FetcherType /\ f.msg \in AppendEntryType
        /\ f.msg.to \in Node /\ LengthLog(f.msg.to) \in Nat
    <3>1. f \in FetcherType /\ f.msg \in AppendEntryType
      BY GoroutineTypes
    <3>2. f.msg.to \in Node
      BY <3>1 DEF AppendEntryType
    <3>. QED  BY <3>1, <3>2, LogLength
  <2>3. r \in FetchReplyType
    BY <2>1, PacketTypes DEF FetchEntry
  <2>4. commitLog' \in [Node -> Seq(Cmd)]
    <3>1. r.obj \in Cmd
      BY <2>3 DEF FetchReplyType
    <3>. QED  BY <2>1, <2>2, <3>1, AddCommitType DEF FetchEntry
  <2>. DEFINE g == [f EXCEPT !.index = FetchIndex(LengthLog(f.msg.to) + 1), !.left = @ - 1]
  <2>5. CASE /\ f.left > 1
             /\ fetchers' = (fetchers \ {f}) \cup {g}
             /\ net' = net \cup {SendFetchObjectAtIndex(g)}
             /\ replies' = replies \ {r}
             /\ UNCHANGED accepts
    <3>1. g \in FetcherType
      <4>1. \A i \in Nat \ {0}, l \in Nat :
              [f EXCEPT !.index = i, !.left = l] \in FetcherType
        BY <2>2 DEF FetcherType
      <4>2. FetchIndex(LengthLog(f.msg.to) + 1) \in Nat \ {0} /\ f.left - 1 \in Nat
        BY <2>2, <2>5 DEF FetcherType, FetchIndex
      <4>. QED  BY <4>1, <4>2
    <3>2. SendFetchObjectAtIndex(g) \in FetchType
      BY <3>1, FetchMsgType
    <3>. HIDE DEF g
    <3>. QED  BY <2>1, <2>4, <2>5, <3>1, <3>2 DEF FetchEntry, TypeOK
  <2>6. CASE /\ fetchers' = fetchers \ {f}
             /\ SendReplyObjectCommited(Confirmations(f.msg), replies \ {r})
             /\ UNCHANGED net
    <3>1. replies \ {r} \subseteq ReplyType
      BY DEF TypeOK
    <3>2. replies' \subseteq ReplyType /\ accepts' \subseteq AcceptType
      BY <2>2, <2>6, <3>1, ConfirmationsType
    <3>. QED  BY <2>1, <2>4, <2>6, <3>2 DEF FetchEntry, TypeOK
  <2>. QED  BY <2>1, <2>5, <2>6 DEF FetchEntry
<1>. QED  BY <1>1, <1>2, <1>3, <1>4

\* A call of commitObject starts: a request to one node or to every peer.
LEMMA CallType ==
  ASSUME TypeOK, NEW n \in Node, NEW c \in Cmd, NEW from \in Node, NEW conn \in Nat,
         NEW pending \in SUBSET RequestType,
         RequestAddObject(n, c, from, conn, pending) \/ SendLeaderWrite(n, c, from, conn)
  PROVE  net' \subseteq RequestType /\ commits' \subseteq CommitType /\ calls' \in Nat
<1>0. LengthLog(n) \in Nat
  BY LogLength
<1>1. \A p \in Node, l \in Node :
        AppendEntryMsg(n, p, l, calls + 1, c) \in AppendEntryType
  BY <1>0 DEF AppendEntryMsg, AppendEntryType, TypeOK
<1>2. CASE RequestAddObject(n, c, from, conn, pending)
  <2>. DEFINE k == [node |-> n, id |-> calls + 1, cmd |-> c, from |-> from, conn |-> conn,
                    awaits |-> "peers", votes |-> {}]
  <2>1. k \in CommitType
    BY DEF CommitType, TypeOK
  <2>4. commits' = commits \cup {k} /\ calls' = calls + 1
    BY <1>2 DEF RequestAddObject
  <2>. HIDE DEF k
  <2>2. {AppendEntryMsg(n, p, n, calls + 1, c) : p \in Peers(n)} \subseteq AppendEntryType
    BY <1>1 DEF Peers
  <2>3. net' \subseteq RequestType
    BY <1>2, <2>2 DEF RequestAddObject
  <2>. QED  BY <2>1, <2>3, <2>4 DEF TypeOK
<1>3. CASE SendLeaderWrite(n, c, from, conn)
  <2>. DEFINE k == [node |-> n, id |-> calls + 1, cmd |-> c, from |-> from, conn |-> conn,
                    awaits |-> "leader", votes |-> {}]
  <2>1. k \in CommitType
    BY DEF CommitType, TypeOK
  <2>5. commits' = commits \cup {k} /\ calls' = calls + 1
    BY <1>3 DEF SendLeaderWrite
  <2>. HIDE DEF k
  <2>2. PICK ladr \in LeaderAddrs(n) :
          net' = net \cup {AppendEntryMsg(n, ladr, ladr, calls + 1, c)}
    BY <1>3 DEF SendLeaderWrite
  <2>3. ladr \in Node
    BY DEF LeaderAddrs, TypeOK
  <2>4. net' \subseteq RequestType
    BY <1>1, <2>2, <2>3 DEF TypeOK
  <2>. QED  BY <2>1, <2>4, <2>5 DEF TypeOK
<1>. QED  BY <1>2, <1>3

\* commitObject returns: the CLI, or the member whose write it was, is told.
LEMMA ReportType ==
  ASSUME TypeOK, NEW k \in commits, NEW pending \in SUBSET ReplyType,
         ReportSuccess(k, pending)
  PROVE  /\ cli' \in [Cmd -> {"idle", "pending", "ok", "failed", "lost"}]
         /\ replies' \subseteq ReplyType /\ accepts' \subseteq AcceptType
<1>0. /\ k.node \in Node /\ k.cmd \in Cmd /\ k.from \in Node /\ k.conn \in Nat
  BY DEF TypeOK, CommitType
<1>1. CASE Finish(k, "ok") /\ replies' = pending /\ UNCHANGED accepts
  BY <1>1 DEF Finish, TypeOK
<1>2. CASE /\ SendReplyObjectCommited({Confirmation(k.node, k.from, k.conn, k.cmd)}, pending)
           /\ UNCHANGED cli
  <2>. DEFINE x == Confirmation(k.node, k.from, k.conn, k.cmd)
  <2>1. x.reply \in AppendReplyType /\ x.trace \in AcceptType
    BY <1>0, ConfirmationType
  <2>. HIDE DEF x
  <2>2. SendReplyObjectCommited({x}, pending)
    BY <1>2 DEF x
  <2>. QED  BY <1>2, <2>1, <2>2 DEF SendReplyObjectCommited, TypeOK
<1>. QED  BY <1>1, <1>2 DEF ReportSuccess

LEMMA CommitStepsType ==
  ASSUME TypeOK,
         \/ \E m \in net : AcceptWrite(m)
         \/ \E h \in handlers : CommitWrite(h)
         \/ \E r \in replies : ReceiveVote(r)
         \/ CommitNext
  PROVE  TypeOK'
<1>. \A k \in commits : /\ k \in CommitType /\ k.node \in Node /\ k.cmd \in Cmd
                         /\ k.from \in Node /\ k.conn \in Nat
  BY DEF TypeOK, CommitType
<1>1. CASE \E m \in net : AcceptWrite(m)
  <2>1. PICK m \in net : AcceptWrite(m)
    BY <1>1
  <2>2. m \in AppendEntryType
    BY <2>1, PacketTypes DEF AcceptWrite, Incoming
  <2>3. m.to \in Node /\ m.from \in Node /\ m.conn \in Nat /\ m.obj \in Cmd
    BY <2>1, <2>2 DEF AppendEntryType, AcceptWrite, ToLeader
  <2>4. [msg |-> m, at |-> "commit"] \in HandlerType
    BY <2>1, <2>2 DEF HandlerType, AcceptWrite, ToLeader
  <2>. QED  BY <2>1, <2>4 DEF AcceptWrite, TypeOK
<1>9. CASE \E h \in handlers : CommitWrite(h)
  <2>1. PICK h \in handlers : CommitWrite(h)
    BY <1>9
  <2>. DEFINE m == h.msg
              n == h.msg.to
  <2>2. m \in AppendEntryType /\ m.obj # Nil
    BY <2>1 DEF CommitWrite, TypeOK, HandlerType
  <2>3. n \in Node /\ m.from \in Node /\ m.conn \in Nat /\ m.obj \in Cmd
    BY <2>2 DEF AppendEntryType
  <2>4. net' \subseteq RequestType /\ commits' \subseteq CommitType /\ calls' \in Nat
    <3>1. CASE RequestAddObject(n, m.obj, m.from, m.conn, net)
               \/ SendLeaderWrite(n, m.obj, m.from, m.conn)
      <4>1. net \in SUBSET RequestType
        BY DEF TypeOK
      <4>. QED  BY <2>3, <3>1, <4>1, CallType
    <3>2. CASE UNCHANGED <<commits, calls, net>>
      BY <3>2 DEF TypeOK
    <3>. QED  BY <2>1, <3>1, <3>2 DEF CommitWrite
  <2>5. leaders' \in [Node -> SUBSET Node]
    <3>1. CASE UNCHANGED leaders
      BY <3>1 DEF TypeOK
    <3>2. CASE \E p \in Node : ExpireLeader(n, p)
      BY <2>3, <3>2, RoutingType
    <3>. QED  BY <2>1, <3>1, <3>2 DEF CommitWrite, NoCommit, Peers
  <2>. QED  BY <2>1, <2>4, <2>5 DEF CommitWrite, TypeOK
<1>2. CASE \E r \in replies : ReceiveVote(r)
  <2>1. PICK r \in replies : ReceiveVote(r)
    BY <1>2
  <2>2. r.from \in Node /\ r.to \in Node
    BY PacketTypes
  <2>3. votes[r.to] \cup {r.from} \in SUBSET Node
    BY <2>2 DEF TypeOK
  <2>4. votes' \in [Node -> SUBSET Node]
    BY <2>1, <2>3 DEF ReceiveVote, TypeOK
  <2>. QED  BY <2>1, <2>4 DEF ReceiveVote, TypeOK
<1>3. CASE \E n \in Node, c \in Cmd : CommitObject(n, c)
  <2>1. PICK n \in Node, c \in Cmd : CommitObject(n, c)
    BY <1>3
  <2>2. net \in SUBSET RequestType /\ 0 \in Nat
    BY DEF TypeOK
  <2>3. net' \subseteq RequestType /\ commits' \subseteq CommitType /\ calls' \in Nat
    <3>1. CASE RequestAddObject(n, c, n, 0, net) \/ SendLeaderWrite(n, c, n, 0)
      BY <2>2, <3>1, CallType
    <3>2. CASE UNCHANGED <<commits, calls, net>>
      BY <3>2 DEF TypeOK
    <3>. QED  BY <2>1, <3>1, <3>2 DEF CommitObject
  <2>4. leaders' \in [Node -> SUBSET Node]
    <3>1. CASE UNCHANGED leaders
      BY <3>1 DEF TypeOK
    <3>2. CASE \E p \in Node : ExpireLeader(n, p)
      BY <3>2, RoutingType
    <3>. QED  BY <2>1, <3>1, <3>2 DEF CommitObject, NoCommit, Peers
  <2>5. cli' \in [Cmd -> {"idle", "pending", "ok", "failed", "lost"}]
    BY <2>1 DEF CommitObject, TypeOK
  <2>. QED  BY <2>1, <2>3, <2>4, <2>5 DEF CommitObject, TypeOK
<1>4. CASE \E k \in commits, r \in replies : ReceiveConfirmation(k, r)
  <2>1. PICK k \in commits, r \in replies : ReceiveConfirmation(k, r)
    BY <1>4
  <2>2. r.from \in Node
    BY PacketTypes
  <2>3. [k EXCEPT !.votes = @ \cup {r.from}] \in CommitType
    <3>1. k.votes \cup {r.from} \in SUBSET Node
      BY <2>2 DEF CommitType
    <3>. QED  BY <3>1 DEF CommitType
  <2>. QED  BY <2>1, <2>3 DEF ReceiveConfirmation, TypeOK
<1>5. CASE \E k \in commits : QuorumReached(k)
  <2>1. PICK k \in commits : QuorumReached(k)
    BY <1>5
  <2>2. commitLog' \in [Node -> Seq(Cmd)]
    BY <2>1, AddCommitType DEF QuorumReached
  <2>3. Added(k) \in AddedType
    BY <2>1 DEF Added, AddedType, CommitType
  <2>4. /\ cli' \in [Cmd -> {"idle", "pending", "ok", "failed", "lost"}]
        /\ replies' \subseteq ReplyType /\ accepts' \subseteq AcceptType
    <3>1. replies \in SUBSET ReplyType
      BY DEF TypeOK
    <3>. QED  BY <2>1, <3>1, ReportType DEF QuorumReached
  <2>. QED  BY <2>1, <2>2, <2>3, <2>4 DEF QuorumReached, TypeOK
<1>6. CASE \E k \in commits : QuorumTimeout(k)
  BY <1>6 DEF QuorumTimeout, ReportFailure, Finish, TypeOK
<1>7. CASE \E k \in commits, r \in replies : LeaderAnswers(k, r)
  <2>1. PICK k \in commits, r \in replies : LeaderAnswers(k, r)
    BY <1>7
  <2>2. Added(k) \in AddedType
    BY <2>1 DEF Added, AddedType, CommitType
  <2>3. commitLog' \in [Node -> Seq(Cmd)]
    <3>1. CASE AddCommit(k.node, k.cmd)
      BY <3>1, AddCommitType
    <3>2. CASE UNCHANGED commitLog
      BY <3>2 DEF TypeOK
    <3>. QED  BY <2>1, <3>1, <3>2 DEF LeaderAnswers
  <2>4. /\ cli' \in [Cmd -> {"idle", "pending", "ok", "failed", "lost"}]
        /\ replies' \subseteq ReplyType /\ accepts' \subseteq AcceptType
    <3>1. replies \ {r} \in SUBSET ReplyType
      BY DEF TypeOK
    <3>2. CASE ReportSuccess(k, replies \ {r})
      BY <3>1, <3>2, ReportType
    <3>3. CASE replies' = replies \ {r} /\ ReportFailure(k) /\ UNCHANGED accepts
      BY <3>1, <3>3 DEF ReportFailure, Finish, TypeOK
    <3>. QED  BY <2>1, <3>2, <3>3 DEF LeaderAnswers
  <2>. QED  BY <2>1, <2>2, <2>3, <2>4 DEF LeaderAnswers, TypeOK
<1>8. CASE \E k \in commits : LeaderTimeout(k)
  BY <1>8 DEF LeaderTimeout, ReportFailure, Finish, TypeOK
<1>. QED  BY <1>1, <1>2, <1>3, <1>4, <1>5, <1>6, <1>7, <1>8, <1>9 DEF CommitNext

LEMMA RestartType ==
  ASSUME TypeOK, NEW n \in Node, Restart(n)
  PROVE  TypeOK'
<1>1. leaders' \in [Node -> SUBSET Node]
  BY RoutingType DEF Restart
<1>2. /\ role' \in [Node -> Roles] /\ term' \in [Node -> Nat]
      /\ commitLog' \in [Node -> Seq(Cmd)] /\ loop' \in [Node -> LoopStates]
      /\ nextTerm' \in [Node -> Nat] /\ votes' \in [Node -> SUBSET Node]
  BY DEF Restart, ChangeRole, UpdateTerm, TypeOK
<1>3. cli' \in [Cmd -> {"idle", "pending", "ok", "failed", "lost"}]
  BY DEF Restart, TypeOK
<1>. QED  BY <1>1, <1>2, <1>3 DEF Restart, TypeOK

LEMMA NextType == TypeOK /\ [Next]_vars => TypeOK'
<1>. SUFFICES ASSUME TypeOK, [Next]_vars PROVE TypeOK'
  OBVIOUS
<1>1. CASE \E n \in Node : LoopNext(n)
  BY <1>1, LoopType
<1>2. CASE \E n \in Node : Restart(n)
  BY <1>2, RestartType
<1>3. CASE RpcNext
  BY <1>3, VoteHandlersType, AppendHandlersType, FetchStepsType, CommitStepsType DEF RpcNext
<1>4. CASE CommitNext
  BY <1>4, CommitStepsType
<1>5. CASE UNCHANGED vars
  BY <1>5 DEF vars, TypeOK
<1>. QED  BY <1>1, <1>2, <1>3, <1>4, <1>5 DEF Next

\* Every variable keeps its shape in every behaviour: in particular no handler
\* indexes a log out of its bounds, and no fetch loop asks for entry 0
\* (getLogItem, handleRpc).
THEOREM TypeCorrect == Spec => []TypeOK
BY InitType, NextType, PTL DEF Spec
=============================================================================
