----------------------------- MODULE LeaderLease -----------------------------
(***************************************************************************)
(* The lease a member holds its leader by (raft/raft.go, raft/routing.go,  *)
(* raft/peer.go), with time.  A leader sends heartbeats in rounds, dialing *)
(* its peers one after the other.  The member watches: any message renews  *)
(* the lease of the peer that sent it, and when the timer of awaitLeaderTTL*)
(* fires the lease of one peer it has marked as leader decides whether it  *)
(* waits on or becomes a candidate.                                        *)
(*                                                                         *)
(* One member is modelled; Tick lets a unit of time pass.  Elections are   *)
(* left out but for their marks and messages: module Raft has them.        *)
(***************************************************************************)
EXTENDS Integers

CONSTANTS
  Peer,     \* the other processes
  TTL,      \* SEC_TIME_TIMEOUT_LEADER_HB
  HB,       \* SEC_TIME_HEARTBEAT_FREQ
  Round,    \* bound: the longest a round of heartbeats takes
  Delay,    \* bound: the longest a heartbeat is under way
  MaxLost,  \* bound: heartbeats to the member lost in a row
  Nil       \* no peer

ASSUME NilAssumption == Nil \notin Peer
ASSUME TimeAssumption == TTL \in Nat /\ HB \in Nat /\ Round \in Nat /\ Delay \in Nat /\ MaxLost \in Nat
\* The member is dialed first in one round and last in the next ones.
ASSUME LeaseAssumption == (MaxLost + 1) * (HB + Round) + Round + Delay < TTL
\* A heartbeat has arrived, or is lost, before the next one is sent.
ASSUME DelayAssumption == Delay <= HB

VARIABLES
  leader,  \* the peer that leads
  send,    \* its loop in startLeader: "wait", and in a round "dial" and "rest"
  left,    \* time until its round begins, or until it must have ended
  missed,  \* heartbeats to the member lost in a row
  flight,  \* the heartbeat on its way to the member, and when it must arrive
  marked,  \* the entries of the member's peer table with role LEADER
  ttl,     \* Peer.ttl: what is left of the lease of each peer, -1 if it has run out
  watch,   \* the member: about to watch, "watching", or "candidate" (or elected)
  timer,   \* what is left of the timer of awaitLeaderTTL
  heard,   \* history: a heartbeat of the peer that leads has arrived
  quiet    \* history: time since a marked peer was heard of

leaderVars  == <<leader, send, left, missed>>
memberVars  == <<marked, ttl, watch, timer>>
historyVars == <<heard, quiet>>
vars == <<leaderVars, flight, memberVars, historyVars>>

NoFlight == [from |-> Nil, left |-> 0]

Init ==
  /\ leader = Nil /\ send = "wait" /\ left = HB /\ missed = 0
  /\ flight = NoFlight
  /\ marked = {}
  /\ ttl = [p \in Peer |-> -1]
  /\ watch = "member" /\ timer = 0
  /\ heard = FALSE /\ quiet = TTL + 1

-----------------------------------------------------------------------------
(***************************************************************************)
(* The leader: startLeader and sendLogUpdates.                             *)
(***************************************************************************)
LeaderBegins(p) ==
  /\ leader = Nil
  /\ leader' = p
  /\ UNCHANGED <<send, left, missed, flight, memberVars, historyVars>>

\* It ends, restarts or is deposed, at any time.
LeaderEnds ==
  /\ leader # Nil
  /\ leader' = Nil
  /\ send' = "wait" /\ left' = HB /\ missed' = 0
  /\ heard' = FALSE
  /\ UNCHANGED <<flight, memberVars, quiet>>

StartRound ==
  /\ leader # Nil /\ send = "wait" /\ left = 0
  /\ send' = "dial" /\ left' = Round
  /\ UNCHANGED <<leader, missed, flight, memberVars, historyVars>>

SendHeartbeat ==
  /\ leader # Nil /\ send = "dial" /\ flight = NoFlight
  /\ send' = "rest" /\ missed' = 0
  /\ flight' = [from |-> leader, left |-> Delay]
  /\ UNCHANGED <<leader, left, memberVars, historyVars>>

LoseHeartbeat ==
  /\ leader # Nil /\ send = "dial" /\ missed < MaxLost
  /\ send' = "rest" /\ missed' = missed + 1
  /\ UNCHANGED <<leader, left, flight, memberVars, historyVars>>

\* Only now does the timer for the next round start.
EndRound ==
  /\ leader # Nil /\ send = "rest"
  /\ send' = "wait" /\ left' = HB
  /\ UNCHANGED <<leader, missed, flight, memberVars, historyVars>>

-----------------------------------------------------------------------------
(***************************************************************************)
(* Messages at the member: handleRpc.                                      *)
(***************************************************************************)
\* Fault: the time of a lease is added to what is left of it.
UpdateTTLAdds(p) ==
  /\ ttl' = [ttl EXCEPT ![p] = @ + TTL]
  /\ quiet' = IF p \in marked' THEN 0 ELSE quiet

UpdateTTL(p) ==
  /\ ttl' = [ttl EXCEPT ![p] = TTL]
  /\ quiet' = IF p \in marked' THEN 0 ELSE quiet

\* An entry marks nobody, unless a candidate that lacks entries follows its
\* sender.
ReceiveAppendEntry(p) ==
  /\ \/ UNCHANGED marked
     \/ watch = "candidate" /\ marked' = marked \cup {p}
  /\ UpdateTTL(p)
  /\ UNCHANGED <<leaderVars, watch, timer>>

ReceiveHeartbeat ==
  /\ flight # NoFlight
  /\ ReceiveAppendEntry(flight.from)
  /\ flight' = NoFlight
  /\ heard' = (heard \/ flight.from = leader)

ReceiveObject ==
  /\ leader # Nil
  /\ ReceiveAppendEntry(leader)
  /\ UNCHANGED <<flight, heard>>

\* A request of a peer, perhaps one the leader made when it campaigned: refused,
\* or not one for a vote; or a vote granted; or refused for a short log in a newer
\* term, which wipes the marks.
ReceiveRequest(p) ==
  /\ \/ UNCHANGED marked
     \/ marked' = marked \cup {p}
     \/ marked' = {}
  /\ UpdateTTL(p)
  /\ UNCHANGED <<leaderVars, flight, watch, timer, heard>>

-----------------------------------------------------------------------------
(***************************************************************************)
(* The member watches: watchLeader, awaitLeaderTTL, GetLeaderTimeout.  The *)
(* channel newTerm is nil, so only the timer ends its wait.                *)
(***************************************************************************)
\* GetTimeRemaining demotes a peer whose lease has run out.
GetTimeRemaining(p) == marked' = IF ttl[p] < 0 THEN marked \ {p} ELSE marked

\* The map is ranged over in any order: any marked peer may be looked at.
WatchLeader ==
  /\ watch = "member"
  /\ \/ \E p \in marked :
          /\ GetTimeRemaining(p)
          /\ IF ttl[p] < 0
             THEN watch' = "candidate" /\ UNCHANGED timer
             ELSE watch' = "watching" /\ timer' = ttl[p]
     \/ marked = {} /\ watch' = "candidate" /\ UNCHANGED <<marked, timer>>
  /\ UNCHANGED <<leaderVars, flight, ttl, historyVars>>

\* Faults: the lease is not looked at again; the wait begins anew.
AwaitLeaderOnce ==
  /\ watch = "watching" /\ timer = 0
  /\ watch' = "candidate"
  /\ UNCHANGED <<leaderVars, flight, marked, ttl, timer, historyVars>>
AwaitLeaderAnew ==
  /\ watch = "watching" /\ timer = 0
  /\ \E p \in marked :
       /\ GetTimeRemaining(p)
       /\ IF ttl[p] < 1
          THEN watch' = "candidate" /\ UNCHANGED timer
          ELSE timer' = TTL /\ UNCHANGED watch
  /\ UNCHANGED <<leaderVars, flight, ttl, historyVars>>

\* The timer of awaitLeaderTTL fires, and CheckLeaderTimeout sets the next one.
AwaitLeaderTTL ==
  /\ watch = "watching" /\ timer = 0
  /\ \/ \E p \in marked :
          /\ GetTimeRemaining(p)
          /\ IF ttl[p] < 1
             THEN watch' = "candidate" /\ UNCHANGED timer
             ELSE timer' = ttl[p] /\ UNCHANGED watch
     \/ marked = {} /\ watch' = "candidate" /\ UNCHANGED <<marked, timer>>
  /\ UNCHANGED <<leaderVars, flight, ttl, historyVars>>

\* A handler made the candidate a member, and its election is over.
BecomeMember ==
  /\ watch = "candidate"
  /\ watch' = "member"
  /\ UNCHANGED <<leaderVars, flight, marked, ttl, timer, historyVars>>

\* commitObject looks at a lease too before it forwards a command.
ForwardCommand ==
  /\ \E p \in marked : ttl[p] < 0 /\ GetTimeRemaining(p)
  /\ UNCHANGED <<leaderVars, flight, ttl, watch, timer, historyVars>>

-----------------------------------------------------------------------------
Less(n) == IF n < 0 THEN n ELSE n - 1

\* Timers fire, rounds end and heartbeats arrive in time.
Tick ==
  /\ leader # Nil => left > 0
  /\ flight # NoFlight => flight.left > 0
  /\ watch = "watching" => timer > 0
  /\ left' = IF leader = Nil THEN left ELSE left - 1
  /\ flight' = IF flight = NoFlight THEN flight ELSE [flight EXCEPT !.left = @ - 1]
  /\ ttl' = [p \in Peer |-> Less(ttl[p])]
  /\ timer' = IF watch = "watching" THEN timer - 1 ELSE timer
  /\ quiet' = IF quiet > TTL THEN quiet ELSE quiet + 1
  /\ UNCHANGED <<leader, send, missed, marked, watch, heard>>

LeaderNext ==
  \/ \E p \in Peer : LeaderBegins(p)
  \/ LeaderEnds \/ StartRound \/ SendHeartbeat \/ LoseHeartbeat \/ EndRound

MemberNext ==
  \/ ReceiveHeartbeat \/ ReceiveObject
  \/ \E p \in Peer : ReceiveRequest(p)
  \/ WatchLeader \/ AwaitLeaderTTL \/ BecomeMember \/ ForwardCommand

Next == LeaderNext \/ MemberNext \/ Tick

Spec == Init /\ [][Next]_vars

-----------------------------------------------------------------------------
\* Every clock stays within the time it is set to.
TypeOK ==
  /\ leader \in Peer \cup {Nil}
  /\ send \in {"wait", "dial", "rest"}
  /\ left \in 0..(IF send = "wait" THEN HB ELSE Round)
  /\ missed \in 0..MaxLost
  /\ flight \in {NoFlight} \cup [from : Peer, left : 0..Delay]
  /\ marked \subseteq Peer
  /\ ttl \in [Peer -> -1..TTL]
  /\ watch \in {"member", "watching", "candidate"}
  /\ timer \in 0..TTL
  /\ heard \in BOOLEAN
  /\ quiet \in 0..TTL + 1

\* A member that has heard its leader does not become a candidate while that
\* leader goes on, be rounds slow, heartbeats late or some lost, unless it takes
\* another peer, whose lease is over, for leader too (awaitLeaderTTL, sendLogUpdates).
LiveLeaderKept ==
  [][watch' = "candidate" /\ watch # "candidate" /\ heard /\ leader \in marked
       => \E p \in marked \ {leader} : ttl[p] < 1]_vars

\* A member does not go on watching after no peer it takes for leader has been
\* heard of for the time of a lease (awaitLeaderTTL, CheckLeaderTimeout).
SilenceNoticed == watch = "watching" => quiet <= TTL

=============================================================================
