-------------------------- MODULE LeaderLeaseProofs --------------------------
(***************************************************************************)
(* Theorems about LeaderLease, for every set of peers and all times that   *)
(* satisfy its assumptions.                                                *)
(***************************************************************************)
EXTENDS LeaderLease, TLAPS

\* The longest time until the leader dials the member next.
NextDial ==
  CASE send = "wait" -> left + Round
    [] send = "dial" -> left
    [] OTHER         -> left + HB + Round

\* The time for which heartbeats may go on being lost after k were.
Losses(k) == (MaxLost - k) * (HB + Round)

\* The lease of a marked peer ends no later than TTL after the last message of
\* one, and the timer runs no longer.
QuietInv ==
  /\ \A p \in marked : ttl[p] >= 0 => ttl[p] + quiet <= TTL
  /\ watch = "watching" => timer + quiet <= TTL

\* The lease of a leader that was heard outlasts the time to its next heartbeat.
HeardInv ==
  heard =>
    /\ leader \in Peer
    /\ IF flight.from = leader
       THEN ttl[leader] > flight.left
       ELSE ttl[leader] > NextDial + Losses(missed) + Delay

IInv == TypeOK /\ QuietInv /\ HeardInv

-----------------------------------------------------------------------------
\* One more loss takes one period off the time that is left for losses.
LEMMA LossesStep ==
  /\ \A k \in 0..MaxLost : Losses(k) \in Nat
  /\ \A k \in 0..MaxLost : k < MaxLost => Losses(k) = Losses(k + 1) + HB + Round
<1>1. \A a, b \in Nat : a * b \in Nat
  OBVIOUS
<1>2. ASSUME NEW k \in 0..MaxLost
      PROVE  Losses(k) \in Nat
  <2>1. MaxLost - k \in Nat /\ HB + Round \in Nat
    BY TimeAssumption
  <2> QED BY <1>1, <2>1 DEF Losses
<1>3. \A a, b \in Int : a * b = (a - 1) * b + b
  OBVIOUS
<1>4. ASSUME NEW k \in 0..MaxLost, k < MaxLost
      PROVE  Losses(k) = Losses(k + 1) + HB + Round
  <2>1. MaxLost - k \in Int /\ HB + Round \in Int /\ MaxLost - k - 1 = MaxLost - (k + 1)
    BY TimeAssumption
  <2>2. (MaxLost - k) * (HB + Round) = (MaxLost - k - 1) * (HB + Round) + (HB + Round)
    BY <1>3, <2>1
  <2>3. MaxLost - (k + 1) \in Nat /\ HB + Round \in Nat
    BY <1>4, TimeAssumption
  <2>4. (MaxLost - (k + 1)) * (HB + Round) \in Nat
    BY <1>1, <2>3
  <2> QED BY <2>1, <2>2, <2>4, TimeAssumption DEF Losses
<1> QED BY <1>2, <1>4

\* A lease is long enough for every loss, two rounds and a period.
LEMMA LossesBound ==
  ASSUME NEW k \in 0..MaxLost
  PROVE  Losses(k) + HB + Round + Round + Delay < TTL
<1>1. \A a, b, c \in Nat : a <= b => a * c <= b * c
  OBVIOUS
<1>2. \A a, b \in Nat : a * b \in Nat /\ (a + 1) * b = a * b + b
  OBVIOUS
<1>3. MaxLost - k \in Nat /\ MaxLost - k <= MaxLost /\ HB + Round \in Nat
  BY TimeAssumption
<1>4. Losses(k) <= MaxLost * (HB + Round) /\ Losses(k) \in Nat
  BY <1>1, <1>2, <1>3, TimeAssumption DEF Losses
<1>5. (MaxLost + 1) * (HB + Round) = MaxLost * (HB + Round) + (HB + Round) /\ MaxLost * (HB + Round) \in Nat
  BY <1>2, <1>3, TimeAssumption
<1> DEFINE all == MaxLost * (HB + Round)
<1>6. all + (HB + Round) + Round + Delay < TTL /\ Losses(k) <= all /\ all \in Nat
  BY <1>4, <1>5, LeaseAssumption
<1> HIDE DEF all
<1> QED BY <1>4, <1>6, TimeAssumption

LEMMA InitInv == Init => IInv
<1> SUFFICES ASSUME Init PROVE IInv
  OBVIOUS
<1>1. /\ ttl \in [Peer -> -1..TTL] /\ quiet \in 0..TTL + 1
      /\ missed \in 0..MaxLost /\ timer \in 0..TTL
  BY TimeAssumption DEF Init
<1>2. HB \in 0..HB
  BY TimeAssumption
<1>3. left \in 0..(IF send = "wait" THEN HB ELSE Round)
  BY <1>2 DEF Init
<1>4. heard \in BOOLEAN
  BY Zenon DEF Init
<1>5. TypeOK
  BY <1>1, <1>3, <1>4 DEF Init, TypeOK
<1>6. QuietInv /\ HeardInv
  BY DEF Init, QuietInv, HeardInv
<1> QED BY <1>5, <1>6 DEF IInv

\* The leader keeps its clocks, and the promise the lease relies on.
LEMMA LeaderStep ==
  ASSUME IInv, LeaderNext
  PROVE  IInv'
<1> USE TimeAssumption, NilAssumption DEF IInv, leaderVars, memberVars, historyVars, NoFlight
<1>1. ASSUME NEW p \in Peer, LeaderBegins(p) PROVE IInv'
  <2>1. ~heard /\ ~heard'
    BY <1>1 DEF LeaderBegins, HeardInv
  <2>2. TypeOK' /\ QuietInv'
    BY <1>1 DEF LeaderBegins, TypeOK, QuietInv
  <2> QED BY <2>1, <2>2 DEF HeardInv
<1>2. CASE LeaderEnds
  <2>1. HB \in 0..HB /\ 0 \in 0..MaxLost
    OBVIOUS
  <2>2. /\ left' \in 0..(IF send' = "wait" THEN HB ELSE Round)
        /\ missed' \in 0..MaxLost
    BY <1>2, <2>1 DEF LeaderEnds
  <2>3. heard' \in BOOLEAN
    BY <1>2, Zenon DEF LeaderEnds
  <2>4. TypeOK'
    BY <1>2, <2>2, <2>3 DEF LeaderEnds, TypeOK
  <2>5. QuietInv' /\ HeardInv'
    BY <1>2 DEF LeaderEnds, QuietInv, HeardInv
  <2> QED BY <2>4, <2>5
<1>3. CASE StartRound
  <2>1. TypeOK' /\ QuietInv'
    BY <1>3 DEF StartRound, TypeOK, QuietInv
  <2>2. HeardInv'
    BY <1>3 DEF StartRound, TypeOK, HeardInv, NextDial, Losses
  <2> QED BY <2>1, <2>2
<1>4. CASE SendHeartbeat
  <2>1. TypeOK' /\ QuietInv'
    BY <1>4 DEF SendHeartbeat, TypeOK, QuietInv
  <2>2. HeardInv'
    BY <1>4, LossesStep DEF SendHeartbeat, TypeOK, HeardInv, NextDial
  <2> QED BY <2>1, <2>2
<1>5. CASE LoseHeartbeat
  <2>1. TypeOK' /\ QuietInv'
    BY <1>5 DEF LoseHeartbeat, TypeOK, QuietInv
  <2>2. Losses(missed)' = Losses(missed') /\ Losses(missed) = Losses(missed') + HB + Round
    BY <1>5, LossesStep DEF LoseHeartbeat, TypeOK, Losses
  <2>3. HeardInv'
    BY <1>5, <2>2, LossesStep DEF LoseHeartbeat, TypeOK, HeardInv, NextDial
  <2> QED BY <2>1, <2>3
<1>6. CASE EndRound
  <2>1. TypeOK' /\ QuietInv'
    BY <1>6 DEF EndRound, TypeOK, QuietInv
  <2>2. HeardInv'
    BY <1>6, LossesStep DEF EndRound, TypeOK, HeardInv, NextDial, Losses
  <2> QED BY <2>1, <2>2
<1> QED BY <1>1, <1>2, <1>3, <1>4, <1>5, <1>6 DEF LeaderNext

\* A message of p renews the lease of p, and of no other.
LEMMA UpdateTTLKeeps ==
  ASSUME IInv, NEW p \in Peer, UpdateTTL(p), UNCHANGED <<watch, timer>>,
         marked' \subseteq marked \cup {p}
  PROVE  /\ ttl' \in [Peer -> -1..TTL] /\ quiet' \in 0..TTL + 1 /\ QuietInv'
         /\ ttl'[p] = TTL /\ \A q \in Peer : ttl'[q] >= ttl[q]
BY TimeAssumption DEF IInv, TypeOK, QuietInv, UpdateTTL

\* What the leader promises holds from the moment a heartbeat of it arrives.
LEMMA RenewedInv ==
  ASSUME TypeOK, leader \in Peer
  PROVE  TTL > NextDial + Losses(missed) + Delay
<1>1. missed \in 0..MaxLost /\ Losses(missed) \in Nat
  BY LossesStep DEF TypeOK
<1>2. NextDial <= Round + HB + Round /\ NextDial \in Nat
  BY TimeAssumption DEF TypeOK, NextDial
<1> QED BY <1>1, <1>2, LossesBound, TimeAssumption

\* Whatever arrives at the member keeps the invariant.
LEMMA ReceiveStep ==
  ASSUME IInv,
         ReceiveHeartbeat \/ ReceiveObject \/ \E p \in Peer : ReceiveRequest(p)
  PROVE  IInv'
<1> USE TimeAssumption, NilAssumption DEF leaderVars
<1>1. CASE ReceiveHeartbeat
  <2> DEFINE p == flight.from
  <2>1. /\ p \in Peer /\ ReceiveAppendEntry(p) /\ flight' = NoFlight
        /\ heard' = (heard \/ p = leader)
    BY <1>1 DEF ReceiveHeartbeat, IInv, TypeOK
  <2>2. /\ UpdateTTL(p) /\ UNCHANGED <<leader, send, left, missed, watch, timer>>
        /\ marked' \subseteq marked \cup {p}
    BY <2>1 DEF ReceiveAppendEntry, IInv, TypeOK
  <2> HIDE DEF p
  <2>3. /\ ttl' \in [Peer -> -1..TTL] /\ quiet' \in 0..TTL + 1 /\ QuietInv'
        /\ ttl'[p] = TTL /\ \A q \in Peer : ttl'[q] >= ttl[q]
    BY <2>1, <2>2, UpdateTTLKeeps
  <2>4. TypeOK'
    BY <2>1, <2>2, <2>3 DEF IInv, TypeOK
  <2>5. HeardInv'
    <3>1. CASE p = leader
      <4>1. TTL > NextDial + Losses(missed) + Delay
        BY <2>1, <3>1, RenewedInv DEF IInv
      <4> QED BY <2>1, <2>2, <2>3, <3>1, <4>1 DEF HeardInv, NoFlight, NextDial, Losses
    <3>2. CASE p # leader
      <4> SUFFICES ASSUME heard' PROVE HeardInv'
        BY DEF HeardInv
      <4>1. heard
        BY <2>1, <3>2
      <4>2. heard => leader \in Peer /\ ttl[leader] > NextDial + Losses(missed) + Delay
        BY <3>2 DEF IInv, HeardInv, p
      <4>3. missed \in 0..MaxLost /\ Losses(missed) \in Nat /\ NextDial \in Nat
        BY LossesStep DEF IInv, TypeOK, NextDial
      <4>4. leader \in Peer => ttl'[leader] >= ttl[leader] /\ ttl[leader] \in Int /\ ttl'[leader] \in Int
        BY <2>3 DEF IInv, TypeOK
      <4>5. NextDial' = NextDial /\ Losses(missed)' = Losses(missed) /\ leader' = leader
        BY <2>2 DEF NextDial, Losses
      <4>6. flight'.from # leader'
        BY <2>1, <4>1, <4>2, <4>5 DEF NoFlight
      <4>7. ttl'[leader] > NextDial + Losses(missed) + Delay
        BY <4>1, <4>2, <4>3, <4>4
      <4> QED BY <4>1, <4>2, <4>5, <4>6, <4>7 DEF HeardInv
    <3> QED BY <3>1, <3>2
  <2> QED BY <2>3, <2>4, <2>5 DEF IInv
<1>2. ASSUME NEW p \in Peer, (ReceiveObject /\ p = leader) \/ ReceiveRequest(p)
      PROVE  IInv'
  <2>1. UNCHANGED <<leader, send, left, missed, flight, heard, watch, timer>>
    BY <1>2 DEF ReceiveObject, ReceiveAppendEntry, ReceiveRequest
  <2>2. UpdateTTL(p) /\ marked' \subseteq marked \cup {p}
    BY <1>2 DEF ReceiveObject, ReceiveAppendEntry, ReceiveRequest, IInv, TypeOK
  <2>3. /\ ttl' \in [Peer -> -1..TTL] /\ quiet' \in 0..TTL + 1 /\ QuietInv'
        /\ \A q \in Peer : ttl'[q] >= ttl[q]
    BY <2>1, <2>2, UpdateTTLKeeps
  <2>4. TypeOK'
    BY <2>1, <2>2, <2>3 DEF IInv, TypeOK
  <2>5. HeardInv'
    <3>1. leader \in Peer => ttl'[leader] >= ttl[leader] /\ ttl[leader] \in Int /\ ttl'[leader] \in Int
      BY <2>3 DEF IInv, TypeOK
    <3>2. missed \in 0..MaxLost /\ Losses(missed) \in Nat /\ NextDial \in Nat
      BY LossesStep DEF IInv, TypeOK, NextDial
    <3>3. flight.from # Nil => flight.left \in Nat
      BY DEF IInv, TypeOK, NoFlight
    <3> QED BY <2>1, <3>1, <3>2, <3>3 DEF IInv, HeardInv, NextDial, Losses
  <2> QED BY <2>3, <2>4, <2>5 DEF IInv
<1> QED BY <1>1, <1>2 DEF ReceiveObject, IInv, TypeOK

\* What the member does about leases sets its timer to one that is left.
LEMMA WatchStep ==
  ASSUME IInv, WatchLeader \/ AwaitLeaderTTL \/ BecomeMember \/ ForwardCommand
  PROVE  IInv'
<1> USE TimeAssumption, NilAssumption DEF IInv, leaderVars, historyVars
<1>1. UNCHANGED <<leader, send, left, missed, flight, ttl, heard, quiet>>
  BY DEF WatchLeader, AwaitLeaderTTL, BecomeMember, ForwardCommand
<1>2. marked' \subseteq marked
  BY DEF WatchLeader, AwaitLeaderTTL, BecomeMember, ForwardCommand, GetTimeRemaining
<1>3. /\ watch' \in {"member", "watching", "candidate"} /\ timer' \in 0..TTL
      /\ watch' = "watching" =>
           \/ watch = "watching" /\ timer' = timer
           \/ \E p \in marked : ttl[p] >= 0 /\ timer' = ttl[p]
  <2>1. CASE WatchLeader
    BY <2>1 DEF WatchLeader, TypeOK
  <2>2. CASE AwaitLeaderTTL
    BY <2>2 DEF AwaitLeaderTTL, TypeOK
  <2>3. CASE BecomeMember \/ ForwardCommand
    BY <2>3 DEF BecomeMember, ForwardCommand, TypeOK
  <2> QED BY <2>1, <2>2, <2>3
<1>4. TypeOK'
  BY <1>1, <1>2, <1>3 DEF TypeOK
<1>5. QuietInv'
  BY <1>1, <1>2, <1>3 DEF TypeOK, QuietInv
<1>6. HeardInv'
  BY <1>1 DEF HeardInv, NextDial, Losses
<1> QED BY <1>4, <1>5, <1>6

\* Time takes from what is left of every lease, and of what it has to outlast.
LEMMA TickStep ==
  ASSUME IInv, Tick
  PROVE  IInv'
<1> USE TimeAssumption, NilAssumption DEF IInv
<1>1. ttl' \in [Peer -> -1..TTL] /\ \A p \in Peer : ttl'[p] = Less(ttl[p])
  BY DEF Tick, TypeOK, Less
<1>2. TypeOK'
  <2>1. left' \in 0..(IF send = "wait" THEN HB ELSE Round)
    BY DEF Tick, TypeOK
  <2>2. flight' \in {NoFlight} \cup [from : Peer, left : 0..Delay]
    BY DEF Tick, TypeOK
  <2>3. timer' \in 0..TTL /\ quiet' \in 0..TTL + 1
    BY DEF Tick, TypeOK
  <2> QED BY <1>1, <2>1, <2>2, <2>3 DEF Tick, TypeOK
<1>3. QuietInv'
  BY <1>1 DEF Tick, TypeOK, QuietInv, Less
<1>4. HeardInv'
  <2> SUFFICES ASSUME heard' PROVE HeardInv'
    BY DEF HeardInv
  <2>1. heard /\ leader \in Peer /\ leader' = leader /\ send' = send /\ missed' = missed
    BY DEF Tick, HeardInv
  <2>2. left > 0 /\ left' = left - 1 /\ NextDial' = NextDial - 1 /\ NextDial \in Nat
    BY <2>1 DEF Tick, TypeOK, NextDial
  <2>3. Losses(missed)' = Losses(missed) /\ Losses(missed) \in Nat
    BY <2>1, LossesStep DEF TypeOK, Losses
  <2>4. CASE flight.from = leader
    <3>1. flight # NoFlight /\ flight.left \in Nat /\ flight.left > 0
      BY <2>1, <2>4 DEF Tick, TypeOK, NoFlight
    <3>2. flight'.from = leader /\ flight'.left = flight.left - 1
      BY <2>4, <3>1 DEF Tick, TypeOK
    <3> QED BY <1>1, <2>1, <2>4, <3>1, <3>2 DEF TypeOK, HeardInv, Less
  <2>5. CASE flight.from # leader
    <3>1. flight'.from # leader
      BY <2>5 DEF Tick, TypeOK, NoFlight
    <3> QED BY <1>1, <2>1, <2>2, <2>3, <2>5, <3>1 DEF TypeOK, HeardInv, Less
  <2> QED BY <2>4, <2>5
<1> QED BY <1>2, <1>3, <1>4

LEMMA StepInv == IInv /\ [Next]_vars => IInv'
<1> SUFFICES ASSUME IInv, [Next]_vars PROVE IInv'
  OBVIOUS
<1>1. CASE UNCHANGED vars
  BY <1>1 DEF vars, leaderVars, memberVars, historyVars, IInv, TypeOK, QuietInv, HeardInv,
     NextDial, Losses, NoFlight
<1> QED BY <1>1, LeaderStep, ReceiveStep, WatchStep, TickStep DEF Next, MemberNext

LEMMA InvCorrect == Spec => []IInv
BY InitInv, StepInv, PTL DEF Spec

-----------------------------------------------------------------------------
\* Every clock stays within the time it is set to (UpdateTTL, startLeader).
THEOREM LeaseTypeCorrect == Spec => []TypeOK
<1>1. IInv => TypeOK
  BY DEF IInv
<1> QED BY <1>1, InvCorrect, PTL

\* A member does not go on watching after no peer it takes for leader has been
\* heard of for the time of a lease (awaitLeaderTTL, CheckLeaderTimeout).
THEOREM SilenceNoticedCorrect == Spec => []SilenceNoticed
<1>1. IInv => SilenceNoticed
  BY TimeAssumption DEF IInv, TypeOK, QuietInv, SilenceNoticed
<1> QED BY <1>1, InvCorrect, PTL

\* A leader that was heard and is taken for leader is not given up while it goes
\* on, but for the mark of another peer whose lease is over (awaitLeaderTTL,
\* sendLogUpdates).
THEOREM LiveLeaderKeptCorrect == Spec => LiveLeaderKept
<1>1. ASSUME IInv, [Next]_vars
      PROVE  [watch' = "candidate" /\ watch # "candidate" /\ heard /\ leader \in marked
                => \E p \in marked \ {leader} : ttl[p] < 1]_vars
  <2> SUFFICES ASSUME Next, watch' = "candidate", watch # "candidate", heard, leader \in marked,
                      \A p \in marked \ {leader} : ~(ttl[p] < 1)
               PROVE  FALSE
    BY <1>1
  <2> USE TimeAssumption
  <2>1. leader \in Peer /\ ttl[leader] >= 1
    <3>1. leader \in Peer /\ ttl[leader] \in Int /\ NextDial \in Nat /\ Losses(missed) \in Nat
      BY <1>1, LossesStep DEF IInv, TypeOK, HeardInv, NextDial
    <3>2. flight.from = leader => flight.left \in Nat
      BY <1>1, <3>1, NilAssumption DEF IInv, TypeOK, NoFlight
    <3> QED BY <1>1, <3>1, <3>2 DEF IInv, HeardInv
  <2>2. WatchLeader \/ AwaitLeaderTTL
    BY DEF Next, LeaderNext, MemberNext, LeaderBegins, LeaderEnds, StartRound, SendHeartbeat,
       LoseHeartbeat, EndRound, ReceiveHeartbeat, ReceiveObject, ReceiveAppendEntry,
       ReceiveRequest, BecomeMember, ForwardCommand, Tick, memberVars
  <2>3. marked # {} /\ \A p \in marked : ~(ttl[p] < 0) /\ ~(ttl[p] < 1)
    BY <1>1, <2>1 DEF IInv, TypeOK
  <2>4. CASE WatchLeader
    BY <2>3, <2>4 DEF WatchLeader
  <2>5. CASE AwaitLeaderTTL
    BY <2>3, <2>5 DEF AwaitLeaderTTL
  <2> QED BY <2>2, <2>4, <2>5
<1> QED BY <1>1, InvCorrect, PTL DEF Spec, LiveLeaderKept

=============================================================================
