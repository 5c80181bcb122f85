# Verification of the K8s geographical failover POC

TLA+ specifications of the POC, the TLC runs that check them on small instances
and the theorems TLAPS proves about them. Paths are relative to the repository
(`raft/raft.go`), line numbers to the commit the project was written against.
`PROJECT.json` maps every definition that models code to its lines.

## The system

One POC process runs beside each Kubernetes cluster. All processes know each
other's addresses from the command line. In every process:

| Component | State | Operations | Talks to |
|---|---|---|---|
| Raft layer, `raft/raft.go` | `role`, `term`, `commitLog`, the nil channel `newTerm`, `newLeaderCh` | `startRAFT` (member, candidate, leader loop), `handleRpc` for three RPCs, `commitObject` | peers over `network`, the CLI by `appendEntryCli`, the kube client by `toCluster` |
| Peer table, `raft/routing.go`, `raft/peer.go` | an entry with role and lease (`ttl`) per peer, and one for itself | `MakeLeader`, `WipeLeader`, `GetLeaderAddr`, `GetLeaderTimeout`, `UpdateTTL` | called by the Raft layer without locks |
| Network, `network/` | none | one TCP connection per request, answered within 2 s or closed | |
| Kube client, `kube/kube_client.go` | the loop of `Start` | creates committed objects, announces node ports and nodes, health checks | the API server, the proxy by two unbuffered channels |
| Proxy, `proxy/proxy.go` | `activeClusterPorts` (port to socket), `activeClusterNodes`, `peerNodes` | `checkNewPorts`, `listenPort`, `forwardToCluster`, `proxyRequest`, `listenProxies` | clients, the local cluster, the proxies of peers |
| CLI and wiring, `poc/client.go`, `cmd.go` | none | two fixed commands | the Raft layer |

What is hard here: every RPC, every command, every commit and every announcement
has a goroutine of its own; locks protect single reads and writes, never a test
and the update it guards; channels are unbuffered and one is nil; timeouts of
2, 3, 5 and 20 s overlap; messages get lost; nothing is persisted. The
`hazards` of `PROJECT.json` list these places one by one, with the properties
that watch them.

What makes the components correct:

- Raft layer: a leader has a majority; nothing enters a log that was not
  confirmed; logs only grow, by committed objects; logs agree and hold an object
  once; members catch up; commands are answered, and "ok" means committed.
- Kube client and port registry: a service of the cluster has an open proxy
  socket, a socket of a vanished service is closed, and map and sockets match.
- Peer table: a live leader is not given up, a silent one is.
- Request failover: a request is answered once, by the local cluster or by a
  peer's, runs at most once in each, and no client is left waiting.
- Peer selection: every peer stays in the list.

## Modules

| Module | What it is |
|---|---|
| `Raft` | Raft layer, peer table and network of all processes |
| `ReplicatedLog` | what the Raft layer promises about its logs and to whoever types a command; `Raft` implements it |
| `RaftTypeProofs`, `RaftProofs` | theorems about `Raft`: types, elections, commits, commands, fetches |
| `RaftLogProofs` | theorems about `Raft`: agreement of the logs |
| `ClusterAnnounce` | one process between its log and its proxy: kube client and port registry |
| `ClusterAnnounceProofs` | theorems about `ClusterAnnounce` |
| `ProxyFailover` | the proxies of all processes and the requests they forward |
| `Failover` | what the proxies promise about a request; `ProxyFailover` implements it |
| `ProxyFailoverProofs` | theorems about `ProxyFailover` |
| `PeerShuffle`, `PeerShuffleProofs` | the peer list one process picks from, and theorems about it |
| `LeaderLease`, `LeaderLeaseProofs` | leases, timers and heartbeats of one member, with time, and theorems about them |
| `MC...` | what the configurations need: symmetry sets, sets of ports, lists of peers |

The modules share no variables. They meet where the code's components meet on one
value: `Raft` hands committed objects over (`addCommit`), which `ClusterAnnounce`
takes from any log (`HandOver`); `ClusterAnnounce` keeps the sockets whose clients
`ProxyFailover` serves; `ProxyFailover` picks any peer and `PeerShuffle` says how;
`Raft` lets a lease end at any time and `LeaderLease` says when.

Operators whose comment starts with *Fault* are variants of the definition that
follows them with a plausible bug; nothing uses them. Substituted for that
definition they make TLC refute the property `PROJECT.json` pairs them with,
which shows that the property notices such a bug.

### Raft

Variables follow the fields of `RAFT`. `leaders[n]` is the set of addresses whose
table entry (the node's own included) has role LEADER, since `MakeLeader` demotes
nobody. `loop[n]` and `nextTerm[n]` are the control state and the local `newTerm`
of `startRAFT`. `handlers`, `fetchers` and `commits` are goroutines that wait:
`handleRpc` between its test of the term and the write (or blocked on
`newLeaderCh`), `handleRpc` in its fetch loop, and `commitObject`. `net` and
`replies` are packets under way; `conn` names the TCP connection by the election,
call or fetch loop that opened it, so an answer can only reach whoever asked.
`grants`, `accepts` and `added` are history that only the properties read.

`ReplicatedLog` has the logs, the set of committed objects and what is known of each
object where it was submitted. The refinement mapping takes them from `commitLog`,
`added` and `cli`. An object may be committed, and committed again, after its
submission was given up: the code promises no more, since a member's timer of 3 s does
not stop the leader's round.

A member appends the object of its own forwarded write when the answer comes, at the
length its log has by then (`LeaderAnswers`); if it has fetched the entry meanwhile the
object is in its log twice. `StableLogsAgree` and `ObjectsLoggedOnce` are therefore
stated for logs that only leaders add to.

How the code is cut into steps:

- A goroutine is one step from one blocking point (channel, answer, timer) to the
  next. The exception is a term that is tested at `raft.go:501`, `530`, `534` and
  written a line later, or read at 211 and written at 212: those are two steps,
  because the race between them has consequences. So are the leader's two tests of
  its role for a member's write, in `handleRpc` (`AcceptWrite`, 538) and in
  `commitObject` (`CommitWrite`, 362): a leader deposed in between forwards the write.
  Other consecutive reads of a handler (role, log length) are taken together.
- `InitRaft` never makes `newTerm`. A receive from a nil channel never happens and
  a send never returns, so the `select` cases on it are dead and a handler that
  sends on it is finished as far as the state is concerned.
- Time is abstracted: an awaited timer may fire at any moment, a lease may be found
  expired whenever it is read. `UpdateTTL`, which only moves a lease's end, has no
  effect in the model. The case of a lease with exactly 0 ns left is left out.
- A message that is never delivered is lost. Requests are not duplicated (TCP).
  Of a leader's heartbeats to a peer only the latest is in flight. The answers
  to heartbeats are not modelled: their sender does not read them.
- The node's own address in its table can be marked leader; a request to oneself
  is ignored by `IsPeer`. With no leader marked the address is "" and the dial fails.
- `Restart` models a process that ends and is started again. Requests it sent may
  still be in a peer's socket; its connections are gone.

### ClusterAnnounce

`objects` is what the API server has; services are named by their node port.
`announcements` holds the lists whose goroutines wait on `portChan`, oldest first,
and `ReceivePorts(i)` takes any of them. `starting` counts `listenPort` goroutines
that have not got the lock, `listening` the ports with an open socket,
`activeClusterPorts` the keys of the map. Only the last socket bound to a port can
be open, and binding always enters the map, so a set of keys is enough.
`RemovePorts` is the second loop of `checkNewPorts` with its actual effect: socket
`k` is closed and key `k + Shift` deleted; as Go's `range` skips a key deleted
before its turn, a stale key may also go unvisited: with the node ports 30010 and
30110 the socket closed is the first port's and the key deleted the second's, whose
socket stays open. `SocketsKept` says that sockets drop out of the map in this way
only, after a deletion or an overtaken list. The API server refusing an
object, a list failing (`log.Panic` ends the process and closes its sockets), services added or
deleted by others and proxy ports that another program binds and frees (`taken`,
`TakePort`, `FreePort`, within `Foreign`) are choices. `overtaken` and `deleted` are
history.

### ProxyFailover

Each request has two goroutines that matter at a time: `handler[r]`, the one of
`listenPort`, is in `forwardToCluster` ("local"), about to call `proxyRequest`
("proxy") or waiting for the peer's packet ("peer"). `call[s][r]` is
`forwardToCluster` at site `s`, called by `listenPort` where the client is and by
`listenProxies` at the peer, and `worker[s][r]` the goroutine it leaves the talking
to. The two meet on the unbuffered channels `failure` and `kubResp`: a worker that
is "failed" or "ready" waits for the `select`, in vain once the timer has fired.
Then `kubResp` is closed, and a ready worker's send panics: `LateAnswerPanics` ends
the process. `conn[r]` is the TCP connection between the two proxies.

- A node may fail, answer or stay silent at any time; each request is written to
  the node at most once per worker (`ran`).
- The lists of `startAnnounceClusterNodes` are any set of nodes, and empty if they
  cannot be had. The empty strings it puts before the addresses are skipped by
  `forwardToCluster` and are left out.
- Sizes are a property of the request (`LargeRequest`, `LargeAnswer`): whether such a
  packet is decoded is a choice, as it depends on how TCP cuts the stream. A dropped
  packet leaves the connection open until the Go runtime collects it (`CloseDropped`,
  without fairness).
- A process ends by a late answer or by `log.Panic` when services cannot be listed
  (`AnnouncePanics`). Its sockets are closed, which its clients and the proxies that
  wait for it notice; what it has written, an answer to a peer included, is still
  delivered. It may be restarted,
  without its node list.
- A request whose client gives up is not modelled, nor an error on writing a reply:
  the code logs it. A request at a port is sent once by its client.

`Failover` has two variables: the reply of each request and how often it ran where.
`ProxyFailover` has both under the same names, so the refinement mapping is the
identity on them.

### PeerShuffle

The `range` loop of `getRandomPeerAddr` swaps entries of the one `peerNodes` without a
lock. A swap is two loads and two stores, each a step, so two goroutines can
interleave within it. The race is on Go strings, which are two words: that peers'
addresses are equally long is assumed, so that a torn read yields one of the names.
`PeersKept` is stated for a goroutine nobody joins (`solo`), and the model shows what
happens otherwise: one peer twice and another never again, as nothing restores the
list.

### LeaderLease

One member and the processes it watches, in discrete time; `Tick` lets a unit pass
unless a timer is due. The leader's loop (`send`, `left`) waits `HB`, then dials all
peers one after the other, which takes at most `Round`; a heartbeat arrives within
`Delay` or is lost, at most `MaxLost` in a row. `ttl[p]` is the rest of the lease in
`Peer.ttl`, renewed by any message of `p`; `marked` the entries with role LEADER, set
by a granted vote and by nothing else while the member watches, wiped by
`WipeLeader`, and cleared one by one where an expired lease is looked at. `watch` is
the member's loop: about to call `watchLeader`, watching with `timer` set, or a
candidate. The channel `newTerm` is nil, so no message ends the wait. Elections are
left open: any peer may begin and cease to lead, ask for votes and be granted them,
stale or not. `LiveLeaderKept` allows a live leader to be given up in one case, which
the code has: another peer is still marked and its lease is over (`routing.go:108`). The unit of the run is 5/3 s: 20 s of lease are 12,
5 s between rounds are 3.

## Runs

All Raft bounds are guards on `MaxElections`, `MaxCalls`, `MaxLog`, `MaxRestarts`,
`MaxEvents` and the size of `FetchId`; when they are used up the model stops, which is why
the Raft configurations do not check for deadlock. `ProxyFailover` ends too, when
every request has its reply. The other models never stop, and their runs do check
for deadlock.

| Run | Instance | Shows |
|---|---|---|
| `raft_two_nodes` | 2 nodes, and of 2 commands, 2 elections and 1 restart any 4 | types, majorities, confirmation, fetches, agreement and single entries in the sound circumstances, refinement of `ReplicatedLog` |
| `raft_four_nodes` | 4 nodes, 1 command, no fetching | majorities and confirmation where a quorum is two answers |
| `raft_fair` | 2 nodes, 2 commands, 1 election, fair | commands are answered, members catch up |
| `ports_served` | ports 30010 and 30110, the first committed, one proxy port free to others, 2 lists waiting, 2 listeners of a port starting, fair | types; which sockets drop out of the map; map and sockets agree while services are only added and lists come in order; sockets open and close in the end |
| `proxy_failover` | 2 sites, 1 node each, 2 requests, one of them too large both ways, 2 node lists, 1 end of a process, fair | one reply and at most one run per cluster, no lost answer, no client waits for somebody who has left, or for ever |
| `peer_shuffle` | 2 goroutines, 3 peers | every entry stays a peer, a lone shuffle keeps all |
| `leader_lease` | 2 peers, lease 12, period 3, round 1, delay 2, 1 loss in a row | a live leader is kept but for a stale mark whose lease is over, silence is noticed |

Why the bounds are enough: in `raft_two_nodes` any four of two elections, two commands
and a restart happen, so a restart meets competing elections or two commands, but not
both (with `MaxEvents = 5` the run holds too, on six times the states). Two elections
give competing candidates, late votes
and a leader overtaken by another; two calls give a member's write with the
leader's round for it; two commands give logs that can differ; one fetch loop per
node with logs of length two gives a fetch of several entries, and two loops give
the overlap `raft_two_fetch_loops` needs. Node ports 30010 and 30110 are a shift
apart, the only distance at which they meet in the map. Two lists waiting give an
overtaken announcement, two listeners of a port a bind that finds it in use or
comes after a close; one committed service and others made and deleted by other clients
are the CLI's case, and a deployment differs from a refused object in nothing the model
keeps, so the runs have none. In
`ProxyFailover` two requests give a late answer of one that ends the process under
the other, one end an end before, within and after each step of the failover, and
two node lists a list that fills and one that empties; a second node per cluster
would only be another first choice, as no second is tried. Clients at the second
site would mirror those at the first. Two goroutines are what a race takes, and
three entries the smallest list with an entry neither is at. In `LeaderLease` two
peers give a leader and a stale mark, and its assumption is tight: 12 is
one more than (1 + 1) * (3 + 1) + 1 + 2. In `raft_fair` the log
bound is as large as the number of calls, so that it never keeps a commit from
finishing. Four nodes leave no room for fetch loops, which the two node runs
cover. Symmetry of nodes and
of commands is used in the safety runs only. The safety properties of the passing runs
are also proved for all sizes.

Runs that refute what the repository says of itself (`findings` of `PROJECT.json`
quote the lines):

| Run | Says | Happens |
|---|---|---|
| `raft_two_fetch_loops` | "fully replicated cluster object logs" | two fetch loops append one entry twice |
| `raft_votes` | a vote needs a "greater term" | two handlers test the term before either writes it |
| `raft_forward_quorum` | a member's write is sent "to leader for quorum" | a node that is not leader confirms it alone |
| `raft_deposed` | `newTerm` is consumed for "candidate and leader states" | the channel is nil: a candidate that took over a later term from a vote request still wins its older election, and stays leader of a term it never campaigned for |
| `ports_running` | "PORT ALREADY EXIST AND RUNNING" | a list without the service (deleted, or made before it existed and received late) closes the socket, whose key stays |

### Fairness

`Raft!FairSpec`: a goroutine that can go on does (weak fairness for the leader's
tick, for deciding an election, for handlers past their test and for the timers
of `commitObject`, which the Go runtime guarantees). Watching a lease has none,
since any message renews it. Of the network it is assumed that what is sent again
and again arrives again and again, and that the answer to a fetch now and then
beats its timer (strong fairness); nothing is assumed of single messages. The
properties hold for members that keep following a leader, so no election is
assumed to succeed.

`ClusterAnnounce!FairSpec`: every goroutine goes on, a blocked sender is served
(Go's channels queue senders), the announcement timer fires. The timer restarts
with every object created, so strictly it fires only once commits pause; endless
commits are not what the two properties are about. No fairness is assumed of the
environment, nor that the API server answers: a panic ends the obligations.

`ProxyFailover!FairSpec`: goroutines that can go on do, and the `select` of
`forwardToCluster` is left in the end, by its timer if nothing else (weak fairness).
Nothing is assumed of nodes, workers, node lists, the garbage collector or restarts.
That is enough for `ClientsHearBack`, as the code waits without a timer in one place
only, for the peer's packet: and the peer's own wait has a timer, or the peer ends.
A host that vanishes without closing its connections would leave the client waiting;
the property is about processes that end.

`PeerShuffle` and `LeaderLease` state safety only. The timing of the latter is in its
`Tick`: timers fire when due, rounds and messages take no longer than their bounds.

## Proofs

Checked by TLAPS for every value of the constants, under the assumptions the modules
name. `Raft` and `ClusterAnnounce`: finitely many and at least two nodes, a null value
that is no node and no command, positive ports and shift. `ProxyFailover`: ports and sizes are of sites and requests that exist, the null
value is no site and no node. `PeerShuffle`: the list is not empty. `LeaderLease`: times
are naturals, a lease outlasts `MaxLost` lost heartbeats and a slow round
(`LeaseAssumption`), and a heartbeat arrives before the next is sent
(`DelayAssumption`). The code's 20 s and 5 s satisfy the former with two losses if
rounds and delays stay below a second.

- `TypeCorrect`, `AnnounceTypeCorrect`: the type invariants.
- `ElectionSafe`: `LeaderHasMajority`. It is not inductive: a leader's voters have
  to be traced back. `ElectionInv` adds that a vote on its way was granted
  (`VotesGranted`), that a vote counted was granted in the election the node is in
  (`VotesCounted`), and that a leader has counted a quorum in its last election
  (`LeadersElected`). Elections have fresh numbers, so a late vote belongs to an
  older one; the quorum and the node are a majority by the parity of the table.
- `CommitSafe`: `EntriesConfirmed`, through restarts. `CommitInv` adds that all
  that claims to belong to one call speaks of the same command (`ClaimsAgree`),
  that a confirmation on its way was given and one counted was given
  (`ConfirmationsGiven`, `ConfirmationsCounted`), and that a fetched entry on its
  way was added by some commit (`FetchedEntriesAdded`).
- `ReplicatedLogImplemented`: every step of `Raft` is a step of `ReplicatedLog`
  under `log <- commitLog`, `committed <- {a.cmd : a \in added}`, `answer <- cli`, or
  leaves all three alone. `Learn` needs `FetchedEntriesAdded`. The answers need
  `CommandInv`: whatever speaks of an object has its command typed (`OnlySubmitted`),
  and the one call that answers a CLI finds its command pending (`OwnCallsPend`), as a
  command is answered by no other goroutine than its own `commitObject`.
- `FetchFaithful`: a fetched entry stays the entry its sender has at that index,
  because logs only grow while no process restarts.
- `StableLogsCorrect`: `StableLogsAgree`. Agreement of two members is not inductive: it
  holds because both follow one log. `LogsFollow` says that every log is a prefix of the
  log of the node that campaigns, if one alone does. It stays so because a member's
  entry is fetched and comes from that node (`CampaignInv`: only a node that has
  campaigned leads, runs a round or answers a fetch) and is appended at the index
  it was fetched from (`FetcherInv`: a fetch loop's next index is the length of its own
  log plus one, as no other loop appends; `FetchFaithful` says what the entry is).
- `ObjectsOnceCorrect`: `ObjectsLoggedOnce`. A member gives up a write after 3 s while
  the leader's round lasts up to 5 s, the write itself may still be on its way,
  and its answer late. `OneWayEach` says that there is one way at most for an object
  into the campaigner's log, a round, a write on its way to it or a handler that has
  accepted one, and none once the object is in. The other logs are prefixes.
- `SocketsKeptCorrect`: `SocketsKept`, for any node ports and shift. The `delete` of
  `checkNewPorts` meets a key only `Shift` above a stale key, and `CalmInv` says that
  there is no stale key without a deletion or an overtaken list.
- `PortsRunWhileCalm`: `CalmInv` says that, without deletion and overtaking, lists
  grow with age and each list still to be applied contains every port the proxy
  listens on or is about to; so `checkNewPorts` finds nothing stale.

- `ProxyTypeCorrect`, `RefusedCorrect`, `AttendedCorrect`, `FailoverImplemented`: the invariant of
  `ProxyFailover` has a part per goroutine. `WorkerInv` ties a worker to its call and
  `RanInv` its progress to what ran: a request that waits at `dialing` has not run in
  that cluster, one that has run did so on the node the worker talks to. `CallInv` says
  that a call exists only where the client is or at the peer, `HandlerInv` what the
  handler's place says of the local call and the reply, `ConnInv` what the connection
  says of the peer's call. So a request that ran in two clusters has used them both up,
  and an answer on the connection is one of a node it ran on. `ClientsAttended` is the
  state predicate behind `ClientsHearBack`, that whoever waits has somebody or a timer to
  wait for; it is inductive together with the rest.
- `ShuffleTypeCorrect`, `PeersKeptCorrect`: types need no care for races, as every
  store writes a loaded entry. `PeersKept` needs to know what a lone goroutine has
  loaded and stored in the middle of a swap, and that reorderings compose.
- `LeaseTypeCorrect`, `SilenceNoticedCorrect`, `LiveLeaderKeptCorrect`: `QuietInv` says
  that no lease and no timer outlasts a lease counted from the last message of a
  marked peer, `HeardInv` that the lease of a leader that was heard lasts until its
  next heartbeat comes, however many may still be lost before (`NextDial`, `Losses`).

Only model-checked: the liveness properties `EveryWriteAnswered`, `MembersCatchUp`,
`StaleSocketsClose`, `ServicesServed` and `ClientsHearBack`, as fairness and ENABLED are
outside the prover's reach.

## Not modelled, and why

- Health checks (`kube_client.go:88-125`, `187-222`): the first unhealthy report is
  logged and ends them; no state follows from it.
- gob encoding, buffer sizes, sockets and descriptors: loss is all the models
  know of them.
- `kube/kube_resources.go`: builds API objects, no state.
- `cmd.go`, the parsing of the CLI, `scripts/`, `evaluation_yaml/`: no behaviour to
  check.
- Code nothing calls: `supportCandidate`, `getSliceLog`, `MakeCandidate`,
  `BecomeLeader` and the other unused operations of the peer table.

## Plan

1. Done: `Raft`, `ReplicatedLog`, `ClusterAnnounce`, `ProxyFailover`, `Failover`,
   `PeerShuffle`, `LeaderLease` and their proofs.
2. Proofs: the state predicates behind the liveness properties of `Raft` and
   `ClusterAnnounce`, as `ClientsAttended` is for `ProxyFailover`.
3. The order in which committed objects reach the cluster, should the CLI get objects
   that depend on each other.
