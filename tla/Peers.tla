------------------------------- MODULE Peers -------------------------------
(***************************************************************************)
(* How one node treats its peers: the swarm task that owns the connections *)
(* (SwarmTask, networking/network.rs) and the network task that owns the   *)
(* peer tables (handle_network_event, node/main.rs), which talk through    *)
(* two bounded queues.  The swarm puts events with try_send, which drops   *)
(* them when the queue is full; the network task waits for room to put a   *)
(* command, so commands are never lost.                                    *)
(*                                                                         *)
(* A peer in Honest runs this program: it answers a challenge with the     *)
(* hash that was asked for and gossips only blocks of the common chain,    *)
(* up to the height TIP.  Other peers send anything, but only a peer in    *)
(* Dataset can compute a challenge's hash.  A peer may have several        *)
(* connections, in both directions, as libp2p allows.                      *)
(***************************************************************************)
EXTENDS Integers, Sequences, FiniteSets

CONSTANTS
  Peers,                    \* the remote peers
  Dataset,                  \* the peers that hold the proof-of-work dataset
  Honest,                   \* the peers that run this program
  Refiners,                 \* the peers that announce an active refiner
  Subnets,                  \* /24 prefixes
  SubnetOf,                 \* extract_subnet_24 of the address dialled: at most one prefix
  MAX_PEER_COUNT, MAX_OUTBOUND_CONNECTIONS, MAX_INBOUND_CONNECTIONS,
  MAX_PEERS_PER_SUBNET,
  MAX_HEIGHT_LOOKAHEAD,
  MAX_SYNC_BLOCKS,
  TIP,                      \* height of the common chain
  PERMANENT_AFTER,          \* the ban that no longer expires (the fourth)
  EVENT_CAPACITY,           \* of the event queue
  MaxWork                   \* bound: connections opened, messages sent by peers and
                            \* restarts, together

ASSUME PeersAssumption ==
  /\ IsFiniteSet(Peers)
  /\ Honest \subseteq Dataset /\ Dataset \subseteq Peers
  /\ Refiners \subseteq Peers
  /\ SubnetOf \in [Peers -> {{}} \cup {{s} : s \in Subnets}]
  /\ {MAX_PEER_COUNT, MAX_OUTBOUND_CONNECTIONS, MAX_INBOUND_CONNECTIONS,
      MAX_PEERS_PER_SUBNET, MAX_HEIGHT_LOOKAHEAD, MAX_SYNC_BLOCKS, PERMANENT_AFTER,
      EVENT_CAPACITY} \subseteq Nat \ {0}
  /\ TIP \in Nat
  /\ MaxWork \in Nat

VARIABLES
  connections,         \* open connections of each peer, counted
  closing,             \* connections told to close whose end is not reported yet
  events,              \* the event queue, oldest first
  commands,            \* the command queue, oldest first: peers to be disconnected
  asked,               \* challenges and sync requests the peers have not answered
  channels,            \* peers with an unanswered request: inbound_request_channels,
                       \* inbound_challenge_channels
  outbound_peers, inbound_peers, refiner_peers, verified_peers,
  pending_challenges,  \* per peer, the nonce of at most one challenge
  peer_strikes,
  subnet_counts, peer_subnets,
  banned_peers,        \* per peer, [ban_count, permanent]; count 0 is no record
  height,              \* chain.current_height
  work,                \* how much of MaxWork is spent
  nonces,              \* challenges sent so far: each has a nonce of its own
  dropped              \* a try_send found the event queue full

swarmVars == <<connections, closing, asked, channels>>

queueVars == <<events, commands, dropped>>

tableVars == <<outbound_peers, inbound_peers, refiner_peers, verified_peers,
               pending_challenges, peer_strikes, subnet_counts, peer_subnets>>

vars == <<swarmVars, queueVars, tableVars, banned_peers, height, work, nonces>>

\* The steps the environment takes of its own accord are bounded together.
Work == work < MaxWork /\ work' = work + 1 /\ UNCHANGED nonces

NoBan == [ban_count |-> 0, permanent |-> FALSE]

---------------------------------------------------------------------------
(* The queues. *)

\* event_tx.try_send: an event that finds the queue full is lost.
TrySend(e) ==
  IF Len(events) < EVENT_CAPACITY
  THEN events' = Append(events, e) /\ UNCHANGED dropped
  ELSE dropped' = TRUE /\ UNCHANGED events

\* The handler takes the first event; command_tx.send(..).await waits for room and is
\* never lost.  Only a disconnect command is kept in a queue: that a request or a response
\* is put on the wire a little later cannot be told from a slower peer.
Take == events' = Tail(events) /\ UNCHANGED <<commands, dropped>>

TakeAndDisconnect(p) ==
  /\ events' = Tail(events) /\ UNCHANGED dropped
  /\ commands' = Append(commands, p)

Ask(p, kind, arg) == asked' = asked \cup {[peer |-> p, kind |-> kind, arg |-> arg]}

Event(type, p) == events # <<>> /\ Head(events).type = type /\ Head(events).peer = p

---------------------------------------------------------------------------
(* Bans. *)

\* is_peer_banned: whether a temporary ban has run out depends on the time that has
\* passed since, which is left open.
is_peer_banned(p) ==
  LET r == banned_peers[p] IN
  IF r.ban_count = 0 THEN {FALSE}
  ELSE IF r.permanent \/ r.ban_count >= PERMANENT_AFTER THEN {TRUE} ELSE BOOLEAN

\* ban_peer; save_ban_list then writes the whole list to banned_peers.json.
ban_peer(p, permanent) ==
  LET n == banned_peers[p].ban_count + 1 IN
  banned_peers' = [banned_peers EXCEPT
       ![p] = [ban_count |-> n, permanent |-> permanent \/ n >= PERMANENT_AFTER]]

---------------------------------------------------------------------------
(* The swarm task: libp2p reports, and the node's commands are carried out. *)

\* ConnectionEstablished: the address is known only for the connections this node dialled.
ConnectionEstablished(p, dialled) ==
  /\ Work
  /\ connections' = [connections EXCEPT ![p] = @ + 1]
  /\ TrySend([type |-> "connected", peer |-> p, dialled |-> dialled])
  /\ UNCHANGED <<closing, asked, channels, commands, tableVars, banned_peers, height>>

\* ConnectionClosed: the peer, a fault or an earlier disconnect command closed it.
\* What was asked of the peer is lost with its last connection.
ConnectionClosed(p) ==
  /\ \/ closing[p] > 0 /\ closing' = [closing EXCEPT ![p] = @ - 1] /\ UNCHANGED connections
     \/ connections[p] > 0 /\ connections' = [connections EXCEPT ![p] = @ - 1] /\ UNCHANGED closing
  /\ asked' = {a \in asked : a.peer # p \/ connections'[p] > 0}
  /\ TrySend([type |-> "disconnected", peer |-> p])
  /\ UNCHANGED <<channels, commands, tableVars, banned_peers, height, work, nonces>>

\* Identify: the peer reports its protocol version and agent string.
Identify(p, compatible) ==
  /\ connections[p] > 0 /\ Work
  /\ p \in Honest => compatible
  /\ TrySend([type |-> "identified", peer |-> p, compatible |-> compatible])
  /\ UNCHANGED <<swarmVars, commands, tableVars, banned_peers, height>>

\* The gossip a peer may send.  "other" stands for what has no consequence for the peer:
\* oversized or undecodable data, an attestation, a transaction that is admitted or
\* refused for other reasons.
Gossip(p) ==
  {[topic |-> "block", kind |-> "chain", height |-> h] : h \in 1 .. TIP}
  \cup {[topic |-> "tx", kind |-> "other", height |-> 0]}
  \cup IF p \in Honest THEN {} ELSE
       {[topic |-> "block", kind |-> k, height |-> height + 1] : k \in {"fake", "invalid"}}
       \cup {[topic |-> "tx", kind |-> k, height |-> 0] : k \in {"signature", "chain_id"}}

\* gossipsub::Event::Message: the topic decides the event.
GossipReceived(p, g) ==
  /\ connections[p] > 0 /\ Work
  /\ TrySend([type |-> g.topic, peer |-> p, kind |-> g.kind, height |-> g.height])
  /\ UNCHANGED <<swarmVars, commands, tableVars, banned_peers, height>>

\* request_response::Message::Request of either protocol: the response channel is kept
\* until the node responds, also when the event is lost.
RequestReceived(p) ==
  /\ connections[p] > 0 /\ Work
  /\ channels' = channels \cup {p}
  /\ TrySend([type |-> "request", peer |-> p])
  /\ UNCHANGED <<connections, closing, asked, commands, tableVars, banned_peers, height>>

\* The hashes a peer may return for the challenge with this nonce.
Hashes(p, nonce) ==
  IF p \in Honest THEN {nonce} ELSE IF p \in Dataset THEN {nonce, 0} ELSE {0}

\* request_response::Message::Response: the answer to a challenge, or blocks from the
\* height asked for.  A request that fails, or whose response is above
\* MAX_SYNC_RESPONSE_BYTES, is one that is never answered.
ResponseReceived(a) ==
  /\ a \in asked /\ connections[a.peer] > 0
  /\ asked' = asked \ {a}
  /\ IF a.kind = "challenge"
     THEN \E hash \in Hashes(a.peer, a.arg) :
            TrySend([type |-> "answer", peer |-> a.peer, hash |-> hash])
     ELSE \E n \in 0 .. MAX_SYNC_BLOCKS :
            /\ a.arg + n <= TIP + 1
            /\ TrySend([type |-> "blocks", peer |-> a.peer, from |-> a.arg, count |-> n])
  /\ UNCHANGED <<connections, closing, channels, commands, tableVars, banned_peers, height, work, nonces>>

\* handle_command, DisconnectPeer: every connection of the peer is closed.
HandleCommand ==
  /\ commands # <<>>
  /\ commands' = Tail(commands)
  /\ LET p == Head(commands) IN
     /\ closing' = [closing EXCEPT ![p] = @ + connections[p]]
     /\ connections' = [connections EXCEPT ![p] = 0]
     /\ asked' = {a \in asked : a.peer # p}
  /\ UNCHANGED <<channels, events, dropped, tableVars, banned_peers, height, work, nonces>>

---------------------------------------------------------------------------
(* The network task: handle_network_event, one action per event. *)

\* Mutant of HasRoom: the subnet's count may reach one more than the limit.
HasRoomPlusOne(p, dialled) ==
  /\ Cardinality(inbound_peers) + Cardinality(outbound_peers) < MAX_PEER_COUNT
  /\ IF dialled
     THEN /\ Cardinality(outbound_peers) < MAX_OUTBOUND_CONNECTIONS
          /\ \A s \in SubnetOf[p] : subnet_counts[s] <= MAX_PEERS_PER_SUBNET
     ELSE Cardinality(inbound_peers) < MAX_INBOUND_CONNECTIONS

HasRoom(p, dialled) ==
  /\ Cardinality(inbound_peers) + Cardinality(outbound_peers) < MAX_PEER_COUNT
  /\ IF dialled
     THEN /\ Cardinality(outbound_peers) < MAX_OUTBOUND_CONNECTIONS
          /\ \A s \in SubnetOf[p] : subnet_counts[s] < MAX_PEERS_PER_SUBNET
     ELSE Cardinality(inbound_peers) < MAX_INBOUND_CONNECTIONS

\* The books of an accepted connection; an inbound one has no address and no subnet.
RecordConnection(p, dialled) ==
  IF dialled
  THEN /\ outbound_peers' = outbound_peers \cup {p}
       /\ subnet_counts' = [s \in Subnets |-> subnet_counts[s] + IF s \in SubnetOf[p] THEN 1 ELSE 0]
       /\ peer_subnets' = [peer_subnets EXCEPT ![p] = IF SubnetOf[p] = {} THEN @ ELSE SubnetOf[p]]
       /\ UNCHANGED inbound_peers
  ELSE /\ inbound_peers' = inbound_peers \cup {p}
       /\ UNCHANGED <<outbound_peers, subnet_counts, peer_subnets>>

\* PeerConnected: a banned or surplus peer is disconnected, any other is challenged;
\* a challenge already pending for the peer is overwritten.
PeerConnected(p) ==
  /\ Event("connected", p)
  /\ LET dialled == Head(events).dialled
         nonce == nonces + 1
     IN \E banned \in is_peer_banned(p) :
        IF banned \/ ~HasRoom(p, dialled)
        THEN /\ TakeAndDisconnect(p)
             /\ UNCHANGED <<asked, tableVars, nonces>>
        ELSE /\ RecordConnection(p, dialled)
             /\ pending_challenges' = [pending_challenges EXCEPT ![p] = {nonce}]
             /\ nonces' = nonce
             /\ Take /\ Ask(p, "challenge", nonce)
             /\ UNCHANGED <<refiner_peers, verified_peers, peer_strikes>>
  /\ UNCHANGED <<connections, closing, channels, banned_peers, height, work>>

PeerIdentified(p) ==
  /\ Event("identified", p)
  /\ IF Head(events).compatible
     THEN /\ Take
          /\ refiner_peers' = refiner_peers \cup ({p} \cap Refiners)
          /\ UNCHANGED pending_challenges
     ELSE /\ TakeAndDisconnect(p)
          /\ pending_challenges' = [pending_challenges EXCEPT ![p] = {}]
          /\ UNCHANGED refiner_peers
  /\ UNCHANGED <<swarmVars, outbound_peers, inbound_peers, verified_peers, peer_strikes,
                 subnet_counts, peer_subnets, banned_peers, height, work, nonces>>

\* Mutant of FreeSubnet: the slot is freed although the peer holds none.
FreeSubnetOfDialled(p) ==
  [s \in Subnets |-> IF s \in SubnetOf[p] /\ subnet_counts[s] > 0
                     THEN subnet_counts[s] - 1 ELSE subnet_counts[s]]

\* The peer's slot in its subnet is freed, if it holds one.
FreeSubnet(p) ==
  [s \in Subnets |-> IF s \in peer_subnets[p] /\ subnet_counts[s] > 0
                     THEN subnet_counts[s] - 1 ELSE subnet_counts[s]]

\* Mutant of PeerDisconnected: the verification outlives the connection.
PeerDisconnectedVerified(p) ==
  /\ Event("disconnected", p)
  /\ Take
  /\ peer_strikes' = [peer_strikes EXCEPT ![p] = 0]
  /\ refiner_peers' = refiner_peers \ {p}
  /\ pending_challenges' = [pending_challenges EXCEPT ![p] = {}]
  /\ outbound_peers' = outbound_peers \ {p}
  /\ inbound_peers' = inbound_peers \ {p}
  /\ subnet_counts' = FreeSubnet(p)
  /\ peer_subnets' = [peer_subnets EXCEPT ![p] = {}]
  /\ UNCHANGED <<swarmVars, verified_peers, banned_peers, height, work, nonces>>

\* PeerDisconnected: one connection has ended, and everything about the peer is forgotten.
PeerDisconnected(p) ==
  /\ Event("disconnected", p)
  /\ Take
  /\ peer_strikes' = [peer_strikes EXCEPT ![p] = 0]
  /\ refiner_peers' = refiner_peers \ {p}
  /\ verified_peers' = verified_peers \ {p}
  /\ pending_challenges' = [pending_challenges EXCEPT ![p] = {}]
  /\ outbound_peers' = outbound_peers \ {p}
  /\ inbound_peers' = inbound_peers \ {p}
  /\ subnet_counts' = FreeSubnet(p)
  /\ peer_subnets' = [peer_subnets EXCEPT ![p] = {}]
  /\ UNCHANGED <<swarmVars, banned_peers, height, work, nonces>>

\* Mutant of ChallengeResponse: a response for which no challenge is pending verifies.
ChallengeResponseUnsolicited(p) ==
  /\ Event("answer", p)
  /\ pending_challenges' = [pending_challenges EXCEPT ![p] = {}]
  /\ IF pending_challenges[p] = {} \/ Head(events).hash \in pending_challenges[p]
     THEN /\ verified_peers' = verified_peers \cup {p}
          /\ Take /\ Ask(p, "sync", height + 1)
          /\ UNCHANGED <<peer_strikes, banned_peers>>
     ELSE /\ ban_peer(p, TRUE)
          /\ TakeAndDisconnect(p)
          /\ peer_strikes' = [peer_strikes EXCEPT ![p] = 0]
          /\ UNCHANGED <<asked, verified_peers>>
  /\ UNCHANGED <<connections, closing, channels, outbound_peers, inbound_peers,
                 refiner_peers, subnet_counts, peer_subnets, height, work, nonces>>

\* ChallengeResponseReceived: the pending challenge is taken out; the right hash
\* verifies the peer and asks it for blocks, a wrong one bans it for good.
ChallengeResponse(p) ==
  /\ Event("answer", p)
  /\ pending_challenges' = [pending_challenges EXCEPT ![p] = {}]
  /\ IF pending_challenges[p] = {}
     THEN /\ Take
          /\ UNCHANGED <<asked, verified_peers, peer_strikes, banned_peers>>
     ELSE IF Head(events).hash \in pending_challenges[p]
     THEN /\ verified_peers' = verified_peers \cup {p}
          /\ Take /\ Ask(p, "sync", height + 1)
          /\ UNCHANGED <<peer_strikes, banned_peers>>
     ELSE /\ ban_peer(p, TRUE)
          /\ TakeAndDisconnect(p)
          /\ peer_strikes' = [peer_strikes EXCEPT ![p] = 0]
          /\ UNCHANGED <<asked, verified_peers>>
  /\ UNCHANGED <<connections, closing, channels, outbound_peers, inbound_peers,
                 refiner_peers, subnet_counts, peer_subnets, height, work, nonces>>

\* SyncRequestReceived, ChallengeRequestReceived: both are answered, a sync request of an
\* unverified peer with no blocks.
PeerRequest(p) ==
  /\ Event("request", p)
  /\ Take
  /\ channels' = channels \ {p}
  /\ UNCHANGED <<connections, closing, asked, tableVars, banned_peers, height, work, nonces>>

\* SyncResponseReceived: blocks are applied while each is the next one.
SyncResponse(p) ==
  /\ Event("blocks", p)
  /\ Take
  /\ LET e == Head(events) IN
     height' = IF p \in verified_peers /\ e.from = height + 1 THEN height + e.count ELSE height
  /\ UNCHANGED <<swarmVars, tableVars, banned_peers, work, nonces>>

\* is_refiner_peer
IsRefiner(p) == p \in refiner_peers

MaxStrikes(p) == IF IsRefiner(p) THEN 3 ELSE 2

\* What the gossip handlers do to a peer they ban; a bad transaction leaves its strikes.
Expel(p, permanent, strikes) ==
  /\ ban_peer(p, permanent)
  /\ TakeAndDisconnect(p)
  /\ verified_peers' = verified_peers \ {p}
  /\ pending_challenges' = [pending_challenges EXCEPT ![p] = {}]
  /\ peer_strikes' = [peer_strikes EXCEPT ![p] = strikes]
  /\ UNCHANGED height

\* A block that apply_block refuses is a strike; apply_block refuses every block that
\* is not the next one.
Strike(p) ==
  IF peer_strikes[p] + 1 >= MaxStrikes(p)
  THEN Expel(p, FALSE, 0)
  ELSE /\ Take
       /\ peer_strikes' = [peer_strikes EXCEPT ![p] = @ + 1]
       /\ UNCHANGED <<verified_peers, pending_challenges, banned_peers, height>>

gossipUnchanged == <<swarmVars, outbound_peers, inbound_peers, refiner_peers, subnet_counts,
                     peer_subnets, work, nonces>>

GossipBlock(p) ==
  /\ Event("block", p)
  /\ p \in verified_peers
  /\ LET e == Head(events) IN
     /\ height < e.height /\ e.height <= height + MAX_HEIGHT_LOOKAHEAD
     /\ IF e.kind = "fake" THEN Expel(p, TRUE, 0)
        ELSE IF e.kind = "chain" /\ e.height = height + 1
        THEN /\ Take
             /\ height' = e.height
             /\ UNCHANGED <<verified_peers, pending_challenges, peer_strikes, banned_peers>>
        ELSE Strike(p)
  /\ UNCHANGED gossipUnchanged

GossipTransaction(p) ==
  /\ Event("tx", p)
  /\ p \in verified_peers /\ Head(events).kind # "other"
  /\ Expel(p, Head(events).kind = "signature", peer_strikes[p])
  /\ UNCHANGED gossipUnchanged

\* Gossip that changes nothing: of an unverified peer, above the peer's limit for the
\* second that runs (any message may be), of an old block or one too far ahead, or "other".
GossipDropped(p) ==
  /\ Event("block", p) \/ Event("tx", p)
  /\ Take
  /\ UNCHANGED <<swarmVars, tableVars, banned_peers, height, work, nonces>>

\* Mutant of ChallengeTimeout: a peer that is banned already is passed over.
ChallengeTimeoutUnbanned(p) ==
  /\ pending_challenges[p] # {} /\ banned_peers[p] = NoBan
  /\ pending_challenges' = [pending_challenges EXCEPT ![p] = {}]
  /\ ban_peer(p, FALSE)
  /\ commands' = Append(commands, p)
  /\ UNCHANGED <<swarmVars, events, dropped, outbound_peers, inbound_peers, refiner_peers,
                 verified_peers, peer_strikes, subnet_counts, peer_subnets,
                 height, work, nonces>>

\* challenge_check_interval: a peer whose challenge was sent CHALLENGE_TIMEOUT_SECS ago is
\* banned; a tick takes the expired peers one after the other.  When that is is left open.
ChallengeTimeout(p) ==
  /\ pending_challenges[p] # {}
  /\ pending_challenges' = [pending_challenges EXCEPT ![p] = {}]
  /\ ban_peer(p, FALSE)
  /\ commands' = Append(commands, p)
  /\ UNCHANGED <<swarmVars, events, dropped, outbound_peers, inbound_peers, refiner_peers,
                 verified_peers, peer_strikes, subnet_counts, peer_subnets,
                 height, work, nonces>>

EmptyTables ==
  /\ outbound_peers' = {} /\ inbound_peers' = {} /\ refiner_peers' = {} /\ verified_peers' = {}
  /\ pending_challenges' = [p \in Peers |-> {}]
  /\ peer_strikes' = [p \in Peers |-> 0]
  /\ subnet_counts' = [s \in Subnets |-> 0]
  /\ peer_subnets' = [p \in Peers |-> {}]

\* The process stops and starts again: only the ban list and the chain are on disk, and a
\* list that cannot be read (its last write was cut short) is taken for empty.
Restart ==
  /\ Work
  /\ EmptyTables
  /\ connections' = [p \in Peers |-> 0] /\ closing' = [p \in Peers |-> 0]
  /\ asked' = {} /\ channels' = {} /\ events' = <<>> /\ commands' = <<>>
  /\ banned_peers' \in {banned_peers, [p \in Peers |-> NoBan]}
  /\ UNCHANGED <<dropped, height>>

Init ==
  /\ connections = [p \in Peers |-> 0] /\ closing = [p \in Peers |-> 0]
  /\ events = <<>> /\ commands = <<>> /\ asked = {} /\ channels = {} /\ dropped = FALSE
  /\ outbound_peers = {} /\ inbound_peers = {} /\ refiner_peers = {} /\ verified_peers = {}
  /\ pending_challenges = [p \in Peers |-> {}]
  /\ peer_strikes = [p \in Peers |-> 0]
  /\ subnet_counts = [s \in Subnets |-> 0]
  /\ peer_subnets = [p \in Peers |-> {}]
  /\ banned_peers = [p \in Peers |-> NoBan]
  /\ height = 0
  /\ work = 0 /\ nonces = 0

Handle(p) ==
  \/ PeerConnected(p) \/ PeerIdentified(p) \/ PeerDisconnected(p) \/ ChallengeResponse(p)
  \/ PeerRequest(p) \/ SyncResponse(p) \/ GossipBlock(p) \/ GossipTransaction(p)
  \/ GossipDropped(p)

Swarm(p) ==
  \/ \E dialled \in BOOLEAN : ConnectionEstablished(p, dialled)
  \/ ConnectionClosed(p)
  \/ \E compatible \in BOOLEAN : Identify(p, compatible)
  \/ \E g \in Gossip(p) : GossipReceived(p, g)
  \/ RequestReceived(p)

Next ==
  \/ \E p \in Peers : Handle(p) \/ Swarm(p) \/ ChallengeTimeout(p)
  \/ \E a \in asked : ResponseReceived(a)
  \/ HandleCommand
  \/ Restart

Spec == Init /\ [][Next]_vars

\* The tasks run, time passes and the interval ticks.
Fairness ==
  /\ WF_vars(\E p \in Peers : Handle(p))
  /\ WF_vars(HandleCommand)
  /\ \A p \in Peers : WF_vars(ChallengeTimeout(p))

FairSpec == Spec /\ Fairness

---------------------------------------------------------------------------
(* Properties. *)

Ban == [ban_count : Nat, permanent : BOOLEAN]

\* The type of the peer tables, the ban list and the heights.
TypeOK ==
  /\ outbound_peers \subseteq Peers /\ inbound_peers \subseteq Peers
  /\ refiner_peers \subseteq Peers /\ verified_peers \subseteq Peers
  /\ \A p \in Peers : Cardinality(pending_challenges[p]) <= 1
  /\ peer_strikes \in [Peers -> 0 .. 2]
  /\ subnet_counts \in [Subnets -> 0 .. MAX_PEERS_PER_SUBNET]
  /\ peer_subnets \in [Peers -> {{}} \cup {{s} : s \in Subnets}]
  /\ banned_peers \in [Peers -> Ban]
  /\ height \in 0 .. TIP

\* Whatever connections, answers, losses and restarts come in between, only a peer that
\* holds the dataset is ever verified, and so only its gossip and its blocks are used.
VerifiedHoldDataset == verified_peers \subseteq Dataset

\* At most MAX_PEERS_PER_SUBNET of the peers this node dialled share a /24 prefix, also
\* when a peer is dialled twice, disconnects twice, or its disconnection is never reported.
SubnetLimitHeld ==
  \A s \in Subnets :
    Cardinality({p \in outbound_peers : s \in peer_subnets[p]}) <= MAX_PEERS_PER_SUBNET

Mentioned(p) ==
  \/ p \in outbound_peers \cup inbound_peers \cup refiner_peers \cup verified_peers
  \/ pending_challenges[p] # {} \/ peer_strikes[p] # 0 \/ peer_subnets[p] # {}

\* Unless an event was lost, a peer without connection about which no event is queued has
\* left no trace in the tables of handle_network_event: no verification, strike or slot
\* outlives the connection it belongs to.
GoneAreForgotten ==
  ~dropped =>
    \A p \in Peers :
      (/\ connections[p] = 0 /\ closing[p] = 0
       /\ \A i \in DOMAIN events : events[i].peer # p) => ~Mentioned(p)

\* Every memory challenge is settled: by an answer, a disconnection or the timeout.
ChallengesSettled ==
  \A p \in Peers : (pending_challenges[p] # {}) ~> (pending_challenges[p] = {})

\* A peer that runs this program, answers every challenge with the right hash and gossips
\* only blocks of the common chain is not banned for good.
HonestNotBannedForGood == \A p \in Honest : ~banned_peers[p].permanent
=============================================================================
