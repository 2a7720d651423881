---------------------------- MODULE PeersProofs -----------------------------
(***************************************************************************)
(* Who is verified, and how many peers of one prefix are dialled, for      *)
(* every set of peers, every capacity and every limit.                     *)
(***************************************************************************)
EXTENDS Peers, FiniteSetTheorems, TLAPS

(* The events that can be in the queue.  The one fact about peers that     *)
(* matters: who lacks the dataset answers with the wrong hash 0.           *)
AnswerEvents ==
  [type : {"answer"}, peer : Dataset, hash : Nat] \cup [type : {"answer"}, peer : Peers, hash : {0}]

BlocksEvents ==
  {e \in [type : {"blocks"}, peer : Peers, from : Nat \ {0}, count : Nat] :
     e.from + e.count <= TIP + 1}

BlockEvents ==
  {e \in [type : {"block"}, peer : Peers, kind : {"chain", "fake", "invalid"}, height : Nat] :
     e.kind = "chain" => e.height <= TIP}

OtherEvents ==
  [type : {"connected"}, peer : Peers, dialled : BOOLEAN]
  \cup [type : {"disconnected"}, peer : Peers]
  \cup [type : {"identified"}, peer : Peers, compatible : BOOLEAN]
  \cup [type : {"request"}, peer : Peers]
  \cup [type : {"tx"}, peer : Peers, kind : {"other", "signature", "chain_id"}, height : Nat]

Events == AnswerEvents \cup BlocksEvents \cup BlockEvents \cup OtherEvents

Requests == [peer : Peers, kind : {"challenge", "sync"}, arg : Nat \ {0}]

Slots == {{}} \cup {{s} : s \in Subnets}

(* Challenges have nonces above 0, of which a wrong hash is not one. *)
QueuesOK ==
  /\ events \in Seq(Events)
  /\ asked \in SUBSET Requests
  /\ nonces \in Nat
  /\ pending_challenges \in [Peers -> SUBSET (Nat \ {0})]
  /\ \A p \in Peers : Cardinality(pending_challenges[p]) <= 1

TablesOK ==
  /\ outbound_peers \in SUBSET Peers /\ inbound_peers \in SUBSET Peers
  /\ refiner_peers \in SUBSET Peers
  /\ verified_peers \in SUBSET Dataset
  /\ peer_strikes \in [Peers -> 0 .. 2]
  /\ banned_peers \in [Peers -> Ban]
  /\ height \in 0 .. TIP

(* The peers that hold a slot of prefix s. *)
Holders(s) == {p \in outbound_peers : s \in peer_subnets[p]}

SlotsOK ==
  /\ subnet_counts \in [Subnets -> 0 .. MAX_PEERS_PER_SUBNET]
  /\ peer_subnets \in [Peers -> Slots]
  /\ \A p \in Peers : peer_subnets[p] # {} => p \in outbound_peers
  /\ \A s \in Subnets : Cardinality(Holders(s)) <= subnet_counts[s]

IInv == QueuesOK /\ TablesOK /\ SlotsOK

---------------------------------------------------------------------------
(* The event queue. *)

LEMMA HeadEvent ==
  ASSUME events \in Seq(Events), NEW p, NEW type, Event(type, p)
  PROVE  Head(events) \in Events /\ Tail(events) \in Seq(Events)
  BY DEF Event

LEMMA TrySendKeeps ==
  ASSUME events \in Seq(Events), NEW e \in Events, TrySend(e)
  PROVE  events' \in Seq(Events)
  BY DEF TrySend

(* The right hash of a pending challenge comes from a peer with the dataset. *)
LEMMA RightHashHasDataset ==
  ASSUME NEW e \in Events, e.type = "answer", e.hash \in Nat \ {0}
  PROVE  e.peer \in Dataset
  BY DEF Events, AnswerEvents, BlocksEvents, BlockEvents, OtherEvents

LEMMA BlocksBounded ==
  ASSUME NEW e \in Events, e.type = "blocks"
  PROVE  e.from \in Nat /\ e.count \in Nat /\ e.from + e.count <= TIP + 1
  BY DEF Events, AnswerEvents, BlocksEvents, BlockEvents, OtherEvents

LEMMA ChainBlockBounded ==
  ASSUME NEW e \in Events, e.type = "block", e.kind = "chain"
  PROVE  e.height \in Nat /\ e.height <= TIP
  BY DEF Events, AnswerEvents, BlocksEvents, BlockEvents, OtherEvents

(* Events of the swarm task are well formed. *)
LEMMA GossipEvent ==
  ASSUME NEW p \in Peers, NEW g \in Gossip(p), height \in 0 .. TIP, TIP \in Nat
  PROVE  [type |-> g.topic, peer |-> p, kind |-> g.kind, height |-> g.height] \in Events
  <1>1. CASE \E h \in 1 .. TIP : g = [topic |-> "block", kind |-> "chain", height |-> h]
    BY <1>1 DEF Events, BlockEvents
  <1>2. CASE g = [topic |-> "tx", kind |-> "other", height |-> 0]
    BY <1>2 DEF Events, OtherEvents
  <1>3. CASE \E k \in {"fake", "invalid"} : g = [topic |-> "block", kind |-> k, height |-> height + 1]
    BY <1>3 DEF Events, BlockEvents
  <1>4. CASE \E k \in {"signature", "chain_id"} : g = [topic |-> "tx", kind |-> k, height |-> 0]
    BY <1>4 DEF Events, OtherEvents
  <1> QED
    BY <1>1, <1>2, <1>3, <1>4 DEF Gossip

(* Whatever a peer returns for a challenge. *)
LEMMA AnswerEvent ==
  ASSUME NEW p \in Peers, NEW nonce \in Nat, NEW hash \in Hashes(p, nonce), Dataset \subseteq Peers,
         Honest \subseteq Dataset
  PROVE  [type |-> "answer", peer |-> p, hash |-> hash] \in Events
  BY DEF Hashes, Events, AnswerEvents

---------------------------------------------------------------------------
(* The queues and the challenges. *)

LEMMA PendingKept ==
  ASSUME QueuesOK, NEW p \in Peers, NEW new,
         pending_challenges' = [pending_challenges EXCEPT ![p] = new],
         new = {} \/ \E n \in Nat \ {0} : new = {n}
  PROVE  /\ pending_challenges' \in [Peers -> SUBSET (Nat \ {0})]
         /\ \A q \in Peers : Cardinality(pending_challenges'[q]) <= 1
  <1>1. Cardinality(new) <= 1
    <2>1. CASE new = {}
      BY <2>1, FS_EmptySet
    <2>2. CASE \E n \in Nat \ {0} : new = {n}
      <3>1. Cardinality(new) = 1
        BY <2>2, FS_Singleton, Zenon
      <3> QED
        BY <3>1
    <2> QED
      BY <2>1, <2>2
  <1> QED
    BY <1>1 DEF QueuesOK

LEMMA HandleQueues ==
  ASSUME IInv, NEW p \in Peers, Handle(p)
  PROVE  QueuesOK'
  <1> USE PeersAssumption
  <1>0. Tail(events) \in Seq(Events) /\ Head(events) \in Events
    BY HeadEvent DEF IInv, QueuesOK, Handle, PeerConnected, PeerIdentified, PeerDisconnected,
       ChallengeResponse, PeerRequest, SyncResponse, GossipBlock, GossipTransaction,
       GossipDropped
  <1>1. CASE PeerConnected(p)
    <2>1. events' \in Seq(Events)
      BY <1>0, <1>1 DEF PeerConnected, Take, TakeAndDisconnect
    <2>2. CASE UNCHANGED <<asked, tableVars, nonces>>
      BY <2>1, <2>2 DEF IInv, QueuesOK, tableVars
    <2>3. CASE /\ pending_challenges' = [pending_challenges EXCEPT ![p] = {nonces + 1}]
               /\ nonces' = nonces + 1
               /\ Ask(p, "challenge", nonces + 1)
      <3>1. nonces + 1 \in Nat \ {0}
        BY DEF IInv, QueuesOK
      <3>2. asked' \in SUBSET Requests
        BY <2>3, <3>1 DEF IInv, QueuesOK, Ask, Requests
      <3> QED
        BY <2>1, <2>3, <3>1, <3>2, PendingKept DEF IInv, QueuesOK
    <2> QED
      BY <1>1, <2>2, <2>3 DEF PeerConnected
  <1>2. CASE PeerIdentified(p)
    <2>1. events' \in Seq(Events)
      BY <1>0, <1>2 DEF PeerIdentified, Take, TakeAndDisconnect
    <2>2. UNCHANGED <<asked, nonces>>
      BY <1>2 DEF PeerIdentified, swarmVars
    <2>3. \/ UNCHANGED pending_challenges
          \/ pending_challenges' = [pending_challenges EXCEPT ![p] = {}]
      BY <1>2 DEF PeerIdentified
    <2> QED
      BY <2>1, <2>2, <2>3, PendingKept DEF IInv, QueuesOK
  <1>3. CASE PeerDisconnected(p)
    <2>1. /\ events' = Tail(events)
          /\ UNCHANGED <<asked, nonces>>
          /\ pending_challenges' = [pending_challenges EXCEPT ![p] = {}]
      BY <1>3 DEF PeerDisconnected, Take, swarmVars
    <2> QED
      BY <1>0, <2>1, PendingKept DEF IInv, QueuesOK
  <1>4. CASE ChallengeResponse(p)
    <2>1. events' \in Seq(Events)
      BY <1>0, <1>4 DEF ChallengeResponse, Take, TakeAndDisconnect
    <2>2. UNCHANGED asked \/ Ask(p, "sync", height + 1)
      BY <1>4 DEF ChallengeResponse
    <2>3. asked' \in SUBSET Requests
      BY <2>2 DEF IInv, QueuesOK, TablesOK, Ask, Requests
    <2>4. UNCHANGED nonces /\ pending_challenges' = [pending_challenges EXCEPT ![p] = {}]
      BY <1>4 DEF ChallengeResponse
    <2> QED
      BY <2>1, <2>3, <2>4, PendingKept DEF IInv, QueuesOK
  <1>5. CASE PeerRequest(p)
    BY <1>0, <1>5 DEF PeerRequest, Take, tableVars, IInv, QueuesOK
  <1>6. CASE SyncResponse(p)
    BY <1>0, <1>6 DEF SyncResponse, Take, tableVars, swarmVars, IInv, QueuesOK
  <1>7. CASE GossipBlock(p) \/ GossipTransaction(p)
    <2>1. /\ events' = Tail(events)
          /\ UNCHANGED <<asked, nonces>>
          /\ \/ UNCHANGED pending_challenges
             \/ pending_challenges' = [pending_challenges EXCEPT ![p] = {}]
      BY <1>7 DEF GossipBlock, GossipTransaction, Strike, Expel, Take, TakeAndDisconnect,
         gossipUnchanged, swarmVars
    <2> QED
      BY <1>0, <2>1, PendingKept DEF IInv, QueuesOK
  <1>8. CASE GossipDropped(p)
    BY <1>0, <1>8 DEF GossipDropped, Take, tableVars, swarmVars, IInv, QueuesOK
  <1> QED
    BY <1>1, <1>2, <1>3, <1>4, <1>5, <1>6, <1>7, <1>8 DEF Handle

LEMMA SwarmQueues ==
  ASSUME IInv, NEW p \in Peers, Swarm(p)
  PROVE  QueuesOK'
  <1> USE PeersAssumption
  <1>1. \E e \in Events : TrySend(e)
    <2>1. CASE \E dialled \in BOOLEAN : ConnectionEstablished(p, dialled)
      BY <2>1 DEF ConnectionEstablished, Events, OtherEvents
    <2>2. CASE ConnectionClosed(p)
      BY <2>2 DEF ConnectionClosed, Events, OtherEvents
    <2>3. CASE \E compatible \in BOOLEAN : Identify(p, compatible)
      BY <2>3 DEF Identify, Events, OtherEvents
    <2>4. CASE \E g \in Gossip(p) : GossipReceived(p, g)
      BY <2>4, GossipEvent DEF GossipReceived, IInv, TablesOK
    <2>5. CASE RequestReceived(p)
      BY <2>5 DEF RequestReceived, Events, OtherEvents
    <2> QED
      BY <2>1, <2>2, <2>3, <2>4, <2>5 DEF Swarm
  <1>2. events' \in Seq(Events)
    BY <1>1, TrySendKeeps DEF IInv, QueuesOK
  <1>3. asked' \in SUBSET asked /\ UNCHANGED <<pending_challenges, nonces>>
    BY DEF Swarm, ConnectionEstablished, ConnectionClosed, Identify, GossipReceived,
       RequestReceived, Work, swarmVars, tableVars
  <1> QED
    BY <1>2, <1>3 DEF IInv, QueuesOK

LEMMA ResponseQueues ==
  ASSUME IInv, NEW a \in asked, ResponseReceived(a)
  PROVE  QueuesOK'
  <1> USE PeersAssumption
  <1>0. a.peer \in Peers /\ a.arg \in Nat \ {0}
    BY DEF IInv, QueuesOK, Requests
  <1>1. \E e \in Events : TrySend(e)
    <2>1. CASE \E hash \in Hashes(a.peer, a.arg) :
                 TrySend([type |-> "answer", peer |-> a.peer, hash |-> hash])
      BY <1>0, <2>1, AnswerEvent
    <2>2. CASE \E n \in 0 .. MAX_SYNC_BLOCKS :
                 /\ a.arg + n <= TIP + 1
                 /\ TrySend([type |-> "blocks", peer |-> a.peer, from |-> a.arg, count |-> n])
      BY <1>0, <2>2 DEF Events, BlocksEvents
    <2> QED
      BY <2>1, <2>2 DEF ResponseReceived
  <1>2. events' \in Seq(Events)
    BY <1>1, TrySendKeeps DEF IInv, QueuesOK
  <1> QED
    BY <1>2 DEF ResponseReceived, tableVars, IInv, QueuesOK

---------------------------------------------------------------------------
(* The tables. *)

LEMMA BanKept ==
  ASSUME TablesOK, NEW p \in Peers, NEW permanent \in BOOLEAN, ban_peer(p, permanent)
  PROVE  banned_peers' \in [Peers -> Ban]
  BY PeersAssumption DEF TablesOK, ban_peer, Ban

LEMMA HandleTables ==
  ASSUME IInv, NEW p \in Peers, Handle(p)
  PROVE  TablesOK'
  <1> USE PeersAssumption
  <1>0. events # <<>> /\ Head(events) \in Events
    BY HeadEvent DEF IInv, QueuesOK, Handle, PeerConnected, PeerIdentified, PeerDisconnected,
       ChallengeResponse, PeerRequest, SyncResponse, GossipBlock, GossipTransaction,
       GossipDropped, Event
  <1>1. CASE PeerConnected(p)
    BY <1>1 DEF PeerConnected, RecordConnection, tableVars, IInv, TablesOK
  <1>2. CASE PeerIdentified(p)
    BY <1>2 DEF PeerIdentified, IInv, TablesOK
  <1>3. CASE PeerDisconnected(p)
    BY <1>3 DEF PeerDisconnected, IInv, TablesOK
  <1>4. CASE ChallengeResponse(p)
    <2>1. verified_peers' \in SUBSET Dataset
      <3>1. CASE verified_peers' = verified_peers
        BY <3>1 DEF IInv, TablesOK
      <3>2. CASE Head(events).hash \in pending_challenges[p] /\ verified_peers' = verified_peers \cup {p}
        <4>1. Head(events).hash \in Nat \ {0}
          BY <3>2 DEF IInv, QueuesOK
        <4>2. Head(events).type = "answer" /\ Head(events).peer = p
          BY <1>4 DEF ChallengeResponse, Event
        <4>3. p \in Dataset
          BY <1>0, <4>1, <4>2, RightHashHasDataset
        <4> QED
          BY <3>2, <4>3 DEF IInv, TablesOK
      <3> QED
        BY <1>4, <3>1, <3>2 DEF ChallengeResponse
    <2>2. banned_peers' \in [Peers -> Ban]
      BY <1>4, BanKept DEF ChallengeResponse, IInv, TablesOK
    <2>3. peer_strikes' \in [Peers -> 0 .. 2]
      <3>1. peer_strikes' = peer_strikes \/ peer_strikes' = [peer_strikes EXCEPT ![p] = 0]
        BY <1>4 DEF ChallengeResponse
      <3> QED
        BY <3>1 DEF IInv, TablesOK
    <2>4. UNCHANGED <<outbound_peers, inbound_peers, refiner_peers, height>>
      BY <1>4 DEF ChallengeResponse
    <2> QED
      BY <2>1, <2>2, <2>3, <2>4 DEF IInv, TablesOK
  <1>5. CASE PeerRequest(p)
    BY <1>5 DEF PeerRequest, tableVars, IInv, TablesOK
  <1>6. CASE SyncResponse(p)
    <2>1. height' \in 0 .. TIP
      <3> DEFINE e == Head(events)
      <3>1. e.from \in Nat /\ e.count \in Nat /\ e.from + e.count <= TIP + 1
        BY <1>0, <1>6, BlocksBounded DEF SyncResponse, Event
      <3>2. height' = height \/ (e.from = height + 1 /\ height' = height + e.count)
        BY <1>6 DEF SyncResponse
      <3>3. height \in 0 .. TIP
        BY DEF IInv, TablesOK
      <3> QED
        BY <3>1, <3>2, <3>3
    <2> QED
      BY <1>6, <2>1 DEF SyncResponse, tableVars, IInv, TablesOK
  <1>7. CASE GossipBlock(p)
    <2>0. UNCHANGED <<outbound_peers, inbound_peers, refiner_peers>>
      BY <1>7 DEF GossipBlock, gossipUnchanged
    <2>1. CASE Expel(p, TRUE, 0) \/ Expel(p, FALSE, 0)
      <3>1. banned_peers' \in [Peers -> Ban]
        BY <2>1, BanKept DEF Expel, IInv
      <3>2. /\ peer_strikes' = [peer_strikes EXCEPT ![p] = 0]
            /\ verified_peers' = verified_peers \ {p}
            /\ height' = height
        BY <2>1 DEF Expel
      <3> QED
        BY <2>0, <3>1, <3>2 DEF IInv, TablesOK
    <2>2. CASE /\ Head(events).kind = "chain" /\ height' = Head(events).height
               /\ UNCHANGED <<verified_peers, pending_challenges, peer_strikes, banned_peers>>
      <3>1. height' \in 0 .. TIP
        BY <1>0, <1>7, <2>2, ChainBlockBounded DEF GossipBlock, Event
      <3> QED
        BY <2>0, <2>2, <3>1 DEF IInv, TablesOK
    <2>3. CASE /\ peer_strikes[p] + 1 < MaxStrikes(p)
               /\ peer_strikes' = [peer_strikes EXCEPT ![p] = @ + 1]
               /\ UNCHANGED <<verified_peers, pending_challenges, banned_peers, height>>
      <3>1. MaxStrikes(p) \in {2, 3} /\ peer_strikes[p] \in 0 .. 2
        BY DEF MaxStrikes, IInv, TablesOK
      <3> QED
        BY <2>0, <2>3, <3>1 DEF IInv, TablesOK
    <2> QED
      <3>1. MaxStrikes(p) \in {2, 3} /\ peer_strikes[p] \in 0 .. 2
        BY DEF MaxStrikes, IInv, TablesOK
      <3>2. \/ Expel(p, TRUE, 0) \/ Strike(p)
            \/ /\ Head(events).kind = "chain" /\ height' = Head(events).height
               /\ UNCHANGED <<verified_peers, pending_challenges, peer_strikes, banned_peers>>
        BY <1>7 DEF GossipBlock
      <3>3. Strike(p) =>
              \/ Expel(p, FALSE, 0)
              \/ /\ peer_strikes[p] + 1 < MaxStrikes(p)
                 /\ peer_strikes' = [peer_strikes EXCEPT ![p] = @ + 1]
                 /\ UNCHANGED <<verified_peers, pending_challenges, banned_peers, height>>
        <4>1. CASE peer_strikes[p] + 1 >= MaxStrikes(p)
          BY <4>1, Zenon DEF Strike
        <4>2. CASE ~(peer_strikes[p] + 1 >= MaxStrikes(p))
          <5>1. peer_strikes[p] + 1 < MaxStrikes(p)
            BY <3>1, <4>2
          <5> QED
            BY <4>2, <5>1, Zenon DEF Strike
        <4> QED
          BY <4>1, <4>2
      <3> QED
        BY <1>7, <2>1, <2>2, <2>3, <3>2, <3>3
  <1>8. CASE GossipTransaction(p)
    <2>1. banned_peers' \in [Peers -> Ban]
      BY <1>8, BanKept DEF GossipTransaction, Expel, IInv
    <2> QED
      BY <1>8, <2>1 DEF GossipTransaction, Expel, gossipUnchanged, IInv, TablesOK
  <1>9. CASE GossipDropped(p)
    BY <1>9 DEF GossipDropped, tableVars, IInv, TablesOK
  <1> QED
    BY <1>1, <1>2, <1>3, <1>4, <1>5, <1>6, <1>7, <1>8, <1>9 DEF Handle

---------------------------------------------------------------------------
(* The slots of a prefix. *)

LEMMA HoldersFinite ==
  ASSUME outbound_peers \in SUBSET Peers, NEW s
  PROVE  IsFiniteSet(Holders(s)) /\ Cardinality(Holders(s)) \in Nat
  <1>1. Holders(s) \subseteq Peers /\ IsFiniteSet(Peers)
    BY PeersAssumption DEF Holders
  <1> QED
    BY <1>1, FS_Subset, FS_CardinalityType

(* An accepted connection takes a slot, a second one of the same peer too. *)
LEMMA ConnectSlots ==
  ASSUME IInv, NEW p \in Peers, HasRoom(p, TRUE), RecordConnection(p, TRUE)
  PROVE  SlotsOK'
  <1> USE PeersAssumption
  <1>1. subnet_counts' \in [Subnets -> 0 .. MAX_PEERS_PER_SUBNET]
    BY DEF IInv, SlotsOK, HasRoom, RecordConnection
  <1>2. peer_subnets' \in [Peers -> Slots]
    BY DEF IInv, SlotsOK, RecordConnection, Slots
  <1>3. \A q \in Peers : peer_subnets'[q] # {} => q \in outbound_peers'
    BY DEF IInv, SlotsOK, RecordConnection
  <1>4. ASSUME NEW s \in Subnets
        PROVE  Cardinality(Holders(s)') <= subnet_counts'[s]
    <2>0. /\ IsFiniteSet(Holders(s)) /\ Cardinality(Holders(s)) \in Nat
          /\ Cardinality(Holders(s)) <= subnet_counts[s] /\ subnet_counts[s] \in Nat
      BY HoldersFinite DEF IInv, TablesOK, SlotsOK
    <2>1. CASE s \in SubnetOf[p]
      <3>1. Holders(s)' = Holders(s) \cup {p}
        BY <2>1 DEF Holders, RecordConnection, IInv, SlotsOK, TablesOK
      <3>2. Cardinality(Holders(s)') <= Cardinality(Holders(s)) + 1
        <4>1. Cardinality(Holders(s) \cup {p}) =
                IF p \in Holders(s) THEN Cardinality(Holders(s)) ELSE Cardinality(Holders(s)) + 1
          BY <2>0, FS_AddElement
        <4> QED
          BY <2>0, <3>1, <4>1
      <3>3. subnet_counts'[s] = subnet_counts[s] + 1
        BY <2>1 DEF RecordConnection
      <3>4. Cardinality(Holders(s)') \in Nat
        BY <2>0, <3>1, FS_AddElement, FS_CardinalityType
      <3> QED
        BY <2>0, <3>2, <3>3, <3>4
    <2>2. CASE s \notin SubnetOf[p]
      <3>1. Holders(s)' \subseteq Holders(s)
        BY <2>2 DEF Holders, RecordConnection, IInv, SlotsOK, TablesOK, Slots
      <3>2. Cardinality(Holders(s)') <= Cardinality(Holders(s)) /\ Cardinality(Holders(s)') \in Nat
        BY <2>0, <3>1, FS_Subset, FS_CardinalityType
      <3>3. subnet_counts'[s] = subnet_counts[s]
        BY <2>0, <2>2 DEF RecordConnection
      <3> QED
        BY <2>0, <3>2, <3>3
    <2> QED
      BY <2>1, <2>2
  <1> QED
    BY <1>1, <1>2, <1>3, <1>4 DEF SlotsOK

(* A reported disconnection frees the slot of a peer that holds one. *)
LEMMA DisconnectSlots ==
  ASSUME IInv, NEW p \in Peers, PeerDisconnected(p)
  PROVE  SlotsOK'
  <1> USE PeersAssumption
  <1>0. /\ outbound_peers' = outbound_peers \ {p}
        /\ subnet_counts' = FreeSubnet(p)
        /\ peer_subnets' = [peer_subnets EXCEPT ![p] = {}]
    BY DEF PeerDisconnected
  <1>1. subnet_counts' \in [Subnets -> 0 .. MAX_PEERS_PER_SUBNET]
    BY <1>0 DEF IInv, SlotsOK, FreeSubnet
  <1>2. peer_subnets' \in [Peers -> Slots]
    BY <1>0 DEF IInv, SlotsOK, Slots
  <1>3. \A q \in Peers : peer_subnets'[q] # {} => q \in outbound_peers'
    BY <1>0 DEF IInv, SlotsOK
  <1>4. ASSUME NEW s \in Subnets
        PROVE  Cardinality(Holders(s)') <= subnet_counts'[s]
    <2>0. /\ IsFiniteSet(Holders(s)) /\ Cardinality(Holders(s)) \in Nat
          /\ Cardinality(Holders(s)) <= subnet_counts[s] /\ subnet_counts[s] \in Nat
      BY HoldersFinite DEF IInv, TablesOK, SlotsOK
    <2>1. Holders(s)' = Holders(s) \ {p}
      BY <1>0 DEF Holders, IInv, SlotsOK, TablesOK
    <2>2. Cardinality(Holders(s) \ {p}) =
            IF p \in Holders(s) THEN Cardinality(Holders(s)) - 1 ELSE Cardinality(Holders(s))
      BY <2>0, FS_RemoveElement
    <2>3. subnet_counts'[s] = IF s \in peer_subnets[p] /\ subnet_counts[s] > 0
                              THEN subnet_counts[s] - 1 ELSE subnet_counts[s]
      BY <1>0 DEF FreeSubnet
    <2>4. p \in Holders(s) <=> s \in peer_subnets[p]
      BY DEF Holders, IInv, SlotsOK
    <2> QED
      BY <2>0, <2>1, <2>2, <2>3, <2>4
  <1> QED
    BY <1>1, <1>2, <1>3, <1>4 DEF SlotsOK

LEMMA SlotsUnchanged ==
  ASSUME IInv, UNCHANGED <<outbound_peers, subnet_counts, peer_subnets>>
  PROVE  SlotsOK'
  BY DEF IInv, SlotsOK, Holders

LEMMA HandleSlots ==
  ASSUME IInv, NEW p \in Peers, Handle(p)
  PROVE  SlotsOK'
  <1>1. CASE PeerConnected(p)
    <2>1. \/ UNCHANGED <<outbound_peers, subnet_counts, peer_subnets>>
          \/ HasRoom(p, TRUE) /\ RecordConnection(p, TRUE)
      <3>1. Head(events).dialled \in BOOLEAN
        <4>1. Head(events) \in Events /\ Head(events).type = "connected"
          BY <1>1, HeadEvent DEF PeerConnected, Event, IInv, QueuesOK
        <4> QED
          BY <4>1 DEF Events, AnswerEvents, BlocksEvents, BlockEvents, OtherEvents
      <3>2. \/ UNCHANGED tableVars
            \/ /\ HasRoom(p, Head(events).dialled)
               /\ RecordConnection(p, Head(events).dialled)
        BY <1>1, Zenon DEF PeerConnected
      <3>3. CASE Head(events).dialled = TRUE
        BY <3>2, <3>3 DEF tableVars
      <3>4. CASE Head(events).dialled = FALSE
        BY <3>2, <3>4 DEF tableVars, RecordConnection
      <3> QED
        BY <3>1, <3>3, <3>4
    <2> QED
      BY <2>1, SlotsUnchanged, ConnectSlots
  <1>2. CASE PeerDisconnected(p)
    BY <1>2, DisconnectSlots
  <1>3. CASE ~PeerConnected(p) /\ ~PeerDisconnected(p)
    <2>1. UNCHANGED <<outbound_peers, subnet_counts, peer_subnets>>
      BY <1>3 DEF Handle, PeerIdentified, ChallengeResponse, PeerRequest, SyncResponse,
         GossipBlock, GossipTransaction, GossipDropped, gossipUnchanged, tableVars
    <2> QED
      BY <2>1, SlotsUnchanged
  <1> QED
    BY <1>1, <1>2, <1>3

---------------------------------------------------------------------------
(* The invariant. *)

LEMMA NoHolders ==
  ASSUME outbound_peers = {} /\ subnet_counts = [s \in Subnets |-> 0]
         /\ peer_subnets = [p \in Peers |-> {}]
  PROVE  SlotsOK
  <1>1. \A s : Holders(s) = {}
    BY DEF Holders
  <1>2. \A s : Cardinality(Holders(s)) = 0
    BY <1>1, FS_EmptySet, Zenon
  <1>3. MAX_PEERS_PER_SUBNET \in Nat
    BY PeersAssumption
  <1> QED
    BY <1>2, <1>3 DEF SlotsOK, Slots

LEMMA InitInv == Init => IInv
  <1> SUFFICES ASSUME Init PROVE IInv
    OBVIOUS
  <1> USE PeersAssumption
  <1>1. QueuesOK
    BY FS_EmptySet DEF Init, QueuesOK
  <1>2. TablesOK
    BY DEF Init, TablesOK, NoBan, Ban
  <1>3. SlotsOK
    BY NoHolders DEF Init
  <1> QED
    BY <1>1, <1>2, <1>3 DEF IInv

LEMMA RestartInv ==
  ASSUME IInv, Restart
  PROVE  IInv'
  <1> USE PeersAssumption
  <1>1. QueuesOK'
    BY FS_EmptySet DEF Restart, EmptyTables, Work, IInv, QueuesOK
  <1>2. TablesOK'
    <2>1. banned_peers' \in [Peers -> Ban]
      <3>1. banned_peers' = banned_peers \/ banned_peers' = [p \in Peers |-> NoBan]
        BY DEF Restart
      <3>2. NoBan \in Ban
        BY DEF NoBan, Ban
      <3> QED
        BY <3>1, <3>2 DEF IInv, TablesOK
    <2> QED
      BY <2>1 DEF Restart, EmptyTables, IInv, TablesOK
  <1>3. SlotsOK'
    <2>1. \A s : Holders(s)' = {}
      BY DEF Holders, Restart, EmptyTables
    <2>2. \A s : Cardinality(Holders(s)') = 0
      BY <2>1, FS_EmptySet, Zenon
    <2>3. /\ subnet_counts' = [s \in Subnets |-> 0]
          /\ peer_subnets' = [p \in Peers |-> {}]
      BY DEF Restart, EmptyTables
    <2> QED
      BY <2>2, <2>3 DEF SlotsOK, Slots
  <1> QED
    BY <1>1, <1>2, <1>3 DEF IInv

LEMMA StepInv == IInv /\ [Next]_vars => IInv'
  <1> SUFFICES ASSUME IInv, [Next]_vars PROVE IInv'
    OBVIOUS
  <1> USE PeersAssumption
  <1>1. ASSUME NEW p \in Peers, Handle(p) PROVE IInv'
    BY <1>1, HandleQueues, HandleTables, HandleSlots DEF IInv
  <1>2. CASE \/ \E p \in Peers : Swarm(p)
             \/ \E a \in asked : ResponseReceived(a)
             \/ HandleCommand
             \/ UNCHANGED vars
    <2>1. QueuesOK'
      <3>1. CASE HandleCommand
        BY <3>1 DEF HandleCommand, tableVars, IInv, QueuesOK
      <3>2. CASE UNCHANGED vars
        BY <3>2 DEF vars, queueVars, swarmVars, tableVars, IInv, QueuesOK
      <3> QED
        BY <1>2, <3>1, <3>2, SwarmQueues, ResponseQueues
    <2>2. UNCHANGED <<tableVars, banned_peers, height>>
      BY <1>2 DEF Swarm, ConnectionEstablished, ConnectionClosed, Identify, GossipReceived,
         RequestReceived, ResponseReceived, HandleCommand, vars
    <2>3. TablesOK'
      BY <2>2 DEF IInv, TablesOK, tableVars
    <2>4. SlotsOK'
      BY <2>2, SlotsUnchanged DEF tableVars
    <2> QED
      BY <2>1, <2>3, <2>4 DEF IInv
  <1>3. ASSUME NEW p \in Peers, ChallengeTimeout(p) PROVE IInv'
    <2>1. QueuesOK'
      <3>1. /\ UNCHANGED <<asked, events, nonces>>
            /\ pending_challenges' = [pending_challenges EXCEPT ![p] = {}]
        BY <1>3 DEF ChallengeTimeout, swarmVars
      <3> QED
        BY <3>1, PendingKept DEF IInv, QueuesOK
    <2>2. banned_peers' \in [Peers -> Ban]
      BY <1>3, BanKept DEF ChallengeTimeout, IInv
    <2>3. TablesOK'
      BY <1>3, <2>2 DEF ChallengeTimeout, IInv, TablesOK
    <2>4. SlotsOK'
      BY <1>3, SlotsUnchanged DEF ChallengeTimeout
    <2> QED
      BY <2>1, <2>3, <2>4 DEF IInv
  <1> QED
    BY <1>1, <1>2, <1>3, RestartInv DEF Next

LEMMA IInvHolds == Spec => []IInv
  BY InitInv, StepInv, PTL DEF Spec

(* The peer tables, the ban list and the height keep their types: no       *)
(* subnet count leaves its range although a slot may be taken twice and    *)
(* freed once, and strikes end in a ban at the third at the latest.        *)
THEOREM PeersTypeCorrect == Spec => []TypeOK
  <1>1. IInv => TypeOK
    BY PeersAssumption DEF IInv, QueuesOK, TablesOK, SlotsOK, Slots, TypeOK
  <1> QED
    BY <1>1, IInvHolds, PTL

(* A peer without the dataset is never verified, for every set of peers    *)
(* and every order of connections, answers, timeouts, losses and restarts. *)
THEOREM VerifiedTheorem == Spec => []VerifiedHoldDataset
  <1>1. IInv => VerifiedHoldDataset
    BY DEF IInv, TablesOK, VerifiedHoldDataset
  <1> QED
    BY <1>1, IInvHolds, PTL

(* No prefix ever has more dialled peers than MAX_PEERS_PER_SUBNET.        *)
THEOREM SubnetTheorem == Spec => []SubnetLimitHeld
  <1>1. ASSUME IInv, NEW s \in Subnets
        PROVE  Cardinality({p \in outbound_peers : s \in peer_subnets[p]}) <= MAX_PEERS_PER_SUBNET
    <2>1. Cardinality(Holders(s)) \in Nat
      BY <1>1, HoldersFinite DEF IInv, TablesOK
    <2>2. /\ Cardinality(Holders(s)) <= subnet_counts[s]
          /\ subnet_counts[s] \in 0 .. MAX_PEERS_PER_SUBNET
      BY <1>1 DEF IInv, SlotsOK
    <2>3. Cardinality(Holders(s)) <= MAX_PEERS_PER_SUBNET
      BY <2>1, <2>2, PeersAssumption
    <2> QED
      BY <2>3 DEF Holders
  <1>2. IInv => SubnetLimitHeld
    BY <1>1 DEF SubnetLimitHeld
  <1> QED
    BY <1>2, IInvHolds, PTL

---------------------------------------------------------------------------
(* Nothing outlives the last connection. *)

Gone(p) == connections[p] = 0 /\ closing[p] = 0

Silent(s, p) == \A i \in DOMAIN s : s[i].peer # p

(* The last event about the peer, if any, says that a connection ended. *)
EndsIn(s, p) ==
  \A i \in DOMAIN s :
    s[i].peer = p =>
      \/ s[i].type = "disconnected"
      \/ \E j \in DOMAIN s : j > i /\ s[j].peer = p /\ s[j].type = "disconnected"

Counted ==
  /\ connections \in [Peers -> Nat] /\ closing \in [Peers -> Nat]
  /\ dropped \in BOOLEAN

EndsReported == ~dropped => \A p \in Peers : Gone(p) => EndsIn(events, p)

GoneInv == Counted /\ EndsReported /\ GoneAreForgotten

(* What the handler leaves in the queue ends as the queue did, and the     *)
(* last event about a peer is the end of a connection.                     *)
LEMMA TailEnds ==
  ASSUME NEW s \in Seq(Events), s # <<>>, NEW p, EndsIn(s, p)
  PROVE  /\ EndsIn(Tail(s), p)
         /\ Silent(Tail(s), p) /\ Head(s).peer = p => Head(s).type = "disconnected"
         /\ Silent(Tail(s), p) /\ Head(s).peer # p => Silent(s, p)
  <1>1. /\ Len(s) \in Nat /\ Len(s) > 0 /\ DOMAIN s = 1 .. Len(s)
        /\ DOMAIN Tail(s) = 1 .. Len(s) - 1
        /\ \A i \in 1 .. Len(s) - 1 : Tail(s)[i] = s[i + 1]
        /\ Head(s) = s[1]
    OBVIOUS
  <1> DEFINE t == Tail(s)
  <1>2. /\ DOMAIN t = 1 .. Len(s) - 1
        /\ \A i \in 1 .. Len(s) - 1 : t[i] = s[i + 1]
    BY <1>1
  <1> HIDE DEF t
  <1>3. \A j \in DOMAIN s : j > 1 => j - 1 \in DOMAIN t /\ t[j - 1] = s[j]
    <2>1. ASSUME NEW j \in DOMAIN s, j > 1
          PROVE  j - 1 \in 1 .. Len(s) - 1 /\ (j - 1) + 1 = j
      BY <1>1, <2>1
    <2> QED
      BY <1>2, <2>1
  <1>4. EndsIn(t, p)
    <2> SUFFICES ASSUME NEW i \in DOMAIN t, t[i].peer = p, t[i].type # "disconnected"
                 PROVE  \E j \in DOMAIN t : j > i /\ t[j].peer = p /\ t[j].type = "disconnected"
      BY DEF EndsIn
    <2>1. i \in 1 .. Len(s) - 1 /\ i + 1 \in DOMAIN s /\ t[i] = s[i + 1]
      BY <1>1, <1>2
    <2>2. PICK j \in DOMAIN s : j > i + 1 /\ s[j].peer = p /\ s[j].type = "disconnected"
      BY <2>1 DEF EndsIn
    <2>3. j \in Nat /\ j > 1 /\ j - 1 > i
      BY <1>1, <2>1, <2>2
    <2> QED
      BY <1>3, <2>2, <2>3
  <1>5. Silent(t, p) /\ Head(s).peer = p => Head(s).type = "disconnected"
    <2> SUFFICES ASSUME Silent(t, p), s[1].peer = p PROVE s[1].type = "disconnected"
      BY <1>1
    <2>1. \A j \in DOMAIN s : j > 1 => s[j].peer # p
      BY <1>3 DEF Silent
    <2>2. 1 \in DOMAIN s
      BY <1>1
    <2> QED
      BY <2>1, <2>2 DEF EndsIn
  <1>6. Silent(t, p) /\ Head(s).peer # p => Silent(s, p)
    <2>1. \A j \in DOMAIN s : j = 1 \/ j > 1
      BY <1>1
    <2> QED
      BY <1>1, <1>3, <2>1 DEF Silent
  <1> QED
    BY <1>4, <1>5, <1>6 DEF t

LEMMA AppendEnds ==
  ASSUME NEW s \in Seq(Events), NEW e \in Events, NEW p
  PROVE  /\ e.peer # p /\ EndsIn(s, p) => EndsIn(Append(s, e), p)
         /\ e.peer = p /\ e.type = "disconnected" => EndsIn(Append(s, e), p)
         /\ Silent(Append(s, e), p) => Silent(s, p) /\ e.peer # p
  <1> DEFINE t == Append(s, e)
  <1>1. /\ Len(s) \in Nat /\ DOMAIN s = 1 .. Len(s)
        /\ DOMAIN t = 1 .. Len(s) + 1
        /\ \A i \in DOMAIN s : t[i] = s[i]
        /\ t[Len(s) + 1] = e
    OBVIOUS
  <1> HIDE DEF t
  <1>2. \A i \in DOMAIN t : i \in DOMAIN s \/ i = Len(s) + 1
    BY <1>1
  <1>3. \A i \in DOMAIN s : i \in DOMAIN t /\ Len(s) + 1 > i
    BY <1>1
  <1>4. Len(s) + 1 \in DOMAIN t
    BY <1>1
  <1>5. e.peer # p /\ EndsIn(s, p) => EndsIn(t, p)
    BY <1>1, <1>2, <1>3 DEF EndsIn
  <1>6. e.peer = p /\ e.type = "disconnected" => EndsIn(t, p)
    BY <1>1, <1>2, <1>3, <1>4 DEF EndsIn
  <1>7. Silent(t, p) => Silent(s, p) /\ e.peer # p
    BY <1>1, <1>3, <1>4 DEF Silent
  <1> QED
    BY <1>5, <1>6, <1>7 DEF t

(* A report of the swarm task about one peer: the others' connections stay *)
(* and the last connection of this one ends with a "disconnected".         *)
LEMMA ReportGone ==
  ASSUME IInv, GoneInv, NEW p \in Peers, NEW e \in Events, e.peer = p, TrySend(e),
         UNCHANGED tableVars, Counted',
         \A q \in Peers : q # p /\ Gone(q)' => Gone(q),
         Gone(p)' => e.type = "disconnected"
  PROVE  GoneInv'
  <1>1. CASE dropped'
    BY <1>1 DEF GoneInv, EndsReported, GoneAreForgotten
  <1>2. CASE ~dropped'
    <2>1. ~dropped /\ events' = Append(events, e)
      BY <1>2 DEF TrySend, GoneInv, Counted
    <2>2. ASSUME NEW q \in Peers, Gone(q)' PROVE EndsIn(events', q)
      <3>1. events \in Seq(Events)
        BY DEF IInv, QueuesOK
      <3>2. CASE q = p
        BY <2>1, <2>2, <3>1, <3>2, AppendEnds
      <3>3. CASE q # p
        <4>1. EndsIn(events, q)
          BY <2>1, <2>2, <3>3 DEF GoneInv, EndsReported
        <4> QED
          BY <2>1, <3>1, <3>3, <4>1, AppendEnds
      <3> QED
        BY <3>2, <3>3
    <2>3. ASSUME NEW q \in Peers, Gone(q)', Silent(events', q) PROVE ~Mentioned(q)'
      <3>1. Silent(events, q) /\ q # p
        BY <2>1, <2>3, AppendEnds DEF IInv, QueuesOK
      <3>2. ~Mentioned(q)
        BY <2>1, <2>3, <3>1 DEF GoneInv, GoneAreForgotten, Gone, Silent
      <3> QED
        BY <3>2 DEF Mentioned, tableVars
    <2>4. EndsReported'
      BY <2>2 DEF EndsReported
    <2>5. GoneAreForgotten'
      BY <2>3 DEF GoneAreForgotten, Gone, Silent
    <2> QED
      BY <2>4, <2>5 DEF GoneInv
  <1> QED
    BY <1>1, <1>2

LEMMA SwarmGone ==
  ASSUME IInv, GoneInv, NEW p \in Peers, Swarm(p)
  PROVE  GoneInv'
  <1> USE PeersAssumption
  <1>0. /\ connections \in [Peers -> Nat] /\ closing \in [Peers -> Nat]
        /\ dropped \in BOOLEAN
    BY DEF GoneInv, Counted
  <1>1. ASSUME NEW dialled \in BOOLEAN, ConnectionEstablished(p, dialled) PROVE GoneInv'
    <2> DEFINE e == [type |-> "connected", peer |-> p, dialled |-> dialled]
    <2>1. e \in Events /\ e.peer = p /\ TrySend(e)
      BY <1>1 DEF ConnectionEstablished, Events, OtherEvents
    <2>2. /\ connections' = [connections EXCEPT ![p] = @ + 1]
          /\ UNCHANGED <<closing, tableVars>>
      BY <1>1 DEF ConnectionEstablished
    <2>3.Counted'
      <3>1. dropped' \in BOOLEAN
        BY <1>0, <2>1 DEF TrySend
      <3>2. connections' \in [Peers -> Nat] /\ closing' \in [Peers -> Nat]
        BY <1>0, <2>2
      <3> QED
        BY <3>1, <3>2 DEF Counted
    <2>4. ~Gone(p)' /\ \A q \in Peers : q # p /\ Gone(q)' => Gone(q)
      BY <1>0, <2>2 DEF Gone
    <2> HIDE DEF e
    <2> QED
      BY <2>1, <2>2, <2>3, <2>4, ReportGone
  <1>2. CASE ConnectionClosed(p)
    <2> DEFINE e == [type |-> "disconnected", peer |-> p]
    <2>1. e \in Events /\ e.peer = p /\ e.type = "disconnected" /\ TrySend(e)
      BY <1>2 DEF ConnectionClosed, Events, OtherEvents
    <2>2. UNCHANGED tableVars
      BY <1>2 DEF ConnectionClosed
    <2>3. \/ /\ closing[p] > 0 /\ closing' = [closing EXCEPT ![p] = @ - 1]
             /\ UNCHANGED connections
          \/ /\ connections[p] > 0 /\ connections' = [connections EXCEPT ![p] = @ - 1]
             /\ UNCHANGED closing
      BY <1>2 DEF ConnectionClosed
    <2>4.Counted'
      <3>1. dropped' \in BOOLEAN
        BY <1>0, <2>1 DEF TrySend
      <3>2. connections' \in [Peers -> Nat] /\ closing' \in [Peers -> Nat]
        BY <1>0, <2>3
      <3> QED
        BY <3>1, <3>2 DEF Counted
    <2>5. \A q \in Peers : q # p /\ Gone(q)' => Gone(q)
      BY <1>0, <2>3 DEF Gone
    <2> HIDE DEF e
    <2> QED
      BY <2>1, <2>2, <2>4, <2>5, ReportGone
  <1>3. ASSUME NEW e \in Events, e.peer = p, TrySend(e), connections[p] > 0,
               UNCHANGED <<connections, closing, tableVars>>
        PROVE  GoneInv'
    <2>1. Counted'
      BY <1>0, <1>3 DEF Counted, TrySend
    <2>2. ~Gone(p)' /\ \A q \in Peers : q # p /\ Gone(q)' => Gone(q)
      BY <1>0, <1>3 DEF Gone
    <2> QED
      BY <1>3, <2>1, <2>2, ReportGone
  <1>4. ASSUME NEW compatible \in BOOLEAN, Identify(p, compatible) PROVE GoneInv'
    BY <1>3, <1>4 DEF Identify, swarmVars, Events, OtherEvents
  <1>5. ASSUME NEW g \in Gossip(p), GossipReceived(p, g) PROVE GoneInv'
    <2> DEFINE e == [type |-> g.topic, peer |-> p, kind |-> g.kind, height |-> g.height]
    <2>1. e \in Events
      BY GossipEvent DEF IInv, TablesOK
    <2>2. e.peer = p /\ TrySend(e)
      BY <1>5 DEF GossipReceived
    <2>3. connections[p] > 0 /\ UNCHANGED <<connections, closing, tableVars>>
      BY <1>5 DEF GossipReceived, swarmVars
    <2> HIDE DEF e
    <2> QED
      BY <1>3, <2>1, <2>2, <2>3
  <1>6. CASE RequestReceived(p)
    BY <1>3, <1>6 DEF RequestReceived, Events, OtherEvents
  <1> QED
    BY <1>1, <1>2, <1>4, <1>5, <1>6 DEF Swarm

LEMMA ResponseGone ==
  ASSUME IInv, GoneInv, NEW a \in asked, ResponseReceived(a)
  PROVE  GoneInv'
  <1> USE PeersAssumption
  <1>0. a.peer \in Peers /\ a.arg \in Nat \ {0}
    BY DEF IInv, QueuesOK, Requests
  <1>1. \E e \in Events : e.peer = a.peer /\ TrySend(e)
    <2>1. CASE \E hash \in Hashes(a.peer, a.arg) :
                 TrySend([type |-> "answer", peer |-> a.peer, hash |-> hash])
      BY <1>0, <2>1, AnswerEvent
    <2>2. CASE \E n \in 0 .. MAX_SYNC_BLOCKS :
                 /\ a.arg + n <= TIP + 1
                 /\ TrySend([type |-> "blocks", peer |-> a.peer, from |-> a.arg, count |-> n])
      BY <1>0, <2>2 DEF Events, BlocksEvents
    <2> QED
      BY <2>1, <2>2 DEF ResponseReceived
  <1>2. connections[a.peer] > 0 /\ UNCHANGED <<connections, closing, tableVars>>
    BY DEF ResponseReceived
  <1>3. PICK e \in Events : e.peer = a.peer /\ TrySend(e)
    BY <1>1
  <1>4. Counted'
    BY <1>2, <1>3 DEF GoneInv, Counted, TrySend
  <1>5. ~Gone(a.peer)' /\ \A q \in Peers : Gone(q)' => Gone(q)
    <2>1. connections[a.peer] \in Nat
      BY <1>0 DEF GoneInv, Counted
    <2> QED
      BY <1>2, <2>1 DEF Gone
  <1> DEFINE p == a.peer
  <1>6. p \in Peers /\ ~Gone(p)' /\ e.peer = p
    BY <1>0, <1>3, <1>5
  <1> HIDE DEF p
  <1> QED
    BY <1>2, <1>3, <1>4, <1>5, <1>6, ReportGone

(* The handler of an event about p writes nothing about another peer. *)
LEMMA OthersKept ==
  ASSUME IInv, NEW p \in Peers, Handle(p), NEW q \in Peers, q # p, ~Mentioned(q)
  PROVE  ~Mentioned(q)'
  <1>0. /\ pending_challenges \in [Peers -> SUBSET (Nat \ {0})]
        /\ peer_strikes \in [Peers -> 0 .. 2]
        /\ peer_subnets \in [Peers -> Slots]
    BY DEF IInv, QueuesOK, TablesOK, SlotsOK
  <1>1. /\ outbound_peers' \subseteq outbound_peers \cup {p}
        /\ inbound_peers' \subseteq inbound_peers \cup {p}
        /\ refiner_peers' \subseteq refiner_peers \cup {p}
        /\ verified_peers' \subseteq verified_peers \cup {p}
    BY DEF Handle, PeerConnected, RecordConnection, PeerIdentified, PeerDisconnected,
       ChallengeResponse, PeerRequest, SyncResponse, GossipBlock, GossipTransaction,
       GossipDropped, Strike, Expel, gossipUnchanged, tableVars
  <1>2. \/ UNCHANGED pending_challenges
        \/ \E new : pending_challenges' = [pending_challenges EXCEPT ![p] = new]
    BY DEF Handle, PeerConnected, PeerIdentified, PeerDisconnected,
       ChallengeResponse, PeerRequest, SyncResponse, GossipBlock, GossipTransaction,
       GossipDropped, Strike, Expel, tableVars
  <1>3. \/ UNCHANGED peer_strikes
        \/ \E new : peer_strikes' = [peer_strikes EXCEPT ![p] = new]
    BY DEF Handle, PeerConnected, PeerIdentified, PeerDisconnected,
       ChallengeResponse, PeerRequest, SyncResponse, GossipBlock, GossipTransaction,
       GossipDropped, Strike, Expel, tableVars
  <1>4. \/ UNCHANGED peer_subnets
        \/ \E new : peer_subnets' = [peer_subnets EXCEPT ![p] = new]
    BY DEF Handle, PeerConnected, RecordConnection, PeerIdentified, PeerDisconnected,
       ChallengeResponse, PeerRequest, SyncResponse, GossipBlock, GossipTransaction,
       GossipDropped, gossipUnchanged, tableVars
  <1>5. /\ pending_challenges'[q] = pending_challenges[q]
        /\ peer_strikes'[q] = peer_strikes[q]
        /\ peer_subnets'[q] = peer_subnets[q]
    BY <1>0, <1>2, <1>3, <1>4
  <1> QED
    BY <1>1, <1>5 DEF Mentioned

LEMMA HandleGone ==
  ASSUME IInv, GoneInv, NEW p \in Peers, Handle(p)
  PROVE  GoneInv'
  <1>1. /\ events \in Seq(Events) /\ events # <<>> /\ Head(events).peer = p
        /\ events' = Tail(events) /\ UNCHANGED dropped
    <2>1. events # <<>> /\ Head(events).peer = p
      BY DEF Handle, Event, PeerConnected, PeerIdentified, PeerDisconnected,
         ChallengeResponse, PeerRequest, SyncResponse, GossipBlock, GossipTransaction,
         GossipDropped
    <2>2. events' = Tail(events) /\ UNCHANGED dropped
      BY DEF Handle, PeerConnected, PeerIdentified, PeerDisconnected, Take, TakeAndDisconnect,
         ChallengeResponse, PeerRequest, SyncResponse, GossipBlock, GossipTransaction,
         GossipDropped, Strike, Expel
    <2> QED
      BY <2>1, <2>2 DEF IInv, QueuesOK
  <1>2. UNCHANGED <<connections, closing>>
    BY DEF Handle, PeerConnected, PeerIdentified, PeerDisconnected, ChallengeResponse,
       PeerRequest, SyncResponse, GossipBlock, GossipTransaction, GossipDropped,
       gossipUnchanged, swarmVars
  <1>3. Head(events).type = "disconnected" => ~Mentioned(p)'
    <2> SUFFICES ASSUME Head(events).type = "disconnected" PROVE ~Mentioned(p)'
      OBVIOUS
    <2>1. PeerDisconnected(p)
      BY DEF Handle, Event, PeerConnected, PeerIdentified, ChallengeResponse,
         PeerRequest, SyncResponse, GossipBlock, GossipTransaction, GossipDropped
    <2>2. /\ pending_challenges'[p] = {} /\ peer_strikes'[p] = 0 /\ peer_subnets'[p] = {}
      BY <2>1 DEF PeerDisconnected, IInv, QueuesOK, TablesOK, SlotsOK
    <2>3. p \notin outbound_peers' \cup inbound_peers' \cup refiner_peers' \cup verified_peers'
      BY <2>1 DEF PeerDisconnected
    <2> QED
      BY <2>2, <2>3 DEF Mentioned
  <1>4. ASSUME ~dropped', NEW q \in Peers, Gone(q)'
        PROVE  /\ EndsIn(events', q)
               /\ Silent(events', q) => ~Mentioned(q)'
    <2>1. ~dropped /\ Gone(q)
      BY <1>1, <1>2, <1>4 DEF Gone
    <2>2. EndsIn(events, q)
      BY <2>1 DEF GoneInv, EndsReported
    <2>3. Silent(events', q) => ~Mentioned(q)'
      <3> SUFFICES ASSUME Silent(Tail(events), q) PROVE ~Mentioned(q)'
        BY <1>1
      <3>1. CASE q = p
        <4>1. Head(events).type = "disconnected"
          BY <1>1, <2>2, <3>1, TailEnds
        <4> QED
          BY <1>3, <3>1, <4>1
      <3>2. CASE q # p
        <4>1. Silent(events, q)
          BY <1>1, <2>2, <3>2, TailEnds
        <4>2. ~Mentioned(q)
          BY <2>1, <4>1 DEF GoneInv, GoneAreForgotten, Gone, Silent
        <4> QED
          BY <3>2, <4>2, OthersKept
      <3> QED
        BY <3>1, <3>2
    <2> QED
      BY <1>1, <2>2, <2>3, TailEnds
  <1>5. Counted'
    BY <1>1, <1>2 DEF GoneInv, Counted
  <1>6. EndsReported'
    BY <1>4 DEF EndsReported
  <1>7. GoneAreForgotten'
    BY <1>4 DEF GoneAreForgotten, Gone, Silent
  <1> QED
    BY <1>5, <1>6, <1>7 DEF GoneInv

LEMMA GoneStep == IInv /\ GoneInv /\ [Next]_vars => GoneInv'
  <1> SUFFICES ASSUME IInv, GoneInv, [Next]_vars PROVE GoneInv'
    OBVIOUS
  <1> USE PeersAssumption
  <1>1. ASSUME NEW p \in Peers, ChallengeTimeout(p) PROVE GoneInv'
    <2>1. /\ pending_challenges' = [pending_challenges EXCEPT ![p] = {}]
          /\ UNCHANGED <<connections, closing, events, dropped, outbound_peers, inbound_peers,
                         refiner_peers, verified_peers, peer_strikes, peer_subnets>>
      BY <1>1 DEF ChallengeTimeout, swarmVars
    <2>2. \A q \in Peers : Mentioned(q)' => Mentioned(q)
      BY <2>1 DEF Mentioned, IInv, QueuesOK
    <2>3. Counted' /\ EndsReported'
      BY <2>1 DEF GoneInv, Counted, EndsReported, Gone, EndsIn
    <2>4. GoneAreForgotten'
      BY <2>1, <2>2 DEF GoneInv, GoneAreForgotten
    <2> QED
      BY <2>3, <2>4 DEF GoneInv
  <1>2. CASE HandleCommand
    <2> DEFINE p == Head(commands)
    <2>1. /\ closing' = [closing EXCEPT ![p] = @ + connections[p]]
          /\ connections' = [connections EXCEPT ![p] = 0]
          /\ UNCHANGED <<events, dropped, tableVars>>
      BY <1>2 DEF HandleCommand
    <2>2. Counted'
      <3>1. CASE p \in Peers
        BY <2>1, <3>1 DEF GoneInv, Counted
      <3>2. CASE p \notin Peers
        <4>1. closing' = closing /\ connections' = connections
          BY <2>1, <3>2 DEF GoneInv, Counted
        <4> QED
          BY <2>1, <4>1 DEF GoneInv, Counted
      <3> QED
        BY <3>1, <3>2
    <2>3. \A q \in Peers : Gone(q)' => Gone(q)
      BY <2>1 DEF Gone, GoneInv, Counted
    <2>4. \A q \in Peers : Mentioned(q)' => Mentioned(q)
      BY <2>1 DEF Mentioned, tableVars
    <2>5. EndsReported'
      BY <2>1, <2>3 DEF GoneInv, EndsReported, EndsIn
    <2>6. GoneAreForgotten'
      BY <2>1, <2>3, <2>4 DEF GoneInv, GoneAreForgotten, Gone
    <2> QED
      BY <2>2, <2>5, <2>6 DEF GoneInv
  <1>3. CASE Restart
    <2>1. \A q \in Peers : ~Mentioned(q)'
      BY <1>3 DEF Restart, EmptyTables, Mentioned
    <2>2. events' = <<>>
      BY <1>3 DEF Restart
    <2>3. Counted'
      BY <1>3 DEF Restart, GoneInv, Counted
    <2>4. EndsReported'
      BY <2>2 DEF EndsReported, EndsIn
    <2> QED
      BY <2>1, <2>3, <2>4 DEF GoneInv, GoneAreForgotten
  <1>4. CASE UNCHANGED vars
    BY <1>4 DEF vars, swarmVars, queueVars, tableVars, GoneInv, Counted, EndsReported, EndsIn,
       Gone, GoneAreForgotten, Mentioned
  <1> QED
    BY <1>1, <1>2, <1>3, <1>4, HandleGone, SwarmGone, ResponseGone DEF Next

(* Unless an event was lost, no verification, strike or slot outlives the  *)
(* last connection of its peer, for every set of peers and every order of  *)
(* connections, commands and reports.                                      *)
THEOREM GoneTheorem == Spec => []GoneAreForgotten
  <1>1. Init => GoneInv
    <2> SUFFICES ASSUME Init PROVE GoneInv
      OBVIOUS
    <2>1. \A q \in Peers : ~Mentioned(q)
      BY DEF Init, Mentioned
    <2>2. Counted
      BY DEF Init, Counted
    <2>3. EndsReported
      BY DEF Init, EndsReported, EndsIn
    <2>4. GoneAreForgotten
      BY <2>1 DEF GoneAreForgotten
    <2> QED
      BY <2>2, <2>3, <2>4 DEF GoneInv
  <1>2. GoneInv => GoneAreForgotten
    BY DEF GoneInv
  <1> QED
    BY <1>1, <1>2, GoneStep, IInvHolds, PTL DEF Spec
=============================================================================
