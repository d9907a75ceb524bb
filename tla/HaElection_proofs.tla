-------------------------- MODULE HaElection_proofs --------------------------
(***************************************************************************)
(* Proofs about HaElection, for every finite membership and every bound.   *)
(***************************************************************************)
EXTENDS HaElection, FiniteSetTheorems, TLAPS

USE DEF row, stored, memory, mesh, poll, campaign, messages, bounds, history

(***************************************************************************)
(* Type correctness.  First the operators several actions share.           *)
(***************************************************************************)

ProcType == proc \in [Node -> {"up", "restarting", "down"}]

(* Adoption keeps the types of the row, the stores and the memory.         *)
LEMMA AdoptType ==
    ASSUME TypeOK, NEW n \in Node, NEW p \in Node, NEW e \in Nat, AdoptDiscoveredPrimary(n, p, e)
    PROVE  RowType' /\ StoredType' /\ MemoryType' /\ ProcType'
<1>1. CASE ~Adoptable(n, e)
  BY <1>1 DEF AdoptDiscoveredPrimary, TypeOK, RowType, StoredType, MemoryType, MeshType, ProcType
<1>2. CASE Adoptable(n, e)
  <2>1. RowType'
    <3>1. /\ dbRole' = [dbRole EXCEPT ![n] = "replica"] /\ dbPrimary' = [dbPrimary EXCEPT ![n] = p]
          /\ dbEpoch' = [dbEpoch EXCEPT ![n] = e] /\ dbFenced' = [dbFenced EXCEPT ![n] = FALSE]
          /\ UNCHANGED <<votedTerm, votedFor>>
      BY <1>2 DEF AdoptDiscoveredPrimary
    <3> QED BY <3>1, MembersFinite DEF TypeOK, RowType, NodeOrNull
  <2>2. StoredType'
    <3>1. pinned' = [pinned EXCEPT ![n] = FALSE]
      BY <1>2 DEF AdoptDiscoveredPrimary
    <3>2. CASE dbRole[n] = "primary"
      <4>1. PICK c \in 0..cursor[n] : cursor' = [cursor EXCEPT ![n] = c]
        BY <1>2, <3>2 DEF AdoptDiscoveredPrimary
      <4>2. bootstrapped' = [bootstrapped EXCEPT ![n] = FALSE]
        BY <1>2, <3>2 DEF AdoptDiscoveredPrimary
      <4> QED BY <3>1, <4>1, <4>2 DEF TypeOK, StoredType
    <3>3. CASE dbRole[n] # "primary"
      <4>1. UNCHANGED <<bootstrapped, cursor>>
        BY <1>2, <3>3 DEF AdoptDiscoveredPrimary
      <4> QED BY <3>1, <4>1 DEF TypeOK, StoredType
    <3> QED BY <3>2, <3>3
  <2>3. MemoryType'
    <3>1. /\ role' = [role EXCEPT ![n] = "replica"] /\ primary' = [primary EXCEPT ![n] = p]
          /\ epoch' = [epoch EXCEPT ![n] = e] /\ fenced' = [fenced EXCEPT ![n] = FALSE]
          /\ quorumFenced' = [quorumFenced EXCEPT ![n] = FALSE]
      BY <1>2 DEF AdoptDiscoveredPrimary
    <3> QED BY <3>1, MembersFinite DEF TypeOK, MemoryType, NodeOrNull
  <2>4. ProcType'
    BY <1>2 DEF AdoptDiscoveredPrimary, TypeOK, MeshType, ProcType
  <2> QED BY <2>1, <2>2, <2>3, <2>4
<1> QED BY <1>1, <1>2

(* The updates of a campaign keep its type.                                *)
LEMMA AbandonType == ASSUME CampaignType, NEW n \in Node, Abandon(n) PROVE CampaignType'
BY DEF Abandon, CampaignType

LEMMA EndCampaignType == ASSUME CampaignType, NEW n \in Node, EndCampaign(n) PROVE CampaignType'
BY DEF EndCampaign, CampaignType, NodeOrNull

LEMMA EnterType ==
    ASSUME CampaignType, NEW n \in Node, NEW next \in {"voted", "voting", "activating", "won", "notified"},
           Enter(n, next), UNCHANGED poll
    PROVE  CampaignType'
BY DEF Enter, CampaignType

(* An answer keeps the types of the campaign and of the messages.          *)
LEMMA ReplyType ==
    ASSUME CampaignType, MessageType, NEW r \in requests, NEW g \in BOOLEAN, NEW t \in Nat,
           Reply(r, g, t), UNCHANGED announces
    PROVE  CampaignType' /\ MessageType'
<1>1. r.from \in Node /\ r.to \in Node
  BY DEF MessageType, Request
<1>2. MessageType'
  BY DEF Reply, MessageType
<1>3. CampaignType'
  BY <1>1 DEF Reply, CampaignType
<1> QED BY <1>2, <1>3

(* A new process has well-typed memory, because the row is well-typed.     *)
LEMMA ReloadType ==
    ASSUME TypeOK, NEW n \in Node, Reload(n)
    PROVE  /\ RowType' /\ StoredType' /\ MemoryType' /\ CampaignType' /\ MessageType' /\ HistoryType'
           /\ ProcType' => MeshType'
<1>1. RowType' /\ StoredType' /\ HistoryType'
  BY DEF Reload, TypeOK, RowType, StoredType, HistoryType
<1>2. MemoryType'
  BY DEF Reload, BootsFenced, TypeOK, RowType, MemoryType
<1>3. CampaignType'
  BY EndCampaignType DEF Reload, TypeOK
<1>4. MessageType'
  BY DEF Reload, TypeOK, MessageType
<1>5. ProcType' => MeshType'
  <2>1. link' \in [Node -> {"unknown", "disconnected", "mismatch", "connected"}]
    BY DEF Reload, TypeOK, MeshType
  <2>2. handshake' \in [Node -> Hello] /\ \A m \in Node : handshake'[m].step # "none" => handshake'[m].from # NoNode
    BY DEF Reload, TypeOK, MeshType, Hello, NoHello, Connected, NodeOrNull
  <2> QED BY <2>1, <2>2 DEF MeshType, ProcType
<1> QED BY <1>1, <1>2, <1>3, <1>4, <1>5

(* The initial state is well-typed.                                        *)
LEMMA TypeInit == Init => TypeOK
<1> SUFFICES ASSUME Init PROVE TypeOK
  OBVIOUS
<1>1. PICK p \in Node :
          /\ dbRole = [n \in Node |-> IF n = p THEN "primary" ELSE "replica"]
          /\ dbPrimary = [n \in Node |-> IF n = p THEN NoNode ELSE p]
          /\ handshake = [n \in Node |-> IF n = p THEN NoHello ELSE Connected(p)]
          /\ pinned = [n \in Node |-> n # p]
          /\ link = [n \in Node |-> IF n = p THEN "unknown" ELSE "connected"]
          /\ elected = {[term |-> 0, node |-> p]}
  BY DEF Init
<1>2. RowType
  BY <1>1, MembersFinite DEF Init, RowType, NodeOrNull
<1>3. StoredType
  <2>1. cursor \in [Node -> 0..MaxCursor]
    BY DEF Init
  <2> QED BY <1>1, <2>1, BoundsAreNat DEF Init, StoredType
<1>4. MemoryType
  BY <1>2 DEF Init, MemoryType, RowType
<1>5. MeshType
  BY <1>1 DEF Init, MeshType, Hello, NoHello, Connected, NodeOrNull
<1>6. CampaignType /\ MessageType /\ HistoryType
  BY <1>1 DEF Init, CampaignType, MessageType, HistoryType, NodeOrNull, Winner
<1> QED BY <1>2, <1>3, <1>4, <1>5, <1>6, BoundsAreNat DEF Init, TypeOK

(* A failure that is or is not explained leaves the bounds natural.        *)
LEMMA BoundsType ==
    ASSUME faults \in Nat, campaigns \in Nat, NEW explained, FaultUnless(explained)
    PROVE  faults' \in Nat /\ campaigns' \in Nat
BY DEF FaultUnless, Fault

(* What a node answers names a member and an epoch.                        *)
LEMMA AnswerType ==
    ASSUME TypeOK, NEW n \in Node
    PROVE  /\ WhoIsPrimary(n).epoch \in Nat
           /\ NamesPrimary(WhoIsPrimary(n)) => WhoIsPrimary(n).primary \in Node
BY DEF WhoIsPrimary, NamesPrimary, TypeOK, MemoryType, NodeOrNull

(* The connection steps of a replica.                                      *)
LEMMA ReplicaStepType == ASSUME TypeOK, NEW n \in Node, ReplicaStep(n) PROVE TypeOK'
<1> USE DEF TypeOK
<1>1. CASE ConnectFails(n)
  <2>1. MeshType'
    BY <1>1 DEF ConnectFails, MeshType
  <2>2. faults' \in Nat /\ campaigns' \in Nat
    BY <1>1, BoundsType DEF ConnectFails
  <2> QED BY <1>1, <2>1, <2>2 DEF ConnectFails, RowType, StoredType, MemoryType, CampaignType, MessageType, HistoryType
<1>2. CASE HandlePrimaryRedirect(n)
  <2> DEFINE p == primary[n]
  <2>0. p \in Node /\ primary[p] \in Node /\ epoch[p] \in Nat
    BY <1>2 DEF HandlePrimaryRedirect, Connecting, MemoryType, NodeOrNull
  <2>1. RowType' /\ StoredType' /\ MemoryType' /\ ProcType' /\ CampaignType'
    <3>1. CASE epoch[p] >= epoch[n] /\ primary[p] # primary[n]
      <4>1. AdoptDiscoveredPrimary(n, primary[p], epoch[p])
        BY <1>2, <3>1 DEF HandlePrimaryRedirect
      <4>2. CampaignType'
        BY <1>2, <3>1, AbandonType DEF HandlePrimaryRedirect, CampaignType
      <4> QED BY <2>0, <4>1, <4>2, AdoptType
    <3>2. CASE ~(epoch[p] >= epoch[n] /\ primary[p] # primary[n])
      <4>1. pinned' = [pinned EXCEPT ![n] = TRUE] /\ UNCHANGED <<row, cursor, bootstrapped, memory, proc, campaign>>
        BY <1>2, <3>2 DEF HandlePrimaryRedirect
      <4>2. StoredType'
        BY <4>1 DEF StoredType
      <4> QED BY <4>1, <4>2 DEF RowType, MemoryType, MeshType, ProcType, CampaignType
    <3> QED BY <3>1, <3>2
  <2>2. MeshType'
    BY <1>2, <2>1 DEF HandlePrimaryRedirect, MeshType, ProcType
  <2> QED BY <1>2, <2>1, <2>2 DEF HandlePrimaryRedirect, MessageType, HistoryType
<1>3. CASE RefuseHello(n)
  <2>0. primary[n] \in Node
    BY <1>3 DEF RefuseHello, Connecting, MemoryType, NodeOrNull
  <2>1. RowType' /\ MemoryType'
    BY <1>3, <2>0 DEF RefuseHello, HandleAnnounce, Larger, RowType, MemoryType
  <2>2. StoredType' /\ MeshType'
    BY <1>3 DEF RefuseHello, StoredType, MeshType
  <2> QED BY <1>3, <2>1, <2>2 DEF RefuseHello, CampaignType, MessageType, HistoryType
<1>4. CASE AcceptHello(n)
  <2>0. primary[n] \in Node
    BY <1>4 DEF AcceptHello, Connecting, MemoryType, NodeOrNull
  <2>1. RowType' /\ StoredType' /\ MemoryType'
    BY <1>4, <2>0 DEF AcceptHello, RowType, StoredType, MemoryType
  <2>2. MeshType'
    BY <1>4, <2>0, MembersFinite DEF AcceptHello, MeshType, MemoryType, Hello, NodeOrNull
  <2> QED BY <1>4, <2>1, <2>2 DEF AcceptHello, CampaignType, MessageType, HistoryType
<1>5. CASE PersistHelloEpoch(n)
  <2>0. handshake[n].from \in Node /\ handshake[n].epoch \in Nat
    BY <1>5 DEF PersistHelloEpoch, MeshType, Hello, NodeOrNull
  <2>1. RowType'
    BY <1>5, <2>0 DEF PersistHelloEpoch, RowType
  <2>2. MeshType'
    BY <1>5, <2>0, MembersFinite DEF PersistHelloEpoch, MeshType, Hello, NodeOrNull
  <2> QED BY <1>5, <2>1, <2>2 DEF PersistHelloEpoch, StoredType, MemoryType, CampaignType, MessageType, HistoryType
<1>6. CASE VerifyConnection(n)
  <2>0. handshake[n].from \in Node
    BY <1>6 DEF VerifyConnection, MeshType, Hello, NodeOrNull
  <2>1. RowType'
    BY <1>6, <2>0 DEF VerifyConnection, HandleAnnounce, Larger, RowType, MemoryType
  <2>2. MemoryType'
    BY <1>6, <2>0 DEF VerifyConnection, HandleAnnounce, MemoryType
  <2>3. StoredType'
    BY <1>6, <2>0 DEF VerifyConnection, Larger, StoredType
  <2>4. MeshType'
    BY <1>6, <2>0 DEF VerifyConnection, MeshType, Hello, Connected, NodeOrNull
  <2>5. CampaignType'
    BY <1>6 DEF VerifyConnection, CampaignType
  <2> QED BY <1>6, <2>1, <2>2, <2>3, <2>4, <2>5 DEF VerifyConnection, MessageType, HistoryType
<1>7. CASE VerifyFails(n)
  <2>1. MeshType'
    BY <1>7 DEF VerifyFails, MeshType, Hello, NoHello, Connected, NodeOrNull
  <2>2. faults' \in Nat /\ campaigns' \in Nat
    BY <1>7, BoundsType DEF VerifyFails
  <2> QED BY <1>7, <2>1, <2>2 DEF VerifyFails, RowType, StoredType, MemoryType, CampaignType, MessageType, HistoryType
<1>8. CASE Disconnect(n)
  <2>1. MeshType'
    BY <1>8 DEF Disconnect, MeshType, Hello, NoHello, Connected, NodeOrNull
  <2>2. faults' \in Nat /\ campaigns' \in Nat
    BY <1>8, BoundsType DEF Disconnect
  <2> QED BY <1>8, <2>1, <2>2 DEF Disconnect, RowType, StoredType, MemoryType, CampaignType, MessageType, HistoryType
<1> QED BY <1>1, <1>2, <1>3, <1>4, <1>5, <1>6, <1>7, <1>8 DEF ReplicaStep

(* Persisting a vote keeps the types of the row and of the history.        *)
LEMMA PersistVoteType ==
    ASSUME RowType, HistoryType, NEW v \in Node, NEW t \in Nat, NEW c \in Node, PersistVote(v, t, c),
           UNCHANGED <<dbRole, dbPrimary, dbFenced, elected>>
    PROVE  RowType' /\ HistoryType'
<1>1. RowType'
  BY DEF PersistVote, RowType, Larger, NodeOrNull
<1>2. HistoryType'
  BY DEF PersistVote, HistoryType, Vote
<1> QED BY <1>1, <1>2

(* The steps of a candidate.                                               *)
LEMMA CampaignStepType == ASSUME TypeOK, NEW n \in Node, CampaignStep(n) PROVE TypeOK'
<1> USE DEF TypeOK
<1>0. term[n] \in Nat
  BY DEF CampaignType
<1>1. CASE StartCampaign(n)
  <2>1. CampaignType'
    BY <1>1 DEF StartCampaign, CampaignType, MemoryType
  <2>2. faults' \in Nat /\ campaigns' \in Nat
    BY <1>1 DEF StartCampaign
  <2> QED BY <1>1, <2>1, <2>2 DEF StartCampaign, RowType, StoredType, MemoryType, MeshType, MessageType, HistoryType
<1>2. CASE VoteForSelf(n)
  <2>1. RowType' /\ HistoryType' /\ CampaignType'
    <3>1. CASE StillCampaigning(n) /\ Grantable(n, term[n], n)
      BY <1>0, <1>2, <3>1, PersistVoteType, EnterType DEF VoteForSelf
    <3>2. CASE ~(StillCampaigning(n) /\ Grantable(n, term[n], n))
      BY <1>2, <3>2, EndCampaignType DEF VoteForSelf, RowType, HistoryType
    <3> QED BY <3>1, <3>2
  <2> QED BY <1>2, <2>1 DEF VoteForSelf, StoredType, MemoryType, MeshType, MessageType
<1>3. CASE RequestVotes(n)
  <2>1. MemoryType' /\ MessageType' /\ CampaignType'
    <3>1. CASE StillCampaigning(n)
      <4>1. MemoryType'
        BY <1>0, <1>3, <3>1 DEF RequestVotes, Larger, MemoryType
      <4>2. MessageType'
        BY <1>0, <1>3, <3>1 DEF RequestVotes, MessageType, Request, StoredType
      <4>3. CampaignType'
        BY <1>3, <3>1 DEF RequestVotes, Enter, CampaignType
      <4> QED BY <4>1, <4>2, <4>3
    <3>2. CASE ~StillCampaigning(n)
      BY <1>3, <3>2, EndCampaignType DEF RequestVotes, MemoryType, MessageType
    <3> QED BY <3>1, <3>2
  <2> QED BY <1>3, <2>1 DEF RequestVotes, RowType, StoredType, MeshType, HistoryType
<1>4. CASE ConcedeToTerm(n)
  <2>1. PICK t \in higher[n] :
            /\ epoch' = [epoch EXCEPT ![n] = Larger(@, t)]
            /\ dbEpoch' = [dbEpoch EXCEPT ![n] = IF dbRole[n] = "replica" THEN Larger(@, t) ELSE @]
    BY <1>4 DEF ConcedeToTerm
  <2>2. t \in Nat
    BY DEF CampaignType
  <2>3. RowType'
    BY <1>4, <2>1, <2>2 DEF ConcedeToTerm, RowType, Larger
  <2>4. MemoryType'
    BY <1>4, <2>1, <2>2 DEF ConcedeToTerm, MemoryType, Larger
  <2>5. CampaignType'
    BY <1>4, EndCampaignType DEF ConcedeToTerm
  <2> QED BY <1>4, <2>3, <2>4, <2>5 DEF ConcedeToTerm, StoredType, MeshType, MessageType, HistoryType
<1>5. CASE CountVotes(n)
  <2>1. CampaignType'
    BY <1>5, EnterType, EndCampaignType DEF CountVotes
  <2> QED BY <1>5, <2>1 DEF CountVotes, RowType, StoredType, MemoryType, MeshType, MessageType, HistoryType
<1>6. CASE ActivateWinner(n)
  <2>1. RowType' /\ MemoryType' /\ CampaignType' /\ HistoryType'
    <3>1. CASE Activatable(n)
      <4>1. RowType'
        BY <1>6, <3>1 DEF ActivateWinner, RowType, NodeOrNull
      <4>2. MemoryType'
        BY <1>0, <1>6, <3>1 DEF ActivateWinner, MemoryType
      <4>3. CampaignType'
        BY <1>6, <3>1, EnterType DEF ActivateWinner
      <4>4. HistoryType'
        BY <1>0, <1>6, <3>1 DEF ActivateWinner, HistoryType, Winner
      <4> QED BY <4>1, <4>2, <4>3, <4>4
    <3>2. CASE ~Activatable(n)
      BY <1>6, <3>2, EndCampaignType DEF ActivateWinner, RowType, MemoryType, HistoryType
    <3> QED BY <3>1, <3>2
  <2> QED BY <1>6, <2>1 DEF ActivateWinner, StoredType, MeshType, MessageType
<1>7. CASE NotifyPeers(n)
  <2>1. CampaignType'
    BY <1>7, EnterType DEF NotifyPeers
  <2>2. MessageType'
    BY <1>0, <1>7 DEF NotifyPeers, MessageType, Announce
  <2>3. MeshType'
    BY <1>7 DEF NotifyPeers, MeshType
  <2> QED BY <1>7, <2>1, <2>2, <2>3 DEF NotifyPeers, RowType, StoredType, MemoryType, HistoryType
<1> QED BY <1>1, <1>2, <1>3, <1>4, <1>5, <1>6, <1>7 DEF CampaignStep

(* The steps of a primary, of discovery and of the process.                *)
LEMMA PrimaryStepType == ASSUME TypeOK, NEW n \in Node, PrimaryStep(n) PROVE TypeOK'
<1> USE DEF TypeOK
<1>1. CASE LoseQuorum(n)
  <2>1. MemoryType'
    BY <1>1 DEF LoseQuorum, MemoryType
  <2> QED BY <1>1, <2>1 DEF LoseQuorum, RowType, StoredType, MeshType, CampaignType, MessageType, HistoryType
<1>2. CASE RegainQuorum(n)
  <2>1. MemoryType'
    BY <1>2 DEF RegainQuorum, MemoryType
  <2> QED BY <1>2, <2>1 DEF RegainQuorum, RowType, StoredType, MeshType, CampaignType, MessageType, HistoryType
<1>3. CASE RecoverFormerPrimary(n)
  <2>1. PICK p \in Node, e \in {epoch[q] : q \in Node} : AdoptDiscoveredPrimary(n, p, e)
    BY <1>3 DEF RecoverFormerPrimary
  <2>2. e \in Nat
    BY <2>1 DEF MemoryType
  <2>3. RowType' /\ StoredType' /\ MemoryType' /\ ProcType'
    BY <2>1, <2>2, AdoptType
  <2> QED BY <1>3, <2>3 DEF RecoverFormerPrimary, ProcType, MeshType, CampaignType, MessageType, HistoryType
<1> QED BY <1>1, <1>2, <1>3 DEF PrimaryStep

LEMMA ProcessStepType == ASSUME TypeOK, NEW n \in Node, ProcessStep(n) PROVE TypeOK'
<1> USE DEF TypeOK
<1>1. CASE Crash(n)
  <2>1. ProcType' /\ faults' \in Nat /\ campaigns' \in Nat
    BY <1>1 DEF Crash, Fault, ProcType, MeshType
  <2> QED BY <1>1, <2>1, ReloadType DEF Crash
<1>2. CASE Boot(n)
  <2>1. MeshType'
    BY <1>2 DEF Boot, MeshType
  <2> QED BY <1>2, <2>1 DEF Boot, RowType, StoredType, MemoryType, CampaignType, MessageType, HistoryType
<1>3. CASE Restart(n)
  <2>1. ProcType'
    BY <1>3 DEF Restart, ProcType, MeshType
  <2> QED BY <1>3, <2>1, ReloadType DEF Restart
<1> QED BY <1>1, <1>2, <1>3 DEF ProcessStep

LEMMA PeerStepType ==
    ASSUME TypeOK, NEW n \in Node, NEW m \in Node, Discover(n, m) \/ RequestFails(n, m)
    PROVE  TypeOK'
<1> USE DEF TypeOK
<1>1. CASE Discover(n, m)
  <2>1. RowType' /\ StoredType' /\ MemoryType' /\ ProcType'
    BY <1>1, AdoptType, AnswerType DEF Discover, News
  <2> QED BY <1>1, <2>1 DEF Discover, ProcType, MeshType, CampaignType, MessageType, HistoryType
<1>2. CASE RequestFails(n, m)
  <2>1. CampaignType'
    BY <1>2 DEF RequestFails, WaitingWithout, CampaignType
  <2>2. faults' \in Nat /\ campaigns' \in Nat
    BY <1>2, BoundsType DEF RequestFails
  <2> QED BY <1>2, <2>1, <2>2 DEF RequestFails, RowType, StoredType, MemoryType, MeshType, MessageType, HistoryType
<1> QED BY <1>1, <1>2

(* What happens to a message.                                              *)
LEMMA ProgressType ==
    ASSUME CampaignType, MessageType, NEW r \in requests, NEW stage \in {"checked", "adopted"},
           Progress(r, stage), UNCHANGED announces
    PROVE  CampaignType' /\ MessageType'
<1>1. CampaignType'
  BY DEF Progress, CampaignType
<1>2. MessageType'
  BY DEF Progress, MessageType, Request
<1> QED BY <1>1, <1>2

LEMMA VoterStepType == ASSUME TypeOK, NEW r \in requests, VoterStep(r) PROVE TypeOK'
<1> USE DEF TypeOK
<1>0. /\ r.from \in Node /\ r.to \in Node /\ r.term \in Nat
      /\ epoch[r.to] \in Nat /\ dbEpoch[r.to] \in Nat
  BY DEF MessageType, Request, MemoryType, RowType
<1>1. CASE RefuseVote(r)
  <2>1. CampaignType' /\ MessageType'
    BY <1>0, <1>1, ReplyType DEF RefuseVote
  <2> QED BY <1>1, <2>1 DEF RefuseVote, RowType, StoredType, MemoryType, MeshType, HistoryType
<1>2. CASE FencePrimaryForElection(r)
  <2>1. RowType' /\ dbEpoch'[r.to] \in Nat
    BY <1>0, <1>2 DEF FencePrimaryForElection, RowType, Larger
  <2>2. MemoryType' /\ epoch'[r.to] \in Nat
    BY <1>0, <1>2, <2>1 DEF FencePrimaryForElection, MemoryType, Larger
  <2>3. CampaignType' /\ MessageType'
    BY <1>2, <2>2, ReplyType DEF FencePrimaryForElection
  <2> QED BY <1>2, <2>1, <2>2, <2>3 DEF FencePrimaryForElection, StoredType, MeshType, HistoryType
<1>3. CASE ConsiderVote(r)
  <2>1. CampaignType' /\ MessageType'
    BY <1>3, ProgressType DEF ConsiderVote
  <2> QED BY <1>3, <2>1 DEF ConsiderVote, RowType, StoredType, MemoryType, MeshType, HistoryType
<1>4. CASE AdoptTerm(r)
  <2>1. RowType' /\ MemoryType' /\ CampaignType' /\ MessageType'
    <3>1. CASE dbRole[r.to] = "primary"
      <4>1. CampaignType' /\ MessageType'
        BY <1>0, <1>4, <3>1, ReplyType DEF AdoptTerm
      <4> QED BY <1>4, <3>1, <4>1 DEF AdoptTerm, RowType, MemoryType
    <3>2. CASE dbRole[r.to] # "primary"
      <4>1. RowType' /\ dbEpoch'[r.to] \in Nat
        BY <1>0, <1>4, <3>2 DEF AdoptTerm, RowType, Larger
      <4>2. MemoryType' /\ epoch'[r.to] \in Nat
        BY <1>0, <1>4, <3>2, <4>1 DEF AdoptTerm, MemoryType, Larger
      <4>3. CampaignType' /\ MessageType'
        BY <1>4, <3>2, <4>2, ReplyType, ProgressType DEF AdoptTerm
      <4> QED BY <4>1, <4>2, <4>3
    <3> QED BY <3>1, <3>2
  <2> QED BY <1>4, <2>1 DEF AdoptTerm, StoredType, MeshType, HistoryType
<1>5. CASE GrantVote(r)
  <2>1. RowType' /\ HistoryType'
    <3>1. CASE Grantable(r.to, r.term, r.from)
      BY <1>0, <1>5, <3>1, PersistVoteType DEF GrantVote
    <3>2. CASE ~Grantable(r.to, r.term, r.from)
      BY <1>5, <3>2 DEF GrantVote, RowType, HistoryType
    <3> QED BY <3>1, <3>2
  <2>2. CampaignType' /\ MessageType'
    BY <1>0, <1>5, ReplyType DEF GrantVote
  <2> QED BY <1>5, <2>1, <2>2 DEF GrantVote, StoredType, MemoryType, MeshType
<1> QED BY <1>1, <1>2, <1>3, <1>4, <1>5 DEF VoterStep

LEMMA AnnounceStepType ==
    ASSUME TypeOK, NEW m \in announces, HandleAnnouncePrimary(m) \/ LoseAnnounce(m)
    PROVE  TypeOK'
<1> USE DEF TypeOK
<1>0. m.to \in Node /\ m.node \in Node /\ m.epoch \in Nat
  BY DEF MessageType, Announce
<1>1. CASE HandleAnnouncePrimary(m)
  <2> DEFINE known == \/ m.epoch < epoch[m.to]
                      \/ role[m.to] = "replica" /\ m.epoch = epoch[m.to] /\ primary[m.to] = m.node
  <2>1. RowType' /\ StoredType' /\ MemoryType' /\ ProcType' /\ CampaignType'
    <3>1. CASE known
      BY <1>1, <3>1 DEF HandleAnnouncePrimary, RowType, StoredType, MemoryType, MeshType, ProcType, CampaignType
    <3>2. CASE ~known
      <4>1. AdoptDiscoveredPrimary(m.to, m.node, m.epoch) /\ Abandon(m.to)
        BY <1>1, <3>2 DEF HandleAnnouncePrimary
      <4> QED BY <1>0, <4>1, AdoptType, AbandonType
    <3> QED BY <3>1, <3>2
  <2>2. MessageType'
    BY <1>1 DEF HandleAnnouncePrimary, MessageType
  <2> QED BY <1>1, <2>1, <2>2 DEF HandleAnnouncePrimary, ProcType, MeshType, HistoryType
<1>2. CASE LoseAnnounce(m)
  <2>1. MessageType' /\ faults' \in Nat /\ campaigns' \in Nat
    BY <1>2 DEF LoseAnnounce, Fault, MessageType
  <2> QED BY <1>2, <2>1 DEF LoseAnnounce, RowType, StoredType, MemoryType, MeshType, CampaignType, HistoryType
<1> QED BY <1>1, <1>2

(* Every step keeps the types.                                             *)
LEMMA TypeStep == TypeOK /\ [Next]_vars => TypeOK'
<1> SUFFICES ASSUME TypeOK, [Next]_vars PROVE TypeOK'
  OBVIOUS
<1>1. CASE \E n \in Node : ReplicaStep(n) \/ CampaignStep(n) \/ PrimaryStep(n) \/ ProcessStep(n)
  BY <1>1, ReplicaStepType, CampaignStepType, PrimaryStepType, ProcessStepType
<1>2. CASE \E n, m \in Node : Discover(n, m) \/ RequestFails(n, m)
  BY <1>2, PeerStepType
<1>3. CASE \E r \in requests : VoterStep(r)
  BY <1>3, VoterStepType
<1>4. CASE \E m \in announces : HandleAnnouncePrimary(m) \/ LoseAnnounce(m)
  BY <1>4, AnnounceStepType
<1>5. CASE UNCHANGED vars
  BY <1>5 DEF vars, TypeOK, RowType, StoredType, MemoryType, MeshType, CampaignType, MessageType, HistoryType
<1> QED BY <1>1, <1>2, <1>3, <1>4, <1>5 DEF Next

(* The row, the memory, the connections, the campaigns and the messages of *)
(* every node keep their types: a replica always names some primary, what  *)
(* discovery and redirects adopt included, and a term stays a number.      *)
THEOREM TypeCorrect == Spec => []TypeOK
BY TypeInit, TypeStep, PTL DEF Spec

(***************************************************************************)
(* Election safety.  VoteOnce is inductive by itself: the WHERE clause of  *)
(* tryPersistVoteGrant lets a vote through only if the row proves that no  *)
(* other vote of the term exists.  WinnersHaveMajority needs in addition   *)
(* that a campaign starts with no vote counted.                            *)
(***************************************************************************)

ballot == <<votedTerm, votedFor, phase, term, granted, votes, elected>>

StartsUncounted == \A n \in Node : phase[n] \in {"idle", "candidate"} => granted[n] = {}

BallotInv == VoteOnce /\ WinnersHaveMajority /\ StartsUncounted

LEMMA BallotInit == Init => BallotInv
BY DEF Init, BallotInv, VoteOnce, WinnersHaveMajority, StartsUncounted, VotersFor

LEMMA SameBallot == BallotInv /\ UNCHANGED ballot => BallotInv'
BY DEF ballot, BallotInv, VoteOnce, WinnersHaveMajority, StartsUncounted, VotersFor, IsMajority

(* A larger set of members is a majority if the smaller one is.            *)
LEMMA MajorityGrows ==
    ASSUME NEW A, NEW B, A \subseteq B, B \subseteq Node, IsMajority(A)
    PROVE  IsMajority(B)
<1>1. IsFiniteSet(A) /\ IsFiniteSet(B)
  BY MembersFinite, FS_Subset
<1>2. Cardinality(A) <= Cardinality(B) /\ Cardinality(A) \in Nat /\ Cardinality(B) \in Nat
  BY <1>1, FS_Subset, FS_CardinalityType
<1>3. Cardinality(Node) \in Nat
  BY MembersFinite, FS_CardinalityType
<1> QED BY <1>2, <1>3 DEF IsMajority

(* Two majorities have a member in common.                                 *)
LEMMA MajoritiesMeet ==
    ASSUME NEW A \in SUBSET Node, NEW B \in SUBSET Node, IsMajority(A), IsMajority(B)
    PROVE  \E v \in Node : v \in A /\ v \in B
<1>1. IsFiniteSet(A) /\ IsFiniteSet(B) /\ IsFiniteSet(A \cup B)
  BY MembersFinite, FS_Subset
<1>2. Cardinality(A \cup B) = Cardinality(A) + Cardinality(B) - Cardinality(A \cap B)
  BY <1>1, FS_Union
<1>3. Cardinality(A \cup B) <= Cardinality(Node)
  BY MembersFinite, FS_Subset
<1>4. Cardinality(A) \in Nat /\ Cardinality(B) \in Nat /\ Cardinality(Node) \in Nat /\ IsFiniteSet(A \cap B)
  BY <1>1, MembersFinite, FS_CardinalityType, FS_Subset
<1>5. Cardinality(A \cap B) # 0
  BY <1>2, <1>3, <1>4 DEF IsMajority
<1>6. A \cap B # {}
  BY <1>5, FS_EmptySet
<1> QED BY <1>6

(* A process that ends its campaign disturbs nothing.                      *)
LEMMA EndCampaignBallot ==
    ASSUME TypeOK, BallotInv, NEW n \in Node, EndCampaign(n), UNCHANGED <<votedTerm, votedFor, votes, elected>>
    PROVE  BallotInv'
<1>1. VoteOnce'
  BY DEF BallotInv, VoteOnce
<1>2. WinnersHaveMajority'
  BY DEF BallotInv, WinnersHaveMajority, VotersFor, IsMajority, EndCampaign, TypeOK, CampaignType
<1>3. StartsUncounted'
  BY DEF BallotInv, StartsUncounted, EndCampaign, TypeOK, CampaignType
<1> QED BY <1>1, <1>2, <1>3 DEF BallotInv

(* A refusal counts nothing.                                               *)
LEMMA RefusalBallot ==
    ASSUME TypeOK, BallotInv, NEW r \in requests, NEW t \in Nat, Reply(r, FALSE, t),
           UNCHANGED <<votedTerm, votedFor, votes, elected>>
    PROVE  BallotInv'
<1>1. granted' = granted
  BY DEF Reply, TypeOK, CampaignType
<1> QED BY <1>1, SameBallot DEF Reply, ballot

(* The crux: a vote the WHERE clause lets through is the only one of its   *)
(* voter and term.                                                         *)
LEMMA VoteIsNew ==
    ASSUME TypeOK, VoteOnce, NEW v \in Node, NEW t \in Nat, NEW c \in Node,
           Grantable(v, t, c), PersistVote(v, t, c)
    PROVE  VoteOnce'
<1> DEFINE new == [voter |-> v, term |-> t, for |-> c]
<1>1. votes' = votes \union {new} /\ votes \subseteq Vote
  BY DEF PersistVote, TypeOK, HistoryType
<1>2. votedTerm' = [votedTerm EXCEPT ![v] = t] /\ votedFor' = [votedFor EXCEPT ![v] = c]
  BY DEF PersistVote
<1>3. votedTerm \in [Node -> Nat] /\ votedFor \in [Node -> NodeOrNull]
  BY DEF TypeOK, RowType
<1>4. votedTerm[v] <= t /\ (votedTerm[v] = t => votedFor[v] = c)
  BY <1>3 DEF Grantable
<1>5. ASSUME NEW y \in votes, y.voter = v PROVE y.term <= t /\ (y.term = t => y = new)
  <2>1. y.term <= votedTerm[v] /\ (y.term = votedTerm[v] => y.for = votedFor[v])
    BY <1>5 DEF VoteOnce
  <2>2. y \in Vote
    BY <1>1
  <2>3. y.term \in Nat /\ y = [voter |-> y.voter, term |-> y.term, for |-> y.for]
    BY <2>2 DEF Vote
  <2> QED BY <1>3, <1>4, <1>5, <2>1, <2>3
<1>6. ASSUME NEW x \in votes'
      PROVE  /\ x.term <= votedTerm'[x.voter]
             /\ x.term = votedTerm'[x.voter] => x.for = votedFor'[x.voter]
  <2>1. CASE x = new
    BY <1>2, <1>3, <2>1
  <2>2. CASE x # new /\ x.voter = v
    BY <1>1, <1>2, <1>3, <1>5, <2>2
  <2>3. CASE x # new /\ x.voter # v
    <3>1. x \in votes /\ x.voter \in Node
      BY <1>1, <2>3 DEF Vote
    <3> QED BY <1>2, <1>3, <2>3, <3>1 DEF VoteOnce
  <2> QED BY <2>1, <2>2, <2>3
<1>7. ASSUME NEW x \in votes', NEW y \in votes', x.voter = y.voter, x.term = y.term PROVE x = y
  <2>1. CASE x \in votes /\ y \in votes
    BY <1>7, <2>1 DEF VoteOnce
  <2>2. CASE x = new \/ y = new
    BY <1>1, <1>5, <1>7, <2>2
  <2> QED BY <1>1, <2>1, <2>2
<1> QED BY <1>6, <1>7 DEF VoteOnce

(* More votes leave the majorities behind the winners what they are.       *)
LEMMA MoreVotes ==
    ASSUME TypeOK, WinnersHaveMajority, votes \subseteq votes',
           UNCHANGED elected
    PROVE  /\ \A c, t : VotersFor(c, t) \subseteq VotersFor(c, t)'
           /\ \A x \in elected' : x.term > 0 => IsMajority(VotersFor(x.node, x.term))'
           /\ \A x, y \in elected' : x.term = 0 /\ y.term = 0 => x = y
<1>1. \A c, t : VotersFor(c, t) \subseteq VotersFor(c, t)' /\ VotersFor(c, t)' \subseteq Node
  BY DEF VotersFor
<1>2. ASSUME NEW x \in elected', x.term > 0 PROVE IsMajority(VotersFor(x.node, x.term))'
  <2>1. IsMajority(VotersFor(x.node, x.term))
    BY <1>2 DEF WinnersHaveMajority
  <2>2. IsMajority(VotersFor(x.node, x.term)')
    BY <1>1, <2>1, MajorityGrows
  <2> QED BY <2>2 DEF IsMajority
<1>3. \A x, y \in elected' : x.term = 0 /\ y.term = 0 => x = y
  BY DEF WinnersHaveMajority
<1> QED BY <1>1, <1>2, <1>3

(* The steps of a candidate keep the ballot sound.                         *)
LEMMA CampaignStepBallot ==
    ASSUME TypeOK, BallotInv, NEW n \in Node, CampaignStep(n)
    PROVE  BallotInv'
<1> USE DEF BallotInv
<1>0. term[n] \in Nat /\ epoch[n] \in Nat
  BY DEF TypeOK, CampaignType, MemoryType
<1>1. CASE StartCampaign(n)
  <2>1. /\ phase' = [phase EXCEPT ![n] = "candidate"] /\ term' = [term EXCEPT ![n] = epoch[n] + 1]
        /\ UNCHANGED <<granted, votedTerm, votedFor, votes, elected>> /\ granted[n] = {}
    BY <1>1 DEF StartCampaign, StartsUncounted
  <2>2. VoteOnce'
    BY <2>1 DEF VoteOnce
  <2>3. StartsUncounted'
    BY <2>1 DEF StartsUncounted, TypeOK, CampaignType
  <2>4. WinnersHaveMajority'
    BY <1>0, <2>1 DEF WinnersHaveMajority, VotersFor, IsMajority, TypeOK, CampaignType
  <2> QED BY <2>2, <2>3, <2>4
<1>2. CASE VoteForSelf(n)
  <2>1. CASE StillCampaigning(n) /\ Grantable(n, term[n], n)
    <3>1. /\ PersistVote(n, term[n], n) /\ Grantable(n, term[n], n) /\ phase[n] = "candidate"
          /\ phase' = [phase EXCEPT ![n] = "voted"]
          /\ UNCHANGED <<term, granted, elected>>
      BY <1>2, <2>1 DEF VoteForSelf, Enter
    <3>2. VoteOnce'
      BY <1>0, <3>1, VoteIsNew
    <3>3. StartsUncounted'
      BY <3>1 DEF StartsUncounted, TypeOK, CampaignType
    <3>4. votes \subseteq votes' /\ [voter |-> n, term |-> term[n], for |-> n] \in votes'
      BY <3>1 DEF PersistVote
    <3>5. /\ \A c, t : VotersFor(c, t) \subseteq VotersFor(c, t)'
          /\ \A x \in elected' : x.term > 0 => IsMajority(VotersFor(x.node, x.term))'
          /\ \A x, y \in elected' : x.term = 0 /\ y.term = 0 => x = y
      BY <3>1, <3>4, MoreVotes
    <3>6. n \in VotersFor(n, term[n])'
      BY <3>1, <3>4 DEF VotersFor
    <3>7. ASSUME NEW m \in Node
          PROVE  /\ phase'[m] # "idle" => term'[m] > 0
                 /\ phase'[m] = "voted" => m \in VotersFor(m, term[m])'
                 /\ granted'[m] \subseteq VotersFor(m, term[m])'
                 /\ phase'[m] = "activating" => IsMajority(granted[m])'
      <4>1. granted[m] \subseteq VotersFor(m, term[m])'
        BY <3>1, <3>5 DEF WinnersHaveMajority, VotersFor
      <4>2. CASE m = n
        BY <3>1, <3>6, <4>1, <4>2 DEF WinnersHaveMajority, TypeOK, CampaignType
      <4>3. CASE m # n
        BY <3>1, <3>4, <4>1, <4>3 DEF WinnersHaveMajority, VotersFor, IsMajority, TypeOK, CampaignType
      <4> QED BY <4>2, <4>3
    <3>8. WinnersHaveMajority'
      BY <3>5, <3>7 DEF WinnersHaveMajority
    <3> QED BY <3>2, <3>3, <3>8
  <2>2. CASE ~(StillCampaigning(n) /\ Grantable(n, term[n], n))
    BY <1>2, <2>2, EndCampaignBallot DEF VoteForSelf
  <2> QED BY <2>1, <2>2
<1>3. CASE RequestVotes(n)
  <2>1. CASE StillCampaigning(n)
    <3>1. /\ phase[n] = "voted" /\ phase' = [phase EXCEPT ![n] = "voting"]
          /\ granted' = [granted EXCEPT ![n] = {n}]
          /\ UNCHANGED <<term, votedTerm, votedFor, votes, elected>>
      BY <1>3, <2>1 DEF RequestVotes, Enter
    <3>2. VoteOnce' /\ StartsUncounted'
      BY <3>1 DEF VoteOnce, StartsUncounted, TypeOK, CampaignType
    <3>3. WinnersHaveMajority'
      BY <3>1 DEF WinnersHaveMajority, VotersFor, IsMajority, TypeOK, CampaignType
    <3> QED BY <3>2, <3>3
  <2>2. CASE ~StillCampaigning(n)
    BY <1>3, <2>2, EndCampaignBallot DEF RequestVotes
  <2> QED BY <2>1, <2>2
<1>4. CASE ConcedeToTerm(n)
  BY <1>4, EndCampaignBallot DEF ConcedeToTerm
<1>5. CASE CountVotes(n)
  <2>1. CASE IsMajority(granted[n]) /\ MayActivate(n)
    <3>1. /\ phase[n] = "voting" /\ phase' = [phase EXCEPT ![n] = "activating"] /\ IsMajority(granted[n])
          /\ UNCHANGED <<term, granted, votedTerm, votedFor, votes, elected>>
      BY <1>5, <2>1 DEF CountVotes, Counted, Enter
    <3>2. VoteOnce' /\ StartsUncounted'
      BY <3>1 DEF VoteOnce, StartsUncounted, TypeOK, CampaignType
    <3>3. WinnersHaveMajority'
      BY <3>1 DEF WinnersHaveMajority, VotersFor, IsMajority, TypeOK, CampaignType
    <3> QED BY <3>2, <3>3
  <2>2. CASE ~(IsMajority(granted[n]) /\ MayActivate(n))
    BY <1>5, <2>2, EndCampaignBallot DEF CountVotes
  <2> QED BY <2>1, <2>2
<1>6. CASE ActivateWinner(n)
  <2>1. CASE Activatable(n)
    <3> DEFINE new == [term |-> term[n], node |-> n]
    <3>1. /\ phase[n] = "activating" /\ phase' = [phase EXCEPT ![n] = "won"]
          /\ elected' = elected \union {new}
          /\ UNCHANGED <<term, granted, votedTerm, votedFor, votes>>
      BY <1>6, <2>1 DEF ActivateWinner, Enter
    <3>2. VoteOnce' /\ StartsUncounted'
      BY <3>1 DEF VoteOnce, StartsUncounted, TypeOK, CampaignType
    <3>3. IsMajority(granted[n]) /\ granted[n] \subseteq VotersFor(n, term[n]) /\ term[n] > 0
      BY <3>1 DEF WinnersHaveMajority
    <3>4. IsMajority(VotersFor(n, term[n]))
      BY <3>3, MajorityGrows DEF VotersFor
    <3>5. \A c, t : VotersFor(c, t)' = VotersFor(c, t)
      BY <3>1 DEF VotersFor
    <3>6. \A m \in Node :
              /\ phase'[m] # "idle" => term'[m] > 0
              /\ phase'[m] = "voted" => m \in VotersFor(m, term[m])'
              /\ granted'[m] \subseteq VotersFor(m, term[m])'
              /\ phase'[m] = "activating" => IsMajority(granted[m])'
      BY <3>1 DEF WinnersHaveMajority, VotersFor, IsMajority, TypeOK, CampaignType
    <3>7. ASSUME NEW x \in elected', x.term > 0 PROVE IsMajority(VotersFor(x.node, x.term))'
      <4>1. IsMajority(VotersFor(x.node, x.term))
        BY <3>1, <3>4, <3>7 DEF WinnersHaveMajority
      <4> QED BY <3>5, <4>1 DEF IsMajority
    <3>8. \A x, y \in elected' : x.term = 0 /\ y.term = 0 => x = y
      BY <1>0, <3>1, <3>3 DEF WinnersHaveMajority
    <3>9. WinnersHaveMajority'
      BY <3>6, <3>7, <3>8 DEF WinnersHaveMajority
    <3> QED BY <3>2, <3>9
  <2>2. CASE ~Activatable(n)
    BY <1>6, <2>2, EndCampaignBallot DEF ActivateWinner
  <2> QED BY <2>1, <2>2
<1>7. CASE NotifyPeers(n)
  <2>1. /\ phase[n] = "won" /\ phase' = [phase EXCEPT ![n] = "notified"]
        /\ UNCHANGED <<term, granted, votedTerm, votedFor, votes, elected>>
    BY <1>7 DEF NotifyPeers, Announceable, Enter
  <2>2. VoteOnce' /\ StartsUncounted'
    BY <2>1 DEF VoteOnce, StartsUncounted, TypeOK, CampaignType
  <2>3. WinnersHaveMajority'
    BY <2>1 DEF WinnersHaveMajority, VotersFor, IsMajority, TypeOK, CampaignType
  <2> QED BY <2>2, <2>3
<1> QED BY <1>1, <1>2, <1>3, <1>4, <1>5, <1>6, <1>7 DEF CampaignStep

(* The steps of a voter keep the ballot sound.                             *)
LEMMA VoterStepBallot ==
    ASSUME TypeOK, BallotInv, NEW r \in requests, VoterStep(r)
    PROVE  BallotInv'
<1> USE DEF BallotInv
<1>0. /\ r.from \in Node /\ r.to \in Node /\ r.term \in Nat
      /\ epoch[r.to] \in Nat /\ dbEpoch[r.to] \in Nat
  BY DEF TypeOK, MessageType, Request, MemoryType, RowType
<1>a. epoch' \in [Node -> Nat]
  BY VoterStepType DEF TypeOK, MemoryType
<1>1. CASE RefuseVote(r)
  BY <1>0, <1>1, RefusalBallot DEF RefuseVote
<1>2. CASE FencePrimaryForElection(r)
  BY <1>0, <1>a, <1>2, RefusalBallot DEF FencePrimaryForElection
<1>3. CASE ConsiderVote(r)
  BY <1>3, SameBallot DEF ConsiderVote, Progress, ballot
<1>4. CASE AdoptTerm(r)
  <2>1. CASE Reply(r, FALSE, epoch[r.to]) \/ Reply(r, FALSE, epoch'[r.to])
    BY <1>0, <1>a, <1>4, <2>1, RefusalBallot DEF AdoptTerm
  <2>2. CASE Progress(r, "adopted")
    BY <1>4, <2>2, SameBallot DEF AdoptTerm, Progress, ballot
  <2> QED BY <1>4, <2>1, <2>2 DEF AdoptTerm
<1>5. CASE GrantVote(r)
  <2>1. CASE Grantable(r.to, r.term, r.from)
    <3>1. /\ PersistVote(r.to, r.term, r.from) /\ Reply(r, TRUE, r.term)
          /\ UNCHANGED <<phase, term, elected>>
      BY <1>5, <2>1 DEF GrantVote, Reply
    <3>2. VoteOnce'
      BY <1>0, <2>1, <3>1, VoteIsNew
    <3>3. StartsUncounted'
      BY <1>0, <3>1 DEF StartsUncounted, Reply, Awaited, TypeOK, CampaignType
    <3>4. votes \subseteq votes' /\ [voter |-> r.to, term |-> r.term, for |-> r.from] \in votes'
      BY <3>1 DEF PersistVote
    <3>5. /\ \A c, t : VotersFor(c, t) \subseteq VotersFor(c, t)'
          /\ \A x \in elected' : x.term > 0 => IsMajority(VotersFor(x.node, x.term))'
          /\ \A x, y \in elected' : x.term = 0 /\ y.term = 0 => x = y
      BY <3>1, <3>4, MoreVotes
    <3>6. ASSUME NEW m \in Node
          PROVE  /\ phase'[m] # "idle" => term'[m] > 0
                 /\ phase'[m] = "voted" => m \in VotersFor(m, term[m])'
                 /\ granted'[m] \subseteq VotersFor(m, term[m])'
                 /\ phase'[m] = "activating" => IsMajority(granted[m])'
      <4>1. granted[m] \subseteq VotersFor(m, term[m])'
        BY <3>1, <3>5 DEF WinnersHaveMajority, VotersFor
      <4>2. CASE granted'[m] = granted[m]
        BY <3>1, <3>4, <4>1, <4>2 DEF WinnersHaveMajority, VotersFor, IsMajority
      <4>3. CASE granted'[m] # granted[m]
        <5>1. m = r.from /\ Awaited(r) /\ granted'[m] = granted[m] \union {r.to}
          BY <1>0, <3>1, <4>3 DEF Reply, TypeOK, CampaignType
        <5>2. phase[m] = "voting" /\ term[m] = r.term
          BY <5>1 DEF Awaited
        <5>3. r.to \in VotersFor(m, term[m])'
          BY <1>0, <3>1, <3>4, <5>1, <5>2 DEF VotersFor
        <5> QED BY <3>1, <4>1, <5>1, <5>2, <5>3 DEF WinnersHaveMajority
      <4> QED BY <4>2, <4>3
    <3>7. WinnersHaveMajority'
      BY <3>5, <3>6 DEF WinnersHaveMajority
    <3> QED BY <3>2, <3>3, <3>7
  <2>2. CASE ~Grantable(r.to, r.term, r.from)
    BY <1>0, <1>5, <2>2, RefusalBallot DEF GrantVote
  <2> QED BY <2>1, <2>2
<1> QED BY <1>1, <1>2, <1>3, <1>4, <1>5 DEF VoterStep

(* No other step touches the ballot, except that a process that dies or    *)
(* restarts ends its campaign.                                             *)
LEMMA BallotStep == TypeOK /\ BallotInv /\ [Next]_vars => BallotInv'
<1> SUFFICES ASSUME TypeOK, BallotInv, [Next]_vars PROVE BallotInv'
  OBVIOUS
<1>1. ASSUME NEW n \in Node, ReplicaStep(n) PROVE BallotInv'
  <2>1. UNCHANGED ballot
    BY <1>1 DEF ReplicaStep, ConnectFails, HandlePrimaryRedirect, RefuseHello, AcceptHello, PersistHelloEpoch,
                VerifyConnection, VerifyFails, Disconnect, AdoptDiscoveredPrimary, Abandon, ballot
  <2> QED BY <2>1, SameBallot
<1>2. ASSUME NEW n \in Node, PrimaryStep(n) PROVE BallotInv'
  <2>1. UNCHANGED ballot
    BY <1>2 DEF PrimaryStep, LoseQuorum, RegainQuorum, RecoverFormerPrimary, AdoptDiscoveredPrimary, ballot
  <2> QED BY <2>1, SameBallot
<1>3. ASSUME NEW n \in Node, ProcessStep(n) PROVE BallotInv'
  <2>1. CASE Boot(n)
    BY <2>1, SameBallot DEF Boot, ballot
  <2>2. CASE Crash(n) \/ Restart(n)
    BY <2>2, EndCampaignBallot DEF Crash, Restart, Reload
  <2> QED BY <1>3, <2>1, <2>2 DEF ProcessStep
<1>4. ASSUME NEW n \in Node, NEW m \in Node, Discover(n, m) \/ RequestFails(n, m) PROVE BallotInv'
  <2>1. UNCHANGED ballot
    BY <1>4 DEF Discover, RequestFails, AdoptDiscoveredPrimary, ballot
  <2> QED BY <2>1, SameBallot
<1>5. ASSUME NEW m \in announces, HandleAnnouncePrimary(m) \/ LoseAnnounce(m) PROVE BallotInv'
  <2>1. UNCHANGED ballot
    BY <1>5 DEF HandleAnnouncePrimary, LoseAnnounce, AdoptDiscoveredPrimary, Abandon, ballot
  <2> QED BY <2>1, SameBallot
<1>6. CASE UNCHANGED vars
  BY <1>6, SameBallot DEF vars, ballot
<1> QED BY <1>1, <1>2, <1>3, <1>4, <1>5, <1>6, CampaignStepBallot, VoterStepBallot DEF Next

LEMMA BallotHolds == Spec => []BallotInv
BY TypeCorrect, BallotInit, BallotStep, PTL DEF Spec

(* No node votes for two candidates in one term, for any membership and    *)
(* any number of crashes: the row of tryPersistVoteGrant sees to it.       *)
THEOREM VotesAreUnique == Spec => []VoteOnce
BY BallotHolds, PTL DEF BallotInv

(* Every winner is backed by a majority of persisted votes.                *)
THEOREM MajorityBehindWinner == Spec => []WinnersHaveMajority
BY BallotHolds, PTL DEF BallotInv

(* Two winners of one term share a voter, who voted only once.             *)
LEMMA BallotImpliesSafety == TypeOK /\ BallotInv => ElectionSafety
<1> SUFFICES ASSUME TypeOK, BallotInv, NEW a \in elected, NEW b \in elected, a.term = b.term PROVE a = b
  BY DEF ElectionSafety
<1>1. /\ a = [term |-> a.term, node |-> a.node] /\ b = [term |-> b.term, node |-> b.node]
      /\ a.term \in Nat
  BY DEF TypeOK, HistoryType, Winner
<1>2. CASE a.term = 0
  BY <1>2 DEF BallotInv, WinnersHaveMajority
<1>3. CASE a.term > 0
  <2>1. IsMajority(VotersFor(a.node, a.term)) /\ IsMajority(VotersFor(b.node, b.term))
    BY <1>3 DEF BallotInv, WinnersHaveMajority
  <2>2. PICK v \in Node : v \in VotersFor(a.node, a.term) /\ v \in VotersFor(b.node, b.term)
    BY <2>1, MajoritiesMeet DEF VotersFor
  <2>3. [voter |-> v, term |-> a.term, for |-> a.node] = [voter |-> v, term |-> b.term, for |-> b.node]
    BY <2>2 DEF BallotInv, VoteOnce, VotersFor
  <2> QED BY <1>1, <2>3
<1> QED BY <1>1, <1>2, <1>3

(* At most one node is activated as primary by the election of a term,     *)
(* for every finite membership, any number of campaigns, crashes, restarts *)
(* and lost messages.                                                      *)
THEOREM ElectionIsSafe == Spec => []ElectionSafety
BY TypeCorrect, BallotHolds, BallotImpliesSafety, PTL

(***************************************************************************)
(* A winner that activates is not connected: its connection was lost when  *)
(* the campaign started, and no stream is verified during the activation.  *)
(***************************************************************************)

LEMMA DisconnectedStep == TypeOK /\ WinnerIsDisconnected /\ [Next]_vars => WinnerIsDisconnected'
<1> SUFFICES ASSUME TypeOK, WinnerIsDisconnected, [Next]_vars PROVE WinnerIsDisconnected'
  OBVIOUS
<1> USE DEF WinnerIsDisconnected, Activating
<1>0. /\ phase \in [Node -> {"idle", "candidate", "voted", "voting", "activating", "won", "notified"}]
      /\ link \in [Node -> {"unknown", "disconnected", "mismatch", "connected"}]
  BY DEF TypeOK, CampaignType, MeshType
<1>1. ASSUME NEW n \in Node, ReplicaStep(n) PROVE WinnerIsDisconnected'
  <2>1. UNCHANGED phase
    BY <1>1 DEF ReplicaStep, ConnectFails, HandlePrimaryRedirect, RefuseHello, AcceptHello, PersistHelloEpoch,
                VerifyConnection, VerifyFails, Disconnect, Abandon
  <2>2. CASE VerifyConnection(n)
    BY <1>0, <2>1, <2>2 DEF VerifyConnection
  <2>3. CASE ~VerifyConnection(n)
    <3>1. \/ UNCHANGED link
          \/ \E l \in {"unknown", "disconnected", "mismatch"} : link' = [link EXCEPT ![n] = l]
          \/ link' = [link EXCEPT ![n] = link[n]]
      BY <1>1, <2>3 DEF ReplicaStep, ConnectFails, HandlePrimaryRedirect, RefuseHello, AcceptHello,
                        PersistHelloEpoch, VerifyFails, Disconnect
    <3> QED BY <1>0, <2>1, <3>1
  <2> QED BY <2>2, <2>3
<1>2. ASSUME NEW n \in Node, CampaignStep(n) PROVE WinnerIsDisconnected'
  <2>1. UNCHANGED link
    BY <1>2 DEF CampaignStep, StartCampaign, VoteForSelf, RequestVotes, ConcedeToTerm, CountVotes,
                ActivateWinner, NotifyPeers
  <2>2. CASE CountVotes(n)
    BY <1>0, <2>1, <2>2 DEF CountVotes, Enter, EndCampaign, MayActivate, StillCampaigning, Disconnected
  <2>3. CASE ActivateWinner(n) \/ NotifyPeers(n)
    BY <1>0, <2>1, <2>3 DEF ActivateWinner, NotifyPeers, Announceable, Enter, EndCampaign
  <2>4. CASE StartCampaign(n) \/ VoteForSelf(n) \/ RequestVotes(n) \/ ConcedeToTerm(n)
    BY <1>0, <2>1, <2>4 DEF StartCampaign, VoteForSelf, RequestVotes, ConcedeToTerm, Enter, EndCampaign
  <2> QED BY <1>2, <2>2, <2>3, <2>4 DEF CampaignStep
<1>3. ASSUME NEW n \in Node, PrimaryStep(n) PROVE WinnerIsDisconnected'
  BY <1>3 DEF PrimaryStep, LoseQuorum, RegainQuorum, RecoverFormerPrimary
<1>4. ASSUME NEW n \in Node, ProcessStep(n) PROVE WinnerIsDisconnected'
  <2>1. CASE Boot(n)
    BY <2>1 DEF Boot
  <2>2. CASE Crash(n) \/ Restart(n)
    BY <1>0, <2>2 DEF Crash, Restart, Reload, EndCampaign
  <2> QED BY <1>4, <2>1, <2>2 DEF ProcessStep
<1>5. ASSUME NEW n \in Node, NEW m \in Node, Discover(n, m) \/ RequestFails(n, m) PROVE WinnerIsDisconnected'
  BY <1>5 DEF Discover, RequestFails
<1>6. ASSUME NEW r \in requests, VoterStep(r) PROVE WinnerIsDisconnected'
  BY <1>6 DEF VoterStep, RefuseVote, FencePrimaryForElection, ConsiderVote, AdoptTerm, GrantVote, Reply, Progress
<1>7. ASSUME NEW m \in announces, HandleAnnouncePrimary(m) \/ LoseAnnounce(m) PROVE WinnerIsDisconnected'
  BY <1>7 DEF HandleAnnouncePrimary, LoseAnnounce, Abandon
<1>8. CASE UNCHANGED vars
  BY <1>8 DEF vars
<1> QED BY <1>1, <1>2, <1>3, <1>4, <1>5, <1>6, <1>7, <1>8 DEF Next

(* Activation of a winner and its connection to a primary exclude each     *)
(* other, however its awaits interleave with a reconnect.                  *)
THEOREM ActivationIsDisconnected == Spec => []WinnerIsDisconnected
<1>1. Init => WinnerIsDisconnected
  BY DEF Init, WinnerIsDisconnected, Activating
<1> QED BY <1>1, TypeCorrect, DisconnectedStep, PTL DEF Spec

(***************************************************************************)
(* Every name of a primary that is stored, remembered or on its way        *)
(* belongs to the first primary or to a winner.                            *)
(***************************************************************************)

Won(p) == \E x \in elected : x.node = p

names == <<dbRole, dbPrimary, role, primary, phase, announces, elected>>

NamesInv ==
    /\ \A n \in Node :
          /\ dbRole[n] = "primary" => Won(n)
          /\ dbPrimary[n] # NoNode => Won(dbPrimary[n])
          /\ role[n] = "primary" => Won(n)
          /\ primary[n] # NoNode => Won(primary[n])
          /\ phase[n] = "won" => Won(n)
    /\ \A m \in announces : Won(m.node)

LEMMA SameNames == NamesInv /\ UNCHANGED names => NamesInv'
BY DEF NamesInv, Won, names

(* Adoption of a winner is sound.                                          *)
LEMMA AdoptNames ==
    ASSUME TypeOK, NamesInv, NEW n \in Node, NEW p \in Node, NEW e, Won(p), AdoptDiscoveredPrimary(n, p, e),
           announces' \subseteq announces, UNCHANGED <<phase, elected>>
    PROVE  NamesInv'
<1>1. CASE Adoptable(n, e)
  <2>1. /\ dbRole' = [dbRole EXCEPT ![n] = "replica"] /\ dbPrimary' = [dbPrimary EXCEPT ![n] = p]
        /\ role' = [role EXCEPT ![n] = "replica"] /\ primary' = [primary EXCEPT ![n] = p]
    BY <1>1 DEF AdoptDiscoveredPrimary
  <2> QED BY <2>1 DEF NamesInv, Won, TypeOK, RowType, MemoryType
<1>2. CASE ~Adoptable(n, e)
  BY <1>2 DEF AdoptDiscoveredPrimary, NamesInv, Won
<1> QED BY <1>1, <1>2

(* A new phase other than "won" is sound.                                  *)
LEMMA PhaseNames ==
    ASSUME TypeOK, NamesInv, NEW n \in Node, NEW next \in {"idle", "candidate", "voted", "voting", "activating", "notified"},
           phase' = [phase EXCEPT ![n] = next],
           UNCHANGED <<dbRole, dbPrimary, role, primary, announces, elected>>
    PROVE  NamesInv'
BY DEF NamesInv, Won, TypeOK, CampaignType

LEMMA CampaignStepNames == ASSUME TypeOK, NamesInv, NEW n \in Node, CampaignStep(n) PROVE NamesInv'
<1>1. CASE StartCampaign(n) \/ VoteForSelf(n) \/ RequestVotes(n) \/ ConcedeToTerm(n) \/ CountVotes(n)
  <2>1. /\ \E next \in {"idle", "candidate", "voted", "voting", "activating"} : phase' = [phase EXCEPT ![n] = next]
        /\ UNCHANGED <<dbRole, dbPrimary, role, primary, announces, elected>>
    BY <1>1 DEF StartCampaign, VoteForSelf, RequestVotes, ConcedeToTerm, CountVotes, Enter, EndCampaign
  <2> QED BY <2>1, PhaseNames
<1>2. CASE ActivateWinner(n)
  <2>1. CASE Activatable(n)
    <3>1. /\ dbRole' = [dbRole EXCEPT ![n] = "primary"] /\ dbPrimary' = [dbPrimary EXCEPT ![n] = NoNode]
          /\ elected' = elected \union {[term |-> term[n], node |-> n]}
          /\ phase' = [phase EXCEPT ![n] = "won"]
          /\ UNCHANGED <<role, primary, announces>>
      BY <1>2, <2>1 DEF ActivateWinner, Enter
    <3> DEFINE new == [term |-> term[n], node |-> n]
    <3>2. new \in elected' /\ new.node = n
      BY <3>1
    <3>3. Won(n)'
      BY <3>2 DEF Won
    <3>4. \A p : Won(p) => Won(p)'
      BY <3>1 DEF Won
    <3> HIDE DEF new
    <3> QED BY <3>1, <3>3, <3>4 DEF NamesInv, Won, TypeOK, RowType, CampaignType
  <2>2. CASE ~Activatable(n)
    <3>1. /\ phase' = [phase EXCEPT ![n] = "idle"]
          /\ UNCHANGED <<dbRole, dbPrimary, role, primary, announces, elected>>
      BY <1>2, <2>2 DEF ActivateWinner, EndCampaign
    <3> QED BY <3>1, PhaseNames
  <2> QED BY <2>1, <2>2
<1>3. CASE NotifyPeers(n)
  <2>1. Won(n) /\ phase' = [phase EXCEPT ![n] = "notified"] /\ UNCHANGED <<dbRole, dbPrimary, role, primary, elected>>
    BY <1>3 DEF NotifyPeers, Announceable, Enter, NamesInv
  <2>2. \A m \in announces' : m \in announces \/ m.node = n
    BY <1>3 DEF NotifyPeers
  <2> QED BY <2>1, <2>2 DEF NamesInv, Won, TypeOK, CampaignType
<1> QED BY <1>1, <1>2, <1>3 DEF CampaignStep

(* A new process knows what its row says.                                  *)
LEMMA ReloadNames == ASSUME TypeOK, NamesInv, NEW n \in Node, Reload(n) PROVE NamesInv'
<1>1. /\ role' = [role EXCEPT ![n] = dbRole[n]] /\ primary' = [primary EXCEPT ![n] = dbPrimary[n]]
      /\ phase' = [phase EXCEPT ![n] = "idle"] /\ announces' \subseteq announces
      /\ UNCHANGED <<dbRole, dbPrimary, elected>>
  BY DEF Reload, EndCampaign
<1> QED BY <1>1 DEF NamesInv, Won, TypeOK, CampaignType, MemoryType

LEMMA NamesStep == TypeOK /\ NamesInv /\ [Next]_vars => NamesInv'
<1> SUFFICES ASSUME TypeOK, NamesInv, [Next]_vars PROVE NamesInv'
  OBVIOUS
<1>1. ASSUME NEW n \in Node, HandlePrimaryRedirect(n) PROVE NamesInv'
  <2> DEFINE p == primary[n]
  <2>1. p \in Node /\ primary[p] \in Node /\ Won(primary[p])
    BY <1>1 DEF HandlePrimaryRedirect, Connecting, TypeOK, MemoryType, NodeOrNull, NamesInv
  <2>2. CASE epoch[p] >= epoch[n] /\ primary[p] # primary[n]
    <3>1. AdoptDiscoveredPrimary(n, primary[p], epoch[p]) /\ UNCHANGED <<phase, announces, elected>>
      BY <1>1, <2>2 DEF HandlePrimaryRedirect, Abandon
    <3> QED BY <2>1, <3>1, AdoptNames
  <2>3. CASE ~(epoch[p] >= epoch[n] /\ primary[p] # primary[n])
    BY <1>1, <2>3, SameNames DEF HandlePrimaryRedirect, names
  <2> QED BY <2>2, <2>3
<1>2. ASSUME NEW n \in Node, ReplicaStep(n), ~HandlePrimaryRedirect(n) PROVE NamesInv'
  <2>1. UNCHANGED names
    BY <1>2 DEF ReplicaStep, ConnectFails, RefuseHello, AcceptHello, PersistHelloEpoch, VerifyConnection,
                VerifyFails, Disconnect, names
  <2> QED BY <2>1, SameNames
<1>3. ASSUME NEW n \in Node, PrimaryStep(n) PROVE NamesInv'
  <2>1. CASE LoseQuorum(n) \/ RegainQuorum(n)
    BY <2>1, SameNames DEF LoseQuorum, RegainQuorum, names
  <2>2. CASE RecoverFormerPrimary(n)
    <3>1. PICK p \in Node, e \in {epoch[q] : q \in Node} :
              /\ WhoIsPrimary(p).role = "primary"
              /\ AdoptDiscoveredPrimary(n, p, e)
      BY <2>2 DEF RecoverFormerPrimary
    <3>2. Won(p)
      BY <3>1 DEF WhoIsPrimary, NamesInv
    <3>3. UNCHANGED <<phase, announces, elected>>
      BY <2>2 DEF RecoverFormerPrimary
    <3> QED BY <3>1, <3>2, <3>3, AdoptNames
  <2> QED BY <1>3, <2>1, <2>2 DEF PrimaryStep
<1>4. ASSUME NEW n \in Node, ProcessStep(n) PROVE NamesInv'
  <2>1. CASE Boot(n)
    BY <2>1, SameNames DEF Boot, names
  <2>2. CASE Crash(n) \/ Restart(n)
    BY <2>2, ReloadNames DEF Crash, Restart
  <2> QED BY <1>4, <2>1, <2>2 DEF ProcessStep
<1>5. ASSUME NEW n \in Node, NEW m \in Node, Discover(n, m) PROVE NamesInv'
  <2> DEFINE answer == WhoIsPrimary(m)
  <2>1. answer.primary # NoNode /\ answer.primary \in Node
    BY <1>5, AnswerType DEF Discover, News, NamesPrimary
  <2>2. Won(answer.primary)
    BY <2>1 DEF WhoIsPrimary, NamesInv
  <2>3. AdoptDiscoveredPrimary(n, answer.primary, answer.epoch) /\ UNCHANGED <<phase, announces, elected>>
    BY <1>5 DEF Discover
  <2> QED BY <2>1, <2>2, <2>3, AdoptNames
<1>6. ASSUME NEW n \in Node, NEW m \in Node, RequestFails(n, m) PROVE NamesInv'
  BY <1>6, SameNames DEF RequestFails, names
<1>7. ASSUME NEW r \in requests, VoterStep(r) PROVE NamesInv'
  <2>1. UNCHANGED names
    BY <1>7 DEF VoterStep, RefuseVote, FencePrimaryForElection, ConsiderVote, AdoptTerm, GrantVote, Reply,
                Progress, names
  <2> QED BY <2>1, SameNames
<1>8. ASSUME NEW m \in announces, HandleAnnouncePrimary(m) PROVE NamesInv'
  <2>1. m.to \in Node /\ m.node \in Node /\ Won(m.node)
    BY DEF NamesInv, TypeOK, MessageType, Announce
  <2>2. CASE AdoptDiscoveredPrimary(m.to, m.node, m.epoch)
    <3>1. announces' \subseteq announces /\ UNCHANGED <<phase, elected>>
      BY <1>8 DEF HandleAnnouncePrimary, Abandon
    <3> QED BY <2>1, <2>2, <3>1, AdoptNames
  <2>3. CASE UNCHANGED <<row, stored, memory, proc, campaign>>
    <3>1. announces' \subseteq announces /\ UNCHANGED elected
      BY <1>8 DEF HandleAnnouncePrimary
    <3> QED BY <2>3, <3>1 DEF NamesInv, Won
  <2> QED BY <1>8, <2>2, <2>3 DEF HandleAnnouncePrimary
<1>9. ASSUME NEW m \in announces, LoseAnnounce(m) PROVE NamesInv'
  BY <1>9 DEF LoseAnnounce, NamesInv, Won
<1>10. CASE UNCHANGED vars
  BY <1>10, SameNames DEF vars, names
<1> QED BY <1>1, <1>2, <1>3, <1>4, <1>5, <1>6, <1>7, <1>8, <1>9, <1>10, CampaignStepNames DEF Next

LEMMA NamesInit == Init => NamesInv
BY MembersFinite DEF Init, NamesInv, Won

(* Whoever is primary was the first one or won an election, and whoever    *)
(* follows a primary follows such a node.                                  *)
THEOREM PrimariesWonElections == Spec => []PrimariesAreElected
<1>1. TypeOK /\ NamesInv => PrimariesAreElected
  BY DEF NamesInv, Won, PrimariesAreElected, TypeOK, RowType
<1> QED BY <1>1, TypeCorrect, NamesInit, NamesStep, PTL DEF Spec
=============================================================================
