------------------------ MODULE BinlogSyncLog_proofs ------------------------
(***************************************************************************)
(* Unless synchronisation rounds overlap, the slave's binlog is a prefix   *)
(* of the master's (LogPrefix), the whole system implements the abstract   *)
(* ReplicatedLog, and total_size_ of the window is exact                   *)
(* (WindowSizeExact).                                                      *)
(*                                                                         *)
(* A session is offered by a TrySync reply, asked for by a first           *)
(* BinlogSync request and then active at the master's node.  The argument  *)
(* is that a session passes these stages once: it is offered at most once  *)
(* and asked for at most once, and nothing is read for it before it is     *)
(* active.  So a slave that connects meets no record of its session, and   *)
(* from then on what is on its way to it (the messages at the slave, the   *)
(* batches of the auxiliary thread, the write queue) is one run of records *)
(* that starts behind the slave's binlog and ends at the master's reader.  *)
(*                                                                         *)
(* For the size of the window, the acknowledgements are followed as well:  *)
(* those of the active session that were not carried out cover disjoint    *)
(* ranges of records, none of which is marked in the window, and those of  *)
(* earlier sessions end before the window begins.                          *)
(***************************************************************************)
EXTENDS BinlogSyncSafety_proofs, FiniteSetTheorems

-----------------------------------------------------------------------------
(* The stages of a session *)

(* A batch, a message or the write queue with records of session s. *)
Carries(c, s) == c # <<>> /\ c[1].session = s /\ c[1].off > 0

IsOffer(m) == m.type = "TrySync" /\ m.code = "kOk"
Offered(s) == \E i \in 1..Len(slaveIn) : IsOffer(slaveIn[i]) /\ slaveIn[i].session = s

(* Thread t has a first BinlogSync request that it has not carried out. *)
Asks(t) == srv[t].pc \in {"start", "apply"} /\ srv[t].req.first
Asked(s) ==
  \/ \E i \in 1..Len(s2m) : s2m[i].first /\ s2m[i].session = s
  \/ \E t \in Threads : Asks(t) /\ srv[t].req.session = s

Active(s) == node.reader \in Nat /\ node.session = s

Fills(t, s) == srv[t].pc = "fill" /\ srv[t].req.session = s

NotSent(s) == \A i \in 1..Len(slaveIn) : ~Carries(slaveIn[i].chips, s)
NotTaken(s) == \A i \in 1..Len(outbox) : ~Carries(outbox[i], s)
NotRead(s) == NotSent(s) /\ NotTaken(s) /\ ~Carries(wq, s) /\ ~Active(s)

-----------------------------------------------------------------------------
(* The inductive invariant, part by part *)

(* Records that travel together are of one session; keepalives travel alone. *)
OneSession(c) ==
  \A i \in 1..Len(c) : c[i].session = c[1].session /\ (c[i].off > 0 <=> c[1].off > 0)
Known(c) == \A i \in 1..Len(c) : c[i].off <= producer /\ c[i].session < nextSession

ShapeInv ==
  /\ \A i \in 1..Len(slaveIn) :
       /\ OneSession(slaveIn[i].chips) /\ Known(slaveIn[i].chips)
       /\ slaveIn[i].type = "TrySync" => slaveIn[i].chips = <<>>
  /\ \A i \in 1..Len(outbox) : OneSession(outbox[i]) /\ Known(outbox[i])
  /\ OneSession(wq) /\ Known(wq)
  /\ wq # <<>> => wq[1].off > 0
  /\ wq # <<>> /\ node.reader \in Nat => wq[1].session = node.session

(* The number of a session that was heard of was generated. *)
NumberInv ==
  /\ node.exists => node.session < nextSession
  /\ \A i \in 1..Len(slaveIn) : IsOffer(slaveIn[i]) => slaveIn[i].session < nextSession
  /\ \A i \in 1..Len(s2m) : s2m[i].first => s2m[i].session < nextSession
  /\ \A t \in Threads :
       Asks(t) \/ srv[t].pc \in {"apply", "fill"} => srv[t].req.session < nextSession
  /\ rstate = "kConnected" => session < nextSession

(* A node whose slave cannot be written to is one the slave never heard of. *)
ConnInv ==
  /\ link => mslave /\ metaDone
  /\ \A i \in 1..Len(s2m) : s2m[i].live => mslave
  /\ \A t \in Threads : srv[t].req.live => mslave
  /\ node.exists /\ ~CanWrite =>
       ~Offered(node.session) /\ ~Asked(node.session) /\ ~Active(node.session)

(* A node is active, and is filled, only when its session was asked for; *)
(* then it is neither offered nor asked for again.                       *)
StartInv ==
  /\ node.reader \in Nat => node.exists /\ node.state = "kSlaveBinlogSync"
  /\ \A t \in Threads :
       node.exists /\ Fills(t, node.session) => node.state = "kSlaveBinlogSync"
  /\ node.exists /\ node.state = "kSlaveBinlogSync" =>
       ~Offered(node.session) /\ ~Asked(node.session)

(* A session is offered once and asked for once, before anything is read. *)
OfferInv ==
  /\ \A i, j \in 1..Len(slaveIn) :
       IsOffer(slaveIn[i]) /\ IsOffer(slaveIn[j]) /\ slaveIn[i].session = slaveIn[j].session => i = j
  /\ \A s \in Nat : Offered(s) =>
       NotRead(s) /\ ~Asked(s) /\ (rstate = "kConnected" => session # s)

AskInv ==
  /\ \A i, j \in 1..Len(s2m) :
       s2m[i].first /\ s2m[j].first /\ s2m[i].session = s2m[j].session => i = j
  /\ \A i \in 1..Len(s2m), t \in Threads :
       s2m[i].first /\ Asks(t) => s2m[i].session # srv[t].req.session
  /\ \A t, u \in Threads :
       Asks(t) /\ Asks(u) /\ srv[t].req.session = srv[u].req.session => t = u
  /\ \A s \in Nat : Asked(s) => NotRead(s)

(* What a connected slave has asked for starts behind its binlog; a slave     *)
(* that connects without a connection has asked for nothing.                  *)
ConnectedInv ==
  rstate = "kConnected" =>
    /\ \A i \in 1..Len(s2m) : s2m[i].first /\ s2m[i].session = session => s2m[i].start = Len(slog)
    /\ \A t \in Threads : Asks(t) /\ srv[t].req.session = session => srv[t].req.start = Len(slog)
    /\ ~metaDone => NotRead(session) /\ ~Asked(session)

(* e[i] is the offset behind the first i messages or batches. *)
Rises(e, n) == e \in [0..n -> Nat] /\ \A i, j \in 0..n : i <= j => e[i] <= e[j]
Follows(c, from, to, s) ==
  IF Carries(c, s) THEN (\A p \in 1..Len(c) : c[p].off = from + p) /\ to = from + Len(c)
  ELSE to = from

(* The records at the slave follow its binlog ... *)
Arrives(e) ==
  /\ Rises(e, Len(slaveIn)) /\ e[0] = Len(slog)
  /\ \A i \in 1..Len(slaveIn) : Follows(slaveIn[i].chips, e[i - 1], e[i], session)

(* ... the batches and the queue follow them, up to the reader ... *)
Leaves(f) ==
  /\ Rises(f, Len(outbox))
  /\ \A i \in 1..Len(outbox) : Follows(outbox[i], f[i - 1], f[i], session)
  /\ \A i \in 1..Len(wq) : wq[i].off = f[Len(outbox)] + i
  /\ node.reader = f[Len(outbox)] + Len(wq)

(* ... unless EraseWriteQueue dropped the first records of the session: the   *)
(* slave waits for them, so the master never reads on.                        *)
Stalled ==
  /\ NotSent(session) /\ NotTaken(session) /\ ~Carries(wq, session)
  /\ node.acked = Len(slog) /\ node.reader > Len(slog)
  /\ \A t \in Threads : ~Fills(t, session)

(* What the master still has for the slave, whose messages end at offset x. *)
Behind(x) ==
  \/ ~Active(session) /\ NotTaken(session) /\ ~Carries(wq, session)
  \/ Active(session) /\ Stalled
  \/ Active(session) /\ \E f \in [0..Len(outbox) -> Nat] : f[0] = x /\ Leaves(f)

StreamInv ==
  rstate = "kConnected" =>
    \E e \in [0..Len(slaveIn) -> Nat] : Arrives(e) /\ (link => Behind(e[Len(slaveIn)]))

(* While a batch of an earlier session has failed, nothing of the active one  *)
(* has left the queue.                                                        *)
LateInv ==
  rstate = "kConnected" /\ link /\ sendFailed /\ Active(session) /\ ~Stalled =>
    /\ NotSent(session) /\ NotTaken(session)
    /\ node.acked = Len(slog) /\ node.reader = Len(slog) + Len(wq)
    /\ \A t, u \in Threads : Fills(t, session) /\ Fills(u, session) => t = u
    /\ wq # <<>> => \A t \in Threads : ~Fills(t, session)

SessionInv == ShapeInv /\ NumberInv /\ ConnInv /\ StartInv /\ OfferInv /\ AskInv
LogInv == SessionInv /\ ConnectedInv /\ StreamInv /\ LateInv /\ IsPrefixOfMaster

PrefixInv == AckedInv /\ Exact(node, producer) /\ (overlap = {} => LogInv)

-----------------------------------------------------------------------------
(* Sequences *)

(* The first element of a sequence and the rest. *)
LEMMA TailFacts ==
  ASSUME NEW S, NEW q \in Seq(S), q # <<>>
  PROVE  /\ Len(q) \in Nat /\ Len(q) >= 1 /\ Head(q) = q[1] /\ Head(q) \in S
         /\ Tail(q) \in Seq(S) /\ Len(Tail(q)) = Len(q) - 1
         /\ \A i \in 1..Len(Tail(q)) : Tail(q)[i] = q[i + 1] /\ i + 1 \in 1..Len(q)
<1>1. Len(q) \in Nat /\ Len(q) >= 1
  BY EmptySeq, LenProperties
<1>2. Tail(q) \in Seq(S) /\ Len(Tail(q)) = Len(q) - 1 /\ Head(q) \in S
  BY HeadTailProperties
<1>3. \A i \in 1..Len(Tail(q)) : Tail(q)[i] = q[i + 1]
  BY HeadTailProperties
<1> QED BY <1>1, <1>2, <1>3

(* A sequence with one more element. *)
LEMMA AppendFacts ==
  ASSUME NEW S, NEW q \in Seq(S), NEW x \in S
  PROVE  /\ Len(q) \in Nat /\ Len(Append(q, x)) = Len(q) + 1
         /\ \A i \in 1..Len(q) : Append(q, x)[i] = q[i]
         /\ Append(q, x)[Len(q) + 1] = x
  BY LenProperties, AppendProperties

(* The elements behind position lo up to hi. *)
LEMMA SubSeqFacts ==
  ASSUME NEW S, NEW q \in Seq(S), NEW lo \in Nat, NEW hi \in Nat, lo <= hi, hi <= Len(q)
  PROVE  /\ Len(SubSeq(q, lo + 1, hi)) = hi - lo
         /\ \A p \in 1..(hi - lo) : SubSeq(q, lo + 1, hi)[p] = q[lo + p]
<1>1. Len(q) \in Nat /\ \A i \in 1..Len(q) : q[i] \in S
  BY LenProperties, ElementOfSeq
<1> DEFINE m == lo + 1
<1>2. m \in Int /\ hi \in Int /\ \A i \in m..hi : q[i] \in S
  BY <1>1
<1>3. hi - m + 1 = hi - lo /\ \A p \in Int : m + p - 1 = lo + p
  OBVIOUS
<1>4. m <= hi \/ hi - lo = 0
  OBVIOUS
<1> HIDE DEF m
<1>5. /\ Len(SubSeq(q, m, hi)) = (IF m <= hi THEN hi - m + 1 ELSE 0)
      /\ \A i \in 1..(hi - m + 1) : SubSeq(q, m, hi)[i] = q[m + i - 1]
  BY <1>2, SubSeqProperties
<1>6. Len(SubSeq(q, m, hi)) = hi - lo
  BY <1>3, <1>4, <1>5
<1>7. ASSUME NEW p \in 1..(hi - lo) PROVE SubSeq(q, m, hi)[p] = q[lo + p]
  <2>1. p \in 1..(hi - m + 1) /\ m + p - 1 = lo + p
    BY <1>3
  <2>2. SubSeq(q, m, hi)[p] = q[m + p - 1]
    BY <1>5, <2>1
  <2> QED BY <2>1, <2>2
<1> QED BY <1>6, <1>7 DEF m

(* One sequence after another. *)
LEMMA ConcatFacts ==
  ASSUME NEW S, NEW p \in Seq(S), NEW q \in Seq(S)
  PROVE  /\ Len(p) \in Nat /\ Len(q) \in Nat /\ Len(p \o q) = Len(p) + Len(q)
         /\ \A i \in 1..Len(p) : (p \o q)[i] = p[i]
         /\ \A i \in 1..Len(q) : (p \o q)[Len(p) + i] = q[i]
  OBVIOUS

-----------------------------------------------------------------------------
(* The fields of a node after each of its operations *)

(* Starting, acknowledging and reading keep the session of a node. *)
LEMMA NodeFields ==
  ASSUME NEW n \in SlaveNode
  PROVE  /\ \A off \in Nat :
              /\ Activated(n, off).exists = n.exists
              /\ Activated(n, off).session = n.session
              /\ Activated(n, off).state = "kSlaveBinlogSync"
              /\ Activated(n, off).reader = off
              /\ Activated(n, off).acked = off
              /\ ActivateFailed(n, off).exists = n.exists
              /\ ActivateFailed(n, off).session = n.session
              /\ ActivateFailed(n, off).state = "kSlaveBinlogSync"
              /\ ActivateFailed(n, off).reader = BadReader
         /\ \A i, j, p : /\ AfterAck(n, i, j, p).exists = n.exists
                         /\ AfterAck(n, i, j, p).session = n.session
                         /\ AfterAck(n, i, j, p).state = n.state
                         /\ AfterAck(n, i, j, p).reader = n.reader
         /\ \A k \in Nat : /\ AfterRead(n, k).exists = n.exists
                           /\ AfterRead(n, k).session = n.session
                           /\ AfterRead(n, k).state = n.state
                           /\ AfterRead(n, k).acked = n.acked
                           /\ AfterRead(n, k).reader = IF k = 0 THEN n.reader ELSE n.reader + k
  BY DEF Activated, ActivateFailed, AfterAck, AfterRead, SlaveNode

(* A node that is new or removed has no reader. *)
LEMMA NewNodeFields ==
  /\ NoSlaveNode.exists = FALSE /\ NoSlaveNode.reader = NoReader
  /\ NoSlaveNode.state = "kSlaveNotSync"
  /\ \A s \in Nat : /\ NewSlaveNode(s).exists = TRUE /\ NewSlaveNode(s).session = s
                    /\ NewSlaveNode(s).state = "kSlaveNotSync"
                    /\ NewSlaveNode(s).reader = NoReader
  /\ NoReader \notin Nat /\ BadReader \notin Nat
  BY DEF NoSlaveNode, NewSlaveNode, NoReader, BadReader

-----------------------------------------------------------------------------
(* What the steps do to the master's node and queues, as long as no rounds *)
(* overlap                                                                 *)

NodeRemoved ==
  /\ node' = NoSlaveNode
  /\ \/ AuxAtLoop /\ node.exists /\ node.sent = node.acked /\ wq' = wq
     \/ AuxAtLoop /\ wq' = <<>>
     \/ ~link /\ wq' = <<>>

NodeAdded ==
  /\ ~node.exists /\ node' = NewSlaveNode(nextSession) /\ nextSession' = nextSession + 1
  /\ wq' = wq

NodeStarted(t) ==
  /\ srv[t].pc = "apply" /\ srv[t].req.first /\ node.exists /\ srv[t].req.session = node.session
  /\ \/ node' = ActivateFailed(node, srv[t].req.start) /\ wq' = wq /\ srv'[t] = Idle
     \/ node' = Activated(node, srv[t].req.start) /\ wq' = <<>> /\ srv'[t].pc = "fill"
  /\ \A u \in Threads \ {t} : srv'[u] = srv[u]
  /\ UNCHANGED <<s2m, slaveIn, outbox, slog>>

NodeUpdated ==
  /\ wq' = wq
  /\ \E t \in Threads, i, j \in DOMAIN node.win.items, p \in 0..Len(node.win.items) :
       /\ srv[t].pc = "apply" /\ ~srv[t].req.first
       /\ IsRange(node.win, srv[t].req.start, srv[t].req.end, i, j)
       /\ IsAckedPrefix(Marked(node.win.items, i, j), p)
       /\ node' = AfterAck(node, i, j, p)
       /\ node.state = "kSlaveBinlogSync" /\ node.exists
       /\ Goto(t, "fill") /\ UNCHANGED <<s2m, slaveIn, slog>>

NodeRead ==
  /\ node.exists
  /\ node' = AfterRead(node, ReadCount(node))
  /\ wq' = wq \o WriteTasks(node, ReadCount(node))
  /\ \/ AuxAtLoop /\ node.sent = node.acked
     \/ \E t \in Threads : Fills(t, node.session) /\ srv' = [srv EXCEPT ![t] = Idle]

NodeStep ==
  \/ node' = node /\ wq' = wq
  \/ NodeRemoved
  \/ NodeAdded
  \/ \E t \in Threads : NodeStarted(t)
  \/ NodeUpdated
  \/ NodeRead
  \/ ConsumeWriteQueue
  \/ EraseWriteQueue

(* The marks that a step leaves in the history show that a request was        *)
(* applied to the node that it was checked against.                           *)
LEMMA NotStale ==
  ASSUME NEW req, NEW more, overlap' = overlap \cup StaleTask(req) \cup more, overlap' = {}
  PROVE  req.session = node.session
  BY DEF StaleTask

(* Without an overlap, every step does one of these to node and queue. *)
LEMMA CleanNodeSteps ==
  ASSUME TypeOK, [Next]_vars, overlap' = {}
  PROVE  NodeStep
<1> USE DEF masterVars, auxVars, netVars, slaveVars, ghostVars
<1>1. ASSUME NEW t \in Threads, ServerThread(t) PROVE NodeStep
  <2>1. CASE DealMessage(t) \/ HandleTrySync(t) \/ TrySyncGetSession(t) \/ CheckSessionId(t)
    BY <2>1 DEF DealMessage, HandleTrySync, TrySyncGetSession, CheckSessionId, NodeStep
  <2>2. CASE TrySyncAddNode(t)
    BY <2>2 DEF TrySyncAddNode, NodeStep, NodeAdded
  <2>3. CASE ActivateSlaveBinlogSync(t)
    <3>1. CASE node' = node /\ wq' = wq
      BY <3>1 DEF NodeStep
    <3>2. CASE node.exists /\ overlap' = overlap \cup StaleTask(srv[t].req)
      <4>1. overlap' = overlap \cup StaleTask(srv[t].req) \cup {}
        BY <3>2
      <4>2. srv[t].req.session = node.session
        BY <4>1, NotStale
      <4>3. /\ Done(t) => srv'[t] = Idle /\ \A u \in Threads \ {t} : srv'[u] = srv[u]
            /\ Goto(t, "fill") => srv'[t].pc = "fill" /\ \A u \in Threads \ {t} : srv'[u] = srv[u]
        <5>1. srv \in [Threads -> Task] /\ srv[t] \in Task
          BY DEF TypeOK
        <5> QED BY <5>1 DEF Done, Goto, Task
      <4>4. NodeStarted(t)
        BY <2>3, <3>2, <4>2, <4>3 DEF ActivateSlaveBinlogSync, NodeStarted
      <4> QED BY <4>4 DEF NodeStep
    <3> QED BY <2>3, <3>1, <3>2 DEF ActivateSlaveBinlogSync
  <2>4. CASE UpdateSyncBinlogStatus(t)
    BY <2>4 DEF UpdateSyncBinlogStatus, NodeStep, NodeUpdated
  <2>5. CASE SyncBinlogToWq(t)
    <3>1. CASE node' = node /\ wq' = wq
      BY <3>1 DEF NodeStep
    <3>2. CASE node.exists /\ ReadBinlogFileToWq /\ overlap' = overlap \cup StaleTask(srv[t].req)
      <4>1. overlap' = overlap \cup StaleTask(srv[t].req) \cup {}
        BY <3>2
      <4>2. srv[t].req.session = node.session
        BY <4>1, NotStale
      <4>3. NodeRead
        BY <2>5, <3>2, <4>2 DEF SyncBinlogToWq, NodeRead, Fills, Done, ReadBinlogFileToWq
      <4> QED BY <4>3 DEF NodeStep
    <3>3. ASSUME NEW k \in 0..WindowSize, FailedRead(k), wq' = wq,
                 overlap' = overlap \cup StaleTask(srv[t].req) \cup LostRead(k)
          PROVE  NodeStep
      <4>1. k \in Nat
        BY ConstantTypes
      <4>2. k = 0
        BY <3>3, <4>1 DEF LostRead
      <4>3. node' = node
        BY <3>3, <4>2 DEF FailedRead, AfterRead
      <4> QED BY <3>3, <4>3 DEF NodeStep
    <3> QED BY <2>5, <3>1, <3>2, <3>3 DEF SyncBinlogToWq
  <2> QED BY <1>1, <2>1, <2>2, <2>3, <2>4, <2>5 DEF ServerThread
<1>2. CASE AuxiliaryThread
  <2>1. CASE WakeUpSlaveBinlogSync
    BY <2>1 DEF WakeUpSlaveBinlogSync, ReadBinlogFileToWq, NodeStep, NodeRead, NodeRemoved
  <2>2. CASE SendSlaveBinlogChips \/ SendKeepAlive
    BY <2>2 DEF SendSlaveBinlogChips, SendKeepAlive, NodeStep
  <2> QED BY <1>2, <2>1, <2>2 DEF AuxiliaryThread, NodeStep
<1>3. CASE MasterTimeout
  BY <1>3 DEF MasterTimeout, NodeStep, NodeRemoved
<1>4. CASE Network
  BY <1>4 DEF Network, LinkDown, MasterFdClosed, SlaveFdClosed, SlaveFdTimeout, MetaSync, NodeStep,
              NodeRemoved
<1>5. CASE ProposeLog \/ SendTrySync \/ SlaveTimeout \/ BinlogWorker \/ UNCHANGED vars
  BY <1>5 DEF ProposeLog, SendTrySync, SlaveTimeout, BinlogWorker, HandleTrySyncResponse,
              WriteBinlogRecord, SendBinlogSyncAck, NodeStep, vars
<1> QED BY <1>1, <1>2, <1>3, <1>4, <1>5 DEF Next

-----------------------------------------------------------------------------
(* What the steps do to the tasks of the server pool *)

SameRequest(a, b) ==
  /\ a.type = b.type /\ a.first = b.first /\ a.session = b.session
  /\ a.start = b.start /\ a.end = b.end
  /\ a.live => b.live

(* The task of thread u keeps its request and may have gone on. *)
TaskKept(u) ==
  /\ SameRequest(srv'[u].req, srv[u].req)
  /\ \/ srv'[u].pc = srv[u].pc
     \/ srv'[u].pc \in {"add", "session"}
     \/ /\ srv[u].pc = "start" /\ srv'[u].pc = "apply" /\ srv[u].req.type = "BinlogSync"
        /\ node.exists /\ node.session = srv[u].req.session
     \/ /\ srv[u].pc = "apply" /\ srv'[u].pc = "fill"
        /\ node.exists /\ node'.exists /\ node'.session = node.session
        /\ node'.state = "kSlaveBinlogSync"
        /\ (NodeUpdated /\ ~srv[u].req.first) \/ NodeStarted(u)

TaskStep(u) ==
  \/ TaskKept(u)
  \/ srv'[u] = Idle
  \/ /\ s2m # <<>> /\ s2m' = Tail(s2m)
     /\ srv'[u] = [pc |-> "start", req |-> Head(s2m)]
     /\ \A v \in Threads \ {u} : srv'[v] = srv[v]

(* A task goes on, ends, or is the next request. *)
LEMMA TaskSteps ==
  ASSUME TypeOK, [Next]_vars, overlap' = {}
  PROVE  \A u \in Threads : TaskStep(u)
<1> USE DEF masterVars, auxVars, netVars, slaveVars, ghostVars
<1>1. srv \in [Threads -> Task]
  BY DEF TypeOK
<1>2. CASE UNCHANGED srv
  BY <1>2 DEF TaskStep, TaskKept, SameRequest
<1>3. ASSUME NEW t \in Threads, ServerThread(t) PROVE \A u \in Threads : TaskStep(u)
  <2>0. \A u \in Threads : srv'[u] = srv[u] => TaskStep(u)
    BY DEF TaskStep, TaskKept, SameRequest
  <2>1. CASE Done(t)
    <3>1. srv'[t] = Idle /\ \A u \in Threads \ {t} : srv'[u] = srv[u]
      BY <1>1, <2>1 DEF Done
    <3> QED BY <2>0, <3>1 DEF TaskStep
  <2>2. CASE DealMessage(t)
    <3>1. /\ srv'[t] = [pc |-> "start", req |-> Head(s2m)] /\ s2m # <<>> /\ s2m' = Tail(s2m)
          /\ \A u \in Threads \ {t} : srv'[u] = srv[u]
      BY <1>1, <2>2 DEF DealMessage
    <3> QED BY <2>0, <3>1 DEF TaskStep
  <2>3. ASSUME NEW pc, Goto(t, pc)
        PROVE  /\ srv'[t].pc = pc /\ srv'[t].req = srv[t].req
               /\ \A u \in Threads \ {t} : srv'[u] = srv[u]
    <3>1. srv[t] \in Task
      BY <1>1
    <3> QED BY <1>1, <2>3, <3>1 DEF Goto, Task
  <2>4. CASE HandleTrySync(t)
    <3>1. Done(t) \/ Goto(t, "add") \/ Goto(t, "session")
      BY <2>4 DEF HandleTrySync
    <3> QED BY <2>0, <2>1, <2>3, <3>1 DEF TaskStep, TaskKept, SameRequest
  <2>5. CASE CheckSessionId(t)
    <3>1. CASE Goto(t, "apply") /\ node.exists /\ node.session = srv[t].req.session
      <4>1. srv[t].pc = "start" /\ srv[t].req.type = "BinlogSync"
        BY <2>5 DEF CheckSessionId
      <4> QED BY <2>0, <2>3, <3>1, <4>1 DEF TaskStep, TaskKept, SameRequest
    <3> QED BY <2>1, <2>5, <3>1 DEF CheckSessionId
  <2>6. CASE ActivateSlaveBinlogSync(t)
    <3>1. CASE /\ Goto(t, "fill") /\ node.exists /\ node' = Activated(node, srv[t].req.start)
               /\ overlap' = overlap \cup StaleTask(srv[t].req)
      <4>1. overlap' = overlap \cup StaleTask(srv[t].req) \cup {}
        BY <3>1
      <4>2. srv[t].req.session = node.session
        BY <4>1, NotStale
      <4>3. NodeStarted(t) /\ srv[t].pc = "apply"
        <5>1. Activated(node, srv[t].req.start).reader \in Nat /\ ActivateFailed(node, srv[t].req.start).reader \notin Nat
          BY NodeFields, NewNodeFields DEF TypeOK, Task, Request
        <5>2. wq' = <<>>
          BY <2>6, <3>1, <5>1 DEF ActivateSlaveBinlogSync, Done, Goto
        <5> QED BY <2>3, <2>6, <3>1, <4>2, <5>2 DEF ActivateSlaveBinlogSync, NodeStarted
      <4>4. /\ node'.exists = node.exists /\ node'.session = node.session
            /\ node'.state = "kSlaveBinlogSync"
        <5>1. srv[t].req.start \in Nat /\ node \in SlaveNode
          BY DEF TypeOK, Task, Request
        <5> QED BY <3>1, <5>1, NodeFields
      <4>5. TaskKept(t)
        BY <2>3, <3>1, <4>3, <4>4 DEF TaskKept, SameRequest
      <4> QED BY <2>0, <2>3, <3>1, <4>5 DEF TaskStep
    <3> QED BY <2>1, <2>6, <3>1 DEF ActivateSlaveBinlogSync
  <2>7. CASE UpdateSyncBinlogStatus(t)
    <3>1. CASE Done(t)
      BY <2>1, <3>1
    <3>2. CASE ~Done(t)
      <4>1. NodeUpdated /\ Goto(t, "fill") /\ srv[t].pc = "apply" /\ ~srv[t].req.first
        BY <2>7, <3>2 DEF UpdateSyncBinlogStatus, NodeUpdated
      <4>2. /\ node.exists /\ node'.exists /\ node'.session = node.session
            /\ node'.state = "kSlaveBinlogSync"
        <5>1. node \in SlaveNode
          BY DEF TypeOK
        <5> QED BY <4>1, <5>1, NodeFields DEF NodeUpdated
      <4>3. TaskKept(t)
        BY <2>3, <4>1, <4>2 DEF TaskKept, SameRequest
      <4> QED BY <2>0, <2>3, <4>1, <4>3 DEF TaskStep
    <3> QED BY <3>1, <3>2
  <2>8. CASE TrySyncAddNode(t) \/ TrySyncGetSession(t) \/ SyncBinlogToWq(t)
    BY <2>1, <2>8 DEF TrySyncAddNode, TrySyncGetSession, SyncBinlogToWq
  <2> QED BY <1>3, <2>2, <2>4, <2>5, <2>6, <2>7, <2>8 DEF ServerThread
<1>4. CASE MasterFdClosed
  <2>1. \A u \in Threads : srv'[u] = [srv[u] EXCEPT !.req.live = FALSE] /\ srv[u] \in Task
    BY <1>1, <1>4 DEF MasterFdClosed
  <2>2. ASSUME NEW u \in Threads PROVE TaskKept(u)
    <3>1. /\ srv[u].req \in Request /\ srv'[u].pc = srv[u].pc
          /\ srv'[u].req = [srv[u].req EXCEPT !.live = FALSE]
      BY <2>1 DEF Task
    <3>2. SameRequest(srv'[u].req, srv[u].req)
      BY <3>1 DEF SameRequest, Request
    <3> QED BY <3>1, <3>2 DEF TaskKept
  <2> QED BY <2>2 DEF TaskStep
<1>5. UNCHANGED srv \/ MasterFdClosed \/ \E t \in Threads : ServerThread(t)
  BY DEF Next, vars, ProposeLog, AuxiliaryThread, WakeUpSlaveBinlogSync, ConsumeWriteQueue,
         SendSlaveBinlogChips, EraseWriteQueue, SendKeepAlive, MasterTimeout, Network, LinkDown,
         SlaveFdClosed, SlaveFdTimeout, MetaSync, SendTrySync, SlaveTimeout, BinlogWorker,
         HandleTrySyncResponse, WriteBinlogRecord, SendBinlogSyncAck
<1> QED BY <1>2, <1>3, <1>4, <1>5

-----------------------------------------------------------------------------
(* What the steps do to the messages between the two servers *)

RequestsKept(d) ==
  /\ d \in {0, 1} /\ Len(s2m') + d <= Len(s2m)
  /\ \A i \in 1..Len(s2m') : SameRequest(s2m'[i], s2m[i + d])

(* An acknowledgement of records, not of a keepalive. *)
IsAck(r) == r.type = "BinlogSync" /\ ~r.first /\ r.start > 0

(* The records of the first message are written and not yet acknowledged. *)
AckDue ==
  /\ slaveIn # <<>> /\ slaveIn[1].type = "BinlogSync"
  /\ slaveIn[1].chips = <<>> /\ slaveIn[1].begin > 0

RequestAdded(r) ==
  /\ link /\ attached /\ Len(s2m') = Len(s2m) + 1
  /\ \A i \in 1..Len(s2m) : s2m'[i] = s2m[i]
  /\ s2m'[Len(s2m) + 1] = r
  /\ srv' = srv
  /\ r.first => /\ slaveIn # <<>> /\ IsOffer(slaveIn[1]) /\ slaveIn' = Tail(slaveIn)
                /\ r.session = slaveIn[1].session /\ session' = r.session /\ rstate' = "kConnected"
                /\ r.start = Len(slog) /\ UNCHANGED <<node, wq, outbox, slog, metaDone, link>>
  /\ IsAck(r) => /\ AckDue /\ slaveIn' = Tail(slaveIn)
                 /\ r.session = session /\ r.start = slaveIn[1].begin /\ r.end = Len(slog)
                 /\ UNCHANGED <<node, slog, session>>

RequestStep == RequestsKept(0) \/ RequestsKept(1) \/ \E r \in Request : RequestAdded(r)

(* Sending a request appends it, or loses it. *)
LEMMA SentRequest ==
  ASSUME s2m \in Seq(Request), NEW r \in Request, SendRequest(r)
  PROVE  \/ s2m' = s2m
         \/ /\ link /\ attached /\ Len(s2m') = Len(s2m) + 1
            /\ \A i \in 1..Len(s2m) : s2m'[i] = s2m[i]
            /\ s2m'[Len(s2m) + 1] = r
<1>1. CASE s2m' = Append(s2m, r) /\ link /\ attached
  BY <1>1, AppendFacts
<1> QED BY <1>1 DEF SendRequest

(* Requests are taken from the front and appended at the back. *)
LEMMA RequestSteps ==
  ASSUME TypeOK, [Next]_vars
  PROVE  RequestStep
<1> USE DEF masterVars, auxVars, netVars, slaveVars, ghostVars
<1>1. s2m \in Seq(Request) /\ Len(s2m) \in Nat /\ Len(slog) \in Nat /\ session \in Nat
  BY LenProperties DEF TypeOK
<1>2. CASE s2m' = s2m
  <2>1. \A i \in 1..Len(s2m) : SameRequest(s2m'[i], s2m[i + 0])
    BY <1>1, <1>2 DEF SameRequest
  <2> QED BY <1>1, <1>2, <2>1 DEF RequestStep, RequestsKept
<1>3. ASSUME NEW t \in Threads, DealMessage(t) PROVE RequestStep
  <2>1. s2m # <<>> /\ s2m' = Tail(s2m)
    BY <1>3 DEF DealMessage
  <2>2. Len(s2m') + 1 = Len(s2m) /\ \A i \in 1..Len(s2m') : s2m'[i] = s2m[i + 1]
    BY <1>1, <2>1, TailFacts
  <2> QED BY <1>1, <2>2 DEF RequestStep, RequestsKept, SameRequest
<1>4. CASE LinkDown
  <2>1. PICK k \in 0..Len(s2m) : s2m' = SubSeq(s2m, 1, k)
    BY <1>4 DEF LinkDown
  <2>2. Len(s2m') = k /\ \A i \in 1..k : s2m'[i] = s2m[i]
    BY <1>1, <2>1, PrefixType
  <2>3. Len(s2m') + 0 <= Len(s2m) /\ \A i \in 1..Len(s2m') : s2m'[i] = s2m[i + 0]
    BY <1>1, <2>2
  <2> QED BY <2>3 DEF RequestStep, RequestsKept, SameRequest
<1>5. CASE MasterFdClosed
  <2>1. s2m' = [i \in DOMAIN s2m |-> [s2m[i] EXCEPT !.live = FALSE]]
    BY <1>5 DEF MasterFdClosed
  <2>2. DOMAIN s2m = 1..Len(s2m) /\ \A i \in 1..Len(s2m) : s2m[i] \in Request
    BY <1>1, LenProperties, ElementOfSeq
  <2>3. s2m' \in Seq(Request)
    BY <1>5, TypeCorrectStep DEF TypeOK, Network, Next
  <2>4. Len(s2m') = Len(s2m)
    BY <1>1, <2>1, <2>2, <2>3, LenProperties
  <2>5. \A i \in 1..Len(s2m') : SameRequest(s2m'[i], s2m[i + 0])
    BY <1>1, <2>1, <2>2, <2>4 DEF SameRequest, Request
  <2> QED BY <1>1, <2>4, <2>5 DEF RequestStep, RequestsKept
<1>6. CASE SendTrySync
  <2> DEFINE r == [NoRequest EXCEPT !.start = Len(slog), !.end = Len(slog), !.live = TRUE]
  <2>1. r \in Request /\ ~r.first /\ ~IsAck(r)
    BY <1>1, MessageTypes DEF Request, NoRequest, IsAck
  <2>2. SendRequest(r) /\ srv' = srv
    BY <1>6 DEF SendTrySync
  <2> HIDE DEF r
  <2>3. s2m' = s2m \/ RequestAdded(r)
    BY <1>1, <2>1, <2>2, SentRequest DEF RequestAdded
  <2> QED BY <1>2, <2>1, <2>3 DEF RequestStep
<1>7. CASE SendBinlogSyncAck
  <2> DEFINE begin == Head(slaveIn).begin
             r == BinlogSyncRequest(session, begin, IF begin = 0 THEN 0 ELSE Len(slog), FALSE)
  <2>1. begin \in Nat /\ (IF begin = 0 THEN 0 ELSE Len(slog)) \in Nat
    <3>1. Head(slaveIn) \in Response
      BY <1>7, HeadTailProperties DEF TypeOK, SendBinlogSyncAck
    <3> QED BY <1>1, <3>1 DEF Response
  <2>2. r \in Request /\ ~r.first
    <3>1. r \in Request
      <4> HIDE DEF begin
      <4> QED BY <1>1, <2>1, MessageTypes
    <3> QED BY <3>1 DEF BinlogSyncRequest
  <2>3. SendRequest(r) /\ srv' = srv
    BY <1>7 DEF SendBinlogSyncAck
  <2>a. /\ slaveIn # <<>> /\ slaveIn[1] = Head(slaveIn) /\ slaveIn' = Tail(slaveIn)
        /\ slaveIn[1].type = "BinlogSync" /\ slaveIn[1].chips = <<>>
        /\ UNCHANGED <<node, slog, session>>
    BY <1>7, TailFacts DEF TypeOK, SendBinlogSyncAck
  <2>b. IsAck(r) => /\ AckDue /\ r.session = session /\ r.start = slaveIn[1].begin
                    /\ r.end = Len(slog)
    <3>1. r.start = begin /\ r.session = session /\ (begin # 0 => r.end = Len(slog))
      BY DEF BinlogSyncRequest
    <3> HIDE DEF r
    <3>2. IsAck(r) => begin > 0
      BY <3>1 DEF IsAck
    <3> QED BY <2>1, <2>a, <3>1, <3>2 DEF AckDue
  <2> HIDE DEF r
  <2>4. s2m' = s2m \/ RequestAdded(r)
    BY <1>1, <2>2, <2>3, <2>a, <2>b, SentRequest DEF RequestAdded
  <2> QED BY <1>2, <2>2, <2>4 DEF RequestStep
<1>8. CASE HandleTrySyncResponse
  <2> DEFINE r == BinlogSyncRequest(session', Len(slog), Len(slog), TRUE)
  <2>1. CASE SendRequest(r) /\ Head(slaveIn).code = "kOk" /\ session' = Head(slaveIn).session /\ rstate' = "kConnected"
    <3>1. session' \in Nat
      BY <1>8, TypeCorrectStep DEF TypeOK, BinlogWorker, Next
    <3>2. r \in Request /\ r.session = session' /\ r.start = Len(slog) /\ ~IsAck(r)
      <4>1. r \in Request
        BY <1>1, <3>1, MessageTypes
      <4> QED BY <4>1 DEF BinlogSyncRequest, IsAck
    <3>3. srv' = srv /\ slaveIn # <<>> /\ slaveIn' = Tail(slaveIn) /\ Head(slaveIn).type = "TrySync"
      BY <1>8 DEF HandleTrySyncResponse
    <3>4. Head(slaveIn) = slaveIn[1]
      BY <3>3, TailFacts DEF TypeOK
    <3>5. UNCHANGED <<node, wq, outbox, slog, metaDone, link>>
      BY <1>8 DEF HandleTrySyncResponse
    <3> HIDE DEF r
    <3>6. s2m' = s2m \/ RequestAdded(r)
      BY <1>1, <2>1, <3>2, <3>3, <3>4, <3>5, SentRequest DEF RequestAdded, IsOffer
    <3> QED BY <1>2, <3>2, <3>6 DEF RequestStep
  <2>2. CASE s2m' = s2m
    BY <1>2, <2>2
  <2> QED BY <1>8, <2>1, <2>2 DEF HandleTrySyncResponse
<1>9. s2m' = s2m \/ LinkDown \/ MasterFdClosed \/ SendTrySync \/ SendBinlogSyncAck
      \/ HandleTrySyncResponse \/ \E t \in Threads : DealMessage(t)
  BY DEF Next, vars, ProposeLog, ServerThread, HandleTrySync, TrySyncAddNode, TrySyncGetSession,
         CheckSessionId, ActivateSlaveBinlogSync, UpdateSyncBinlogStatus, SyncBinlogToWq,
         AuxiliaryThread, WakeUpSlaveBinlogSync, ConsumeWriteQueue,
         SendSlaveBinlogChips, EraseWriteQueue, SendKeepAlive, MasterTimeout, Network,
         SlaveFdClosed, SlaveFdTimeout, MetaSync, SlaveTimeout, BinlogWorker, WriteBinlogRecord
<1> QED BY <1>2, <1>3, <1>4, <1>5, <1>6, <1>7, <1>8, <1>9

InKept(d) ==
  /\ d \in {0, 1} /\ Len(slaveIn') + d <= Len(slaveIn)
  /\ \A i \in 1..Len(slaveIn') : slaveIn'[i] = slaveIn[i + d]

(* A record is taken from the first message. *)
InSpent ==
  /\ WriteBinlogRecord /\ slaveIn # <<>> /\ Len(slaveIn') = Len(slaveIn)
  /\ rstate = "kConnected" /\ slaveIn[1].type = "BinlogSync"
  /\ slaveIn[1].chips # <<>> /\ slaveIn[1].chips[1].session = session
  /\ slaveIn'[1] = [slaveIn[1] EXCEPT !.chips = Tail(@)]
  /\ \A i \in 2..Len(slaveIn) : slaveIn'[i] = slaveIn[i]

InAdded(m) ==
  /\ link /\ Len(slaveIn') = Len(slaveIn) + 1
  /\ \A i \in 1..Len(slaveIn) : slaveIn'[i] = slaveIn[i]
  /\ slaveIn'[Len(slaveIn) + 1] = m

IsRefusal(m) == m.type = "TrySync" /\ m.code # "kOk" /\ m.chips = <<>>
IsNewOffer(m) ==
  /\ IsOffer(m) /\ m.chips = <<>> /\ m.session = nextSession /\ NodeAdded
  /\ mconn' = "cur" /\ mslave' = mslave /\ \E t \in Threads : srv[t].req.live
IsBatch(m) ==
  m.type = "BinlogSync" /\ outbox # <<>> /\ m.chips = Head(outbox) /\ outbox' = Tail(outbox)
  /\ m.begin = m.chips[1].off
IsKeepAlive(m) ==
  m.type = "BinlogSync" /\ node.exists /\ m.chips = <<[off |-> 0, session |-> node.session]>>
  /\ m.begin = 0

InStep ==
  \/ InKept(0)
  \/ InKept(1)
  \/ InSpent
  \/ \E m \in Response :
       InAdded(m) /\ (IsRefusal(m) \/ IsNewOffer(m) \/ IsBatch(m) \/ IsKeepAlive(m))

(* Nothing happens to the messages at the slave. *)
LEMMA InUnchanged ==
  ASSUME slaveIn \in Seq(Response), slaveIn' = slaveIn
  PROVE  InStep
<1>1. Len(slaveIn) \in Nat
  BY LenProperties
<1>2. InKept(0)
  BY <1>1 DEF InKept
<1> QED BY <1>2 DEF InStep

(* The first message is taken. *)
LEMMA InTail ==
  ASSUME slaveIn \in Seq(Response), slaveIn # <<>>, slaveIn' = Tail(slaveIn)
  PROVE  InKept(1)
<1>1. Len(slaveIn') + 1 = Len(slaveIn) /\ \A i \in 1..Len(slaveIn') : slaveIn'[i] = slaveIn[i + 1]
  BY TailFacts
<1> QED BY <1>1, LenProperties DEF InKept

(* A message arrives. *)
LEMMA InAppend ==
  ASSUME slaveIn \in Seq(Response), NEW m \in Response, link, slaveIn' = Append(slaveIn, m)
  PROVE  InAdded(m)
  BY AppendFacts DEF InAdded

(* A record of the slave's session is taken from the first message. *)
LEMMA RecordTaken ==
  ASSUME TypeOK, WriteBinlogRecord,
         slaveIn' # Tail(slaveIn) \/ (rstate = "kConnected" /\ rstate' = "kConnected")
  PROVE  /\ InSpent
         /\ slog' = IF slaveIn[1].chips[1].off = 0 THEN slog ELSE Append(slog, slaveIn[1].chips[1].off)
         /\ rstate' = rstate
<1> DEFINE m == Head(slaveIn)
           rest == [m EXCEPT !.chips = Tail(@)]
<1>1. slaveIn \in Seq(Response) /\ slaveIn # <<>>
  BY DEF TypeOK, WriteBinlogRecord
<1>2. /\ m = slaveIn[1] /\ m \in Response /\ Tail(slaveIn) \in Seq(Response)
      /\ Len(Tail(slaveIn)) = Len(slaveIn) - 1 /\ Len(slaveIn) \in Nat /\ Len(slaveIn) >= 1
      /\ \A i \in 1..Len(Tail(slaveIn)) : Tail(slaveIn)[i] = slaveIn[i + 1]
  BY <1>1, TailFacts
<1>3. m.type = "BinlogSync" /\ m.chips # <<>> /\ m.chips \in Seq(Chip)
  BY <1>2 DEF WriteBinlogRecord, Response
<1>4. Head(m.chips) = m.chips[1] /\ Tail(m.chips) \in Seq(Chip)
  BY <1>3, TailFacts
<1>5. rest \in Response
  BY <1>2, <1>4 DEF Response
<1>6. /\ rstate = "kConnected" /\ Head(m.chips).session = session
      /\ slaveIn' = <<rest>> \o Tail(slaveIn)
      /\ slog' = IF Head(m.chips).off = 0 THEN slog ELSE Append(slog, Head(m.chips).off)
      /\ rstate' = rstate
  BY DEF WriteBinlogRecord, OfMySession
<1>7. rest = [slaveIn[1] EXCEPT !.chips = Tail(@)]
  BY <1>2
<1> HIDE DEF rest
<1>8. <<rest>> \in Seq(Response) /\ Len(<<rest>>) = 1 /\ <<rest>>[1] = rest
  BY <1>5
<1> DEFINE q == Tail(slaveIn)
<1>9. /\ Len(<<rest>> \o q) = 1 + Len(q) /\ (<<rest>> \o q)[1] = rest
      /\ \A i \in 1..Len(q) : (<<rest>> \o q)[1 + i] = q[i]
  <2>1. q \in Seq(Response)
    BY <1>2
  <2> HIDE DEF q
  <2>2. 1 \in 1..Len(<<rest>>)
    BY <1>8
  <2> QED BY <1>8, <2>1, <2>2, ConcatFacts
<1>10. Len(slaveIn') = Len(slaveIn) /\ slaveIn'[1] = rest
  <2>1. slaveIn' = <<rest>> \o q
    BY <1>6
  <2>2. Len(q) = Len(slaveIn) - 1 /\ Len(slaveIn) \in Nat
    BY <1>2
  <2> HIDE DEF q
  <2>3. Len(slaveIn') = 1 + Len(q) /\ slaveIn'[1] = rest
    BY <1>9, <2>1
  <2> QED BY <2>2, <2>3
<1>11. ASSUME NEW i \in 2..Len(slaveIn) PROVE slaveIn'[i] = slaveIn[i]
  <2>1. i - 1 \in 1..Len(q) /\ 1 + (i - 1) = i /\ (i - 1) + 1 = i
    BY <1>2
  <2> QED BY <1>2, <1>6, <1>9, <2>1
<1>12. InSpent
  BY <1>1, <1>2, <1>3, <1>4, <1>6, <1>7, <1>10, <1>11 DEF InSpent
<1> QED BY <1>2, <1>4, <1>6, <1>12

(* Messages are lost, taken, spent record by record, or added. *)
LEMMA InSteps ==
  ASSUME TypeOK, [Next]_vars, overlap' = {}
  PROVE  InStep
<1> USE DEF masterVars, auxVars, netVars, slaveVars, ghostVars
<1>1. slaveIn \in Seq(Response)
  BY DEF TypeOK
<1>2. CASE slaveIn' = slaveIn
  BY <1>1, <1>2, InUnchanged
<1>3. ASSUME slaveIn # <<>>, slaveIn' = Tail(slaveIn) PROVE InStep
  BY <1>1, <1>3, InTail DEF InStep
<1>4. CASE LinkDown
  <2>1. PICK k \in 0..Len(slaveIn) : slaveIn' = SubSeq(slaveIn, 1, k)
    BY <1>4 DEF LinkDown
  <2>2. Len(slaveIn') = k /\ \A i \in 1..k : slaveIn'[i] = slaveIn[i]
    BY <1>1, <2>1, PrefixType
  <2>3. InKept(0)
    BY <1>1, <2>2, LenProperties DEF InKept
  <2> QED BY <2>3 DEF InStep
<1>5. CASE WriteBinlogRecord
  <2>1. slaveIn # <<>>
    BY <1>5 DEF WriteBinlogRecord
  <2> QED BY <1>3, <1>5, <2>1, RecordTaken DEF InStep
<1>6. CASE HandleTrySyncResponse \/ SendBinlogSyncAck
  BY <1>3, <1>6 DEF HandleTrySyncResponse, SendBinlogSyncAck
<1>7. ASSUME NEW t \in Threads, NEW code \in {"kSyncPointLarger", "kError"},
             Reply(srv[t].req, TrySyncReply(code, 0))
      PROVE  InStep
  <2>1. TrySyncReply(code, 0) \in Response
    BY MessageTypes
  <2>2. IsRefusal(TrySyncReply(code, 0))
    BY DEF IsRefusal, TrySyncReply
  <2>3. slaveIn' = slaveIn \/ InAdded(TrySyncReply(code, 0))
    BY <1>1, <1>7, <2>1, InAppend DEF Reply
  <2> QED BY <1>2, <2>1, <2>2, <2>3 DEF InStep
<1>8. ASSUME NEW t \in Threads, TrySyncAddNode(t) PROVE InStep
  <2>1. CASE Reply(srv[t].req, TrySyncReply("kError", 0))
    BY <1>7, <2>1
  <2>2. CASE Reply(srv[t].req, TrySyncReply("kOk", nextSession)) /\ nextSession' = nextSession + 1
    <3> DEFINE m == TrySyncReply("kOk", nextSession)
    <3>1. m \in Response
      BY MessageTypes DEF TypeOK
    <3>2. IsOffer(m) /\ m.session = nextSession /\ m.chips = <<>>
      BY DEF IsOffer, TrySyncReply
    <3> HIDE DEF m
    <3>3. CASE slaveIn' = slaveIn
      BY <1>2, <3>3
    <3>4. CASE srv[t].req.live /\ link /\ slaveIn' = Append(slaveIn, m)
      <4>1. nextSession \in Nat
        BY DEF TypeOK
      <4>2. NodeAdded
        BY <1>8, <2>2, <4>1 DEF TrySyncAddNode, NodeAdded
      <4>3. mconn' = "cur" /\ mslave' = mslave
        BY <1>8, <2>2, <3>4, <4>1 DEF TrySyncAddNode
      <4>4. InAdded(m)
        BY <1>1, <3>1, <3>4, InAppend
      <4>5. IsNewOffer(m)
        BY <3>2, <3>4, <4>2, <4>3 DEF IsNewOffer
      <4> QED BY <3>1, <4>4, <4>5 DEF InStep
    <3> QED BY <2>2, <3>3, <3>4 DEF Reply, m
  <2> QED BY <1>8, <2>1, <2>2 DEF TrySyncAddNode
<1>9. ASSUME NEW t \in Threads, TrySyncGetSession(t) PROVE InStep
  <2>1. Reply(srv[t].req, TrySyncReply("kError", 0))
    BY <1>9 DEF TrySyncGetSession
  <2> QED BY <1>7, <2>1
<1>10. ASSUME NEW t \in Threads, HandleTrySync(t) PROVE InStep
  BY <1>2, <1>7, <1>10 DEF HandleTrySync
<1>11. CASE SendSlaveBinlogChips
  <2>1. outbox # <<>> /\ outbox' = Tail(outbox)
    BY <1>11 DEF SendSlaveBinlogChips
  <2>2. Head(outbox) \in Seq(Chip) \ {<<>>}
    BY <2>1, TailFacts DEF TypeOK
  <2>3. /\ BinlogChips(Head(outbox)) \in Response
        /\ BinlogChips(Head(outbox)).type = "BinlogSync" /\ BinlogChips(Head(outbox)).chips = Head(outbox)
        /\ BinlogChips(Head(outbox)).begin = Head(outbox)[1].off
    <3>1. Head(Head(outbox)) = Head(outbox)[1]
      BY <2>2, TailFacts
    <3> QED BY <2>2, <3>1, BinlogChipsType DEF BinlogChips
  <2>4. slaveIn' = slaveIn \/ InAdded(BinlogChips(Head(outbox)))
    BY <1>1, <1>11, <2>3, InAppend DEF SendSlaveBinlogChips, Write
  <2> QED BY <1>2, <2>1, <2>3, <2>4 DEF InStep, IsBatch
<1>12. CASE SendKeepAlive
  <2> DEFINE b == <<[off |-> 0, session |-> node.session]>>
  <2>1. b \in Seq(Chip) /\ b # <<>>
    <3>1. [off |-> 0, session |-> node.session] \in Chip
      BY DEF TypeOK, SlaveNode, Chip
    <3> QED BY <3>1
  <2>2. /\ BinlogChips(b) \in Response
        /\ BinlogChips(b).type = "BinlogSync" /\ BinlogChips(b).chips = b /\ BinlogChips(b).begin = 0
    <3>1. Head(b) = b[1] /\ b[1].off = 0
      BY <2>1, TailFacts
    <3> HIDE DEF b
    <3> QED BY <2>1, <3>1, BinlogChipsType DEF BinlogChips
  <2>3. node.exists /\ Write(BinlogChips(b))
    BY <1>12 DEF SendKeepAlive, PingsFlow
  <2>4. slaveIn' = slaveIn \/ InAdded(BinlogChips(b))
    BY <1>1, <2>2, <2>3, InAppend DEF Write
  <2>5. IsKeepAlive(BinlogChips(b))
    BY <2>2, <2>3 DEF IsKeepAlive
  <2> QED BY <1>2, <2>2, <2>4, <2>5 DEF InStep
<1>13. \/ slaveIn' = slaveIn \/ LinkDown \/ WriteBinlogRecord \/ HandleTrySyncResponse
       \/ SendBinlogSyncAck \/ SendSlaveBinlogChips \/ SendKeepAlive
       \/ \E t \in Threads : TrySyncAddNode(t) \/ TrySyncGetSession(t) \/ HandleTrySync(t)
  BY DEF Next, vars, ProposeLog, ServerThread, DealMessage,
         CheckSessionId, ActivateSlaveBinlogSync, UpdateSyncBinlogStatus, SyncBinlogToWq,
         AuxiliaryThread, WakeUpSlaveBinlogSync, ConsumeWriteQueue, EraseWriteQueue,
         MasterTimeout, Network, MasterFdClosed,
         SlaveFdClosed, SlaveFdTimeout, MetaSync, SlaveTimeout, BinlogWorker, SendTrySync
<1> QED BY <1>2, <1>4, <1>5, <1>6, <1>8, <1>9, <1>10, <1>11, <1>12, <1>13

-----------------------------------------------------------------------------
(* The stages of a session, step by step *)

(* Only the number of a new node is offered anew. *)
LEMMA OfferedStep ==
  ASSUME TypeOK, InStep, NEW s, Offered(s)'
  PROVE  Offered(s) \/ \E m \in Response : InAdded(m) /\ IsNewOffer(m) /\ s = nextSession
<1>0. Len(slaveIn) \in Nat
  BY LenProperties DEF TypeOK
<1>1. PICK i \in 1..Len(slaveIn') : IsOffer(slaveIn'[i]) /\ slaveIn'[i].session = s
  BY DEF Offered, IsOffer
<1>2. ASSUME NEW d \in {0, 1}, InKept(d) PROVE Offered(s)
  <2>1. i + d \in 1..Len(slaveIn) /\ slaveIn'[i] = slaveIn[i + d]
    BY <1>0, <1>2 DEF InKept
  <2> QED BY <1>1, <2>1 DEF Offered
<1>3. CASE InSpent
  <2>1. CASE i = 1
    <3>1. slaveIn[1] \in Response
      BY <1>0, <1>3, ElementOfSeq DEF InSpent, TypeOK
    <3>2. slaveIn'[1].type = "BinlogSync"
      BY <1>3, <3>1 DEF InSpent, Response
    <3> QED BY <1>1, <2>1, <3>2 DEF IsOffer
  <2>2. CASE i \in 2..Len(slaveIn)
    BY <1>0, <1>1, <1>3, <2>2 DEF InSpent, Offered
  <2> QED BY <1>0, <1>3, <2>1, <2>2 DEF InSpent
<1>4. ASSUME NEW m \in Response, InAdded(m), IsRefusal(m) \/ IsNewOffer(m) \/ IsBatch(m) \/ IsKeepAlive(m)
      PROVE  Offered(s) \/ (IsNewOffer(m) /\ s = nextSession)
  <2>1. CASE i \in 1..Len(slaveIn)
    BY <1>1, <1>4, <2>1 DEF InAdded, Offered
  <2>2. CASE i = Len(slaveIn) + 1
    BY <1>1, <1>4, <2>2 DEF InAdded, IsRefusal, IsNewOffer, IsBatch, IsKeepAlive, IsOffer
  <2> QED BY <1>0, <1>4, <2>1, <2>2 DEF InAdded
<1> QED BY <1>2, <1>3, <1>4 DEF InStep

(* A session is asked for by the slave that was offered it. *)
LEMMA AskedStep ==
  ASSUME TypeOK, RequestStep, \A u \in Threads : TaskStep(u), NEW s, Asked(s)'
  PROVE  Asked(s) \/ \E r \in Request : RequestAdded(r) /\ r.first /\ s = r.session
<1>0. Len(s2m) \in Nat
  BY LenProperties DEF TypeOK
<1>1. ASSUME NEW i \in 1..Len(s2m'), s2m'[i].first, s2m'[i].session = s
      PROVE  Asked(s) \/ \E r \in Request : RequestAdded(r) /\ r.first /\ s = r.session
  <2>1. ASSUME NEW d \in {0, 1}, RequestsKept(d) PROVE Asked(s)
    <3>1. i + d \in 1..Len(s2m) /\ s2m'[i].first = s2m[i + d].first /\ s2m'[i].session = s2m[i + d].session
      BY <1>0, <2>1 DEF RequestsKept, SameRequest
    <3> QED BY <1>1, <3>1 DEF Asked
  <2>2. ASSUME NEW r \in Request, RequestAdded(r)
        PROVE  Asked(s) \/ (r.first /\ s = r.session)
    <3>1. CASE i \in 1..Len(s2m)
      BY <1>1, <2>2, <3>1 DEF RequestAdded, Asked
    <3>2. CASE i = Len(s2m) + 1
      BY <1>1, <2>2, <3>2 DEF RequestAdded
    <3> QED BY <1>0, <2>2, <3>1, <3>2 DEF RequestAdded
  <2> QED BY <2>1, <2>2 DEF RequestStep
<1>2. ASSUME NEW u \in Threads, srv'[u].pc \in {"start", "apply"}, srv'[u].req.first, srv'[u].req.session = s
      PROVE  Asked(s)
  <2>1. CASE TaskKept(u)
    BY <1>2, <2>1 DEF TaskKept, SameRequest, Asked, Asks
  <2>2. CASE srv'[u] = Idle
    BY <1>2, <2>2 DEF Idle
  <2>3. CASE s2m # <<>> /\ srv'[u] = [pc |-> "start", req |-> Head(s2m)]
    <3>1. Head(s2m) = s2m[1] /\ 1 \in 1..Len(s2m)
      BY <2>3, TailFacts DEF TypeOK
    <3> QED BY <1>2, <2>3, <3>1 DEF Asked
  <2> QED BY <2>1, <2>2, <2>3 DEF TaskStep
<1> QED BY <1>1, <1>2 DEF Asked, Asks

(* ConsumeWriteQueue cuts the queue at the positions g: batch b takes the     *)
(* records behind g[b - 1] up to g[b], the rest stays.                        *)
Cut(c, g) ==
  /\ outbox = <<>> /\ ~sendFailed /\ Len(outbox') = c
  /\ g[0] = 0 /\ g[c] <= Len(wq)
  /\ \A a, b \in 0..c : a <= b => g[a] <= g[b]
  /\ \A b \in 1..c :
       /\ g[b - 1] < g[b] /\ g[b] <= Len(wq) /\ Len(outbox'[b]) = g[b] - g[b - 1]
       /\ \A p \in 1..(g[b] - g[b - 1]) : outbox'[b][p] = wq[g[b - 1] + p]
  /\ Len(wq') = Len(wq) - g[c]
  /\ \A i \in 1..(Len(wq) - g[c]) : wq'[i] = wq[g[c] + i]

(* ConsumeWriteQueue is such a cut. *)
LEMMA ConsumeFacts ==
  ASSUME TypeOK, ConsumeWriteQueue
  PROVE  \E c \in Nat : \E g \in [0..c -> Nat] : Cut(c, g)
<1> USE ConstantTypes
<1>1. wq \in Seq(Chip) /\ Len(wq) \in Nat /\ \A i \in 1..Len(wq) : wq[i] \in Chip
  BY LenProperties, ElementOfSeq DEF TypeOK
<1>2. PICK c \in 1..PacketNum :
        /\ IsBatchCount(c)
        /\ outbox' = [b \in 1..c |-> SubSeq(wq, (b - 1) * BatchNum + 1, BatchEnd(b))]
        /\ wq' = SubSeq(wq, BatchEnd(c) + 1, Len(wq))
  BY DEF ConsumeWriteQueue
<1>3. c \in Nat /\ c >= 1 /\ (c - 1) * BatchNum < Len(wq)
  BY <1>2 DEF IsBatchCount
<1> DEFINE g == [b \in 0..c |-> IF b = c THEN BatchEnd(c) ELSE b * BatchNum]
<1>4. \A a \in Nat : a * BatchNum \in Nat
  OBVIOUS
<1>5. \A a, b \in Nat : a <= b => a * BatchNum <= b * BatchNum
  OBVIOUS
<1>6. \A a \in Nat : (a + 1) * BatchNum = a * BatchNum + BatchNum
  OBVIOUS
<1>7. BatchEnd(c) \in Nat /\ BatchEnd(c) <= Len(wq) /\ (c - 1) * BatchNum < BatchEnd(c)
  <2>1. c * BatchNum = (c - 1) * BatchNum + BatchNum /\ c * BatchNum \in Nat
    BY <1>3, <1>4, <1>6, c - 1 \in Nat, (c - 1) + 1 = c
  <2>2. (c - 1) * BatchNum \in Nat
    BY <1>3, <1>4, c - 1 \in Nat
  <2> QED BY <1>1, <1>3, <2>1, <2>2 DEF BatchEnd
<1>8. g \in [0..c -> Nat] /\ g[0] = 0 /\ g[c] = BatchEnd(c)
  BY <1>3, <1>4, <1>7
<1>9. ASSUME NEW b \in 1..c
      PROVE  /\ g[b - 1] = (b - 1) * BatchNum /\ g[b] = BatchEnd(b)
             /\ g[b - 1] < g[b] /\ g[b] <= Len(wq)
  <2>1. b \in Nat /\ b - 1 \in Nat /\ b <= c /\ b - 1 <= c - 1 /\ (b - 1) + 1 = b /\ c - 1 \in Nat
    BY <1>3
  <2>2. g[b - 1] = (b - 1) * BatchNum
    BY <1>3, <2>1
  <2>3. CASE b = c
    BY <1>7, <1>8, <2>2, <2>3
  <2>4. CASE b # c
    <3>1. b <= c - 1
      BY <1>3, <2>1, <2>4
    <3>2. b * BatchNum <= (c - 1) * BatchNum
      BY <1>5, <2>1, <3>1
    <3>3. b * BatchNum = (b - 1) * BatchNum + BatchNum /\ (b - 1) * BatchNum \in Nat /\ b * BatchNum \in Nat
          /\ (c - 1) * BatchNum \in Nat
      BY <1>4, <1>6, <2>1
    <3>4. b * BatchNum < Len(wq) /\ (b - 1) * BatchNum < b * BatchNum
      BY <1>1, <1>3, <3>2, <3>3
    <3>5. BatchEnd(b) = b * BatchNum
      BY <1>1, <3>3, <3>4 DEF BatchEnd
    <3>6. g[b] = b * BatchNum
      BY <2>1, <2>4
    <3> QED BY <1>1, <2>2, <3>3, <3>4, <3>5, <3>6
  <2> QED BY <2>3, <2>4
<1>10. ASSUME NEW a \in 0..c, NEW b \in 0..c, a <= b PROVE g[a] <= g[b]
  <2>1. CASE b # c
    <3>1. g[a] = a * BatchNum /\ g[b] = b * BatchNum
      BY <1>10, <2>1, <1>3
    <3> QED BY <1>5, <1>10, <3>1
  <2>2. CASE b = c /\ a # c
    <3>1. a <= c - 1 /\ a \in Nat /\ c - 1 \in Nat
      BY <1>3, <1>10, <2>2
    <3>2. a * BatchNum <= (c - 1) * BatchNum
      BY <1>5, <3>1
    <3>3. a * BatchNum \in Nat /\ (c - 1) * BatchNum \in Nat /\ g[a] = a * BatchNum
      BY <1>4, <2>2, <3>1
    <3> QED BY <1>7, <1>8, <2>2, <3>2, <3>3
  <2>3. CASE b = c /\ a = c
    BY <1>7, <1>8, <2>3
  <2> QED BY <2>1, <2>2, <2>3
<1> HIDE DEF g
<1>11. ASSUME NEW b \in 1..c
       PROVE  /\ Len(outbox'[b]) = g[b] - g[b - 1]
              /\ \A p \in 1..(g[b] - g[b - 1]) : outbox'[b][p] = wq[g[b - 1] + p]
  <2>1. outbox'[b] = SubSeq(wq, g[b - 1] + 1, g[b])
    BY <1>2, <1>9
  <2>2. g[b] \in Nat /\ g[b - 1] \in Nat /\ g[b - 1] < g[b] /\ g[b] <= Len(wq)
    BY <1>3, <1>8, <1>9, b \in 0..c, b - 1 \in 0..c
  <2>3. \A lo, hi \in Nat : lo < hi /\ hi <= Len(wq) =>
          /\ Len(SubSeq(wq, lo + 1, hi)) = hi - lo
          /\ \A p \in 1..(hi - lo) : SubSeq(wq, lo + 1, hi)[p] = wq[lo + p]
    BY <1>1, SubSeqFacts
  <2>4. PICK lo \in Nat, hi \in Nat : lo = g[b - 1] /\ hi = g[b]
    BY <2>2
  <2>5. /\ Len(SubSeq(wq, lo + 1, hi)) = hi - lo
        /\ \A p \in 1..(hi - lo) : SubSeq(wq, lo + 1, hi)[p] = wq[lo + p]
    BY <2>2, <2>3, <2>4
  <2>6. /\ Len(outbox'[b]) = hi - lo
        /\ \A p \in 1..(hi - lo) : outbox'[b][p] = wq[lo + p]
    BY <2>1, <2>4, <2>5
  <2> QED BY <2>4, <2>6
<1>12. Len(outbox') = c
  <2>1. outbox' \in Seq(Seq(Chip) \ {<<>>}) /\ DOMAIN outbox' = 1..c
    BY <1>1, <1>2, BatchTypes
  <2> QED BY <1>3, <2>1, LenProperties
<1>13. /\ Len(wq') = Len(wq) - g[c]
       /\ \A i \in 1..(Len(wq) - g[c]) : wq'[i] = wq[g[c] + i]
  <2>1. g[c] \in Nat /\ g[c] <= Len(wq) /\ wq' = SubSeq(wq, g[c] + 1, Len(wq))
    BY <1>2, <1>7, <1>8
  <2> QED BY <1>1, <2>1, SubSeqFacts
<1>14. outbox = <<>> /\ ~sendFailed /\ g[c] <= Len(wq)
  BY <1>7, <1>8 DEF ConsumeWriteQueue, AuxAtLoop
<1>15. Cut(c, g)
  BY <1>8, <1>9, <1>10, <1>11, <1>12, <1>13, <1>14 DEF Cut
<1> QED BY <1>3, <1>8, <1>15

(* Batches leave in order, and new ones come only when all are gone. *)
LEMMA OutboxSteps ==
  ASSUME [Next]_vars
  PROVE  \/ outbox' = outbox
         \/ outbox # <<>> /\ outbox' = Tail(outbox) /\ SendSlaveBinlogChips
         \/ ConsumeWriteQueue
  BY DEF Next, vars, ProposeLog, ServerThread, DealMessage, HandleTrySync, TrySyncAddNode,
         TrySyncGetSession, CheckSessionId, ActivateSlaveBinlogSync, UpdateSyncBinlogStatus,
         SyncBinlogToWq, AuxiliaryThread, WakeUpSlaveBinlogSync, EraseWriteQueue,
         SendSlaveBinlogChips, SendKeepAlive, MasterTimeout, Network, LinkDown, MasterFdClosed,
         SlaveFdClosed, SlaveFdTimeout, MetaSync, SlaveTimeout, BinlogWorker, SendTrySync,
         HandleTrySyncResponse, WriteBinlogRecord, SendBinlogSyncAck,
         masterVars, auxVars, netVars, slaveVars, ghostVars

(* The rest of a batch carries what the batch carries. *)
LEMMA CarriedTail ==
  ASSUME NEW c \in Seq(Chip), c # <<>>, OneSession(c), NEW s, Carries(Tail(c), s)
  PROVE  Carries(c, s)
<1>1. /\ Len(c) \in Nat /\ Len(Tail(c)) = Len(c) - 1 /\ Tail(c) \in Seq(Chip)
      /\ \A i \in 1..Len(Tail(c)) : Tail(c)[i] = c[i + 1]
  BY TailFacts
<1>2. Len(Tail(c)) \in Nat /\ Len(Tail(c)) >= 1
  BY <1>1, TailFacts DEF Carries
<1>3. Tail(c)[1] = c[2] /\ 2 \in 1..Len(c)
  BY <1>1, <1>2
<1> QED BY <1>3 DEF Carries, OneSession

(* The slave gets records of a session only from a batch. *)
LEMMA NotSentStep ==
  ASSUME TypeOK, ShapeInv, InStep, NEW s, NotSent(s), NotTaken(s)
  PROVE  NotSent(s)'
<1>0. Len(slaveIn) \in Nat /\ Len(outbox) \in Nat
  BY LenProperties DEF TypeOK
<1> SUFFICES ASSUME NEW i \in 1..Len(slaveIn') PROVE ~Carries(slaveIn'[i].chips, s)
  BY DEF NotSent, Carries
<1>2. ASSUME NEW d \in {0, 1}, InKept(d) PROVE ~Carries(slaveIn'[i].chips, s)
  <2>1. i + d \in 1..Len(slaveIn) /\ slaveIn'[i] = slaveIn[i + d]
    BY <1>0, <1>2 DEF InKept
  <2> QED BY <2>1 DEF NotSent
<1>3. CASE InSpent
  <2>1. CASE i = 1
    <3>1. slaveIn[1] \in Response /\ 1 \in 1..Len(slaveIn)
      BY <1>0, <1>3, <2>1, ElementOfSeq DEF InSpent, TypeOK
    <3>2. slaveIn'[1].chips = Tail(slaveIn[1].chips) /\ slaveIn[1].chips \in Seq(Chip) /\ slaveIn[1].chips # <<>>
      BY <1>3, <3>1 DEF InSpent, Response
    <3>3. OneSession(slaveIn[1].chips) /\ ~Carries(slaveIn[1].chips, s)
      BY <3>1 DEF ShapeInv, NotSent
    <3> QED BY <2>1, <3>2, <3>3, CarriedTail
  <2>2. CASE i \in 2..Len(slaveIn)
    BY <1>0, <1>3, <2>2 DEF InSpent, NotSent
  <2> QED BY <1>0, <1>3, <2>1, <2>2 DEF InSpent
<1>4. ASSUME NEW m \in Response, InAdded(m), IsRefusal(m) \/ IsNewOffer(m) \/ IsBatch(m) \/ IsKeepAlive(m)
      PROVE  ~Carries(slaveIn'[i].chips, s)
  <2>1. CASE i \in 1..Len(slaveIn)
    BY <1>4, <2>1 DEF InAdded, NotSent
  <2>2. ~Carries(m.chips, s)
    <3>1. CASE IsRefusal(m) \/ IsNewOffer(m)
      BY <3>1 DEF IsRefusal, IsNewOffer, Carries
    <3>2. CASE IsBatch(m)
      <4>1. Head(outbox) = outbox[1] /\ 1 \in 1..Len(outbox)
        BY <3>2, TailFacts DEF IsBatch, TypeOK
      <4> QED BY <3>2, <4>1 DEF IsBatch, NotTaken
    <3>3. CASE IsKeepAlive(m)
      BY <3>3 DEF IsKeepAlive, Carries
    <3> QED BY <1>4, <3>1, <3>2, <3>3
  <2>3. CASE i = Len(slaveIn) + 1
    BY <1>4, <2>2, <2>3 DEF InAdded
  <2> QED BY <1>0, <1>4, <2>1, <2>3 DEF InAdded
<1> QED BY <1>2, <1>3, <1>4 DEF InStep

(* A batch is cut from the queue. *)
LEMMA NotTakenStep ==
  ASSUME TypeOK, ShapeInv, [Next]_vars, NEW s, NotTaken(s), ~Carries(wq, s)
  PROVE  NotTaken(s)'
<1>0. Len(outbox) \in Nat
  BY LenProperties DEF TypeOK
<1>1. CASE outbox' = outbox
  BY <1>1 DEF NotTaken, Carries
<1>2. CASE outbox # <<>> /\ outbox' = Tail(outbox)
  <2>1. \A i \in 1..Len(outbox') : outbox'[i] = outbox[i + 1] /\ i + 1 \in 1..Len(outbox)
    BY <1>2, TailFacts DEF TypeOK
  <2> QED BY <2>1 DEF NotTaken, Carries
<1>3. CASE ConsumeWriteQueue
  <2>0. PICK c \in Nat : \E g \in [0..c -> Nat] : Cut(c, g)
    BY <1>3, ConsumeFacts
  <2>1. PICK g \in [0..c -> Nat] : Cut(c, g)
    BY <2>0
  <2>2. ASSUME NEW b \in 1..c PROVE ~Carries(outbox'[b], s)
    <3>1. g[b] \in Nat /\ g[b - 1] \in Nat
      BY <2>1
    <3>2. outbox'[b][1] = wq[g[b - 1] + 1] /\ g[b - 1] + 1 \in 1..Len(wq)
      <4>1. /\ g[b - 1] < g[b] /\ g[b] <= Len(wq)
            /\ \A p \in 1..(g[b] - g[b - 1]) : outbox'[b][p] = wq[g[b - 1] + p]
        BY <2>1 DEF Cut
      <4>2. 1 \in 1..(g[b] - g[b - 1])
        BY <3>1, <4>1
      <4>3. Len(wq) \in Nat
        BY LenProperties DEF TypeOK
      <4> QED BY <3>1, <4>1, <4>2, <4>3
    <3>3. wq # <<>>
      <4>1. Len(wq) \in Nat /\ Len(wq) # 0
        BY <3>1, <3>2, LenProperties DEF TypeOK
      <4> QED BY <4>1, EmptySeq
    <3>4. /\ wq[g[b - 1] + 1].session = wq[1].session
          /\ wq[g[b - 1] + 1].off > 0 <=> wq[1].off > 0
      BY <3>2 DEF ShapeInv, OneSession
    <3> QED BY <3>2, <3>3, <3>4 DEF Carries
  <2> QED BY <2>1, <2>2 DEF NotTaken, Carries, Cut
<1> QED BY <1>1, <1>2, <1>3, OutboxSteps

(* The tasks of a read follow the queue. *)
LEMMA ReadFacts ==
  ASSUME TypeOK, NodeRead
  PROVE  \E k \in Nat :
           /\ k = ReadCount(node) /\ node'.reader = IF k = 0 THEN node.reader ELSE node.reader + k
           /\ node'.session = node.session /\ node'.exists = node.exists /\ node'.state = node.state
           /\ node'.acked = node.acked
           /\ k > 0 => node.reader \in Nat /\ node.reader + k <= producer
           /\ Len(wq) \in Nat /\ Len(wq') = Len(wq) + k
           /\ \A i \in 1..Len(wq) : wq'[i] = wq[i]
           /\ \A i \in 1..k : wq'[Len(wq) + i] = [off |-> node.reader + i, session |-> node.session]
<1> DEFINE k == ReadCount(node)
           w == WriteTasks(node, k)
<1>1. node \in SlaveNode /\ producer \in Nat /\ wq \in Seq(Chip)
  BY DEF TypeOK
<1>2. k \in Nat /\ (k > 0 => node.reader \in Nat /\ node.reader + k <= producer)
  BY <1>1, ReadCountFacts
<1>3. w \in Seq(Chip) /\ DOMAIN w = 1..k
  BY <1>1, WriteTasksType DEF WriteTasks
<1>4. Len(w) = k /\ \A i \in 1..k : w[i] = [off |-> node.reader + i, session |-> node.session]
  <2>1. \A i \in 1..k : w[i] = [off |-> node.reader + i, session |-> node.session]
    BY DEF WriteTasks
  <2> QED BY <1>2, <1>3, <2>1, LenProperties
<1>5. node' = AfterRead(node, k) /\ wq' = wq \o w
  BY DEF NodeRead
<1> HIDE DEF k, w
<1>6. /\ Len(wq) \in Nat /\ Len(wq') = Len(wq) + k
      /\ \A i \in 1..Len(wq) : wq'[i] = wq[i]
      /\ \A i \in 1..k : wq'[Len(wq) + i] = w[i]
  <2>1. /\ Len(wq) \in Nat /\ Len(wq \o w) = Len(wq) + Len(w)
        /\ \A i \in 1..Len(wq) : (wq \o w)[i] = wq[i]
        /\ \A i \in 1..Len(w) : (wq \o w)[Len(wq) + i] = w[i]
    BY <1>1, <1>3, ConcatFacts
  <2> QED BY <1>4, <1>5, <2>1
<1>7. /\ node'.reader = IF k = 0 THEN node.reader ELSE node.reader + k
      /\ node'.session = node.session /\ node'.exists = node.exists /\ node'.state = node.state
      /\ node'.acked = node.acked
  BY <1>1, <1>2, <1>5, NodeFields
<1> QED BY <1>2, <1>4, <1>6, <1>7 DEF k

(* Records of a session are queued only by reading for it. *)
LEMMA NotQueuedStep ==
  ASSUME TypeOK, ShapeInv, NodeStep, NEW s, ~Carries(wq, s), ~Active(s) \/ ~NodeRead
  PROVE  ~Carries(wq, s)'
<1>0. wq \in Seq(Chip) /\ Len(wq) \in Nat
  BY LenProperties DEF TypeOK
<1>1. CASE wq' = wq \/ wq' = <<>>
  BY <1>1 DEF Carries
<1>2. CASE NodeRead
  <2>1. PICK k \in Nat :
          /\ k > 0 => node.reader \in Nat
          /\ Len(wq') = Len(wq) + k
          /\ \A i \in 1..Len(wq) : wq'[i] = wq[i]
          /\ \A i \in 1..k : wq'[Len(wq) + i] = [off |-> node.reader + i, session |-> node.session]
    BY <1>2, ReadFacts
  <2>2. CASE wq # <<>>
    <3>1. 1 \in 1..Len(wq)
      BY <1>0, <2>2, TailFacts
    <3>2. wq'[1] = wq[1]
      BY <2>1, <3>1
    <3> QED BY <2>2, <3>2 DEF Carries
  <2>3. CASE wq = <<>> /\ k > 0
    <3>1. Len(wq) = 0
      BY <2>3, EmptySeq
    <3>2. wq'[0 + 1] = [off |-> node.reader + 1, session |-> node.session]
      BY <2>1, <2>3, <3>1
    <3>3. wq'[1].session = node.session
      BY <3>2
    <3>4. node.session # s
      BY <1>2, <2>1, <2>3 DEF Active
    <3> QED BY <3>3, <3>4 DEF Carries
  <2>4. CASE wq = <<>> /\ k = 0
    <3>1. wq' = <<>>
      <4>1. wq' = wq \o WriteTasks(node, ReadCount(node))
        BY <1>2 DEF NodeRead
      <4>2. WriteTasks(node, ReadCount(node)) \in Seq(Chip)
        BY WriteTasksType DEF TypeOK
      <4>3. wq' \in Seq(Chip)
        BY <1>0, <4>1, <4>2
      <4>4. Len(wq') = 0
        BY <2>1, <2>4, EmptySeq
      <4> QED BY <4>3, <4>4, EmptySeq
    <3> QED BY <3>1 DEF Carries
  <2> QED BY <2>2, <2>3, <2>4
<1>3. CASE ConsumeWriteQueue
  <2>1. PICK c \in Nat : \E g \in [0..c -> Nat] : Cut(c, g)
    BY <1>3, ConsumeFacts
  <2>2. PICK g \in [0..c -> Nat] : Cut(c, g)
    BY <2>1
  <2>3. /\ g[c] \in Nat /\ g[c] <= Len(wq) /\ Len(wq') = Len(wq) - g[c]
        /\ \A i \in 1..(Len(wq) - g[c]) : wq'[i] = wq[g[c] + i]
    BY <2>2 DEF Cut
  <2>4. ASSUME wq'# <<>> PROVE wq'[1] = wq[g[c] + 1] /\ g[c] + 1 \in 1..Len(wq)
    <3>1. wq' \in Seq(Chip)
      BY <1>3, TypeAuxiliary DEF AuxiliaryThread, TypeOK
    <3>2. Len(wq') >= 1
      BY <2>4, <3>1, TailFacts
    <3> QED BY <1>0, <2>3, <3>2
  <2>5. ASSUME wq' # <<>> PROVE wq # <<>> /\ wq'[1].session = wq[1].session /\ (wq'[1].off > 0 <=> wq[1].off > 0)
    <3>1. wq # <<>>
      BY <1>0, <2>3, <2>4, <2>5, EmptySeq
    <3> QED BY <2>4, <2>5, <3>1 DEF ShapeInv, OneSession
  <2> QED BY <2>5 DEF Carries
<1> QED BY <1>1, <1>2, <1>3 DEF NodeStep, NodeRemoved, NodeAdded, NodeStarted, NodeUpdated, EraseWriteQueue

(* A node becomes active by the first request of its session. *)
LEMMA ActiveStep ==
  ASSUME TypeOK, NodeStep, NEW s, ~Active(s)
  PROVE  ~Active(s)' \/ \E t \in Threads : NodeStarted(t) /\ srv[t].req.session = s /\ Asks(t)
<1>0. node \in SlaveNode
  BY DEF TypeOK
<1>1. CASE node' = node
  BY <1>1 DEF Active
<1>2. CASE NodeRemoved \/ NodeAdded
  BY <1>2, NewNodeFields DEF NodeRemoved, NodeAdded, Active, TypeOK
<1>3. ASSUME NEW t \in Threads, NodeStarted(t)
      PROVE  ~Active(s)' \/ (srv[t].req.session = s /\ Asks(t))
  <2>1. srv[t].req.start \in Nat
    BY DEF TypeOK, Task, Request
  <2>2. node'.session = node.session
    BY <1>0, <1>3, <2>1, NodeFields DEF NodeStarted
  <2> QED BY <1>3, <2>2 DEF NodeStarted, Active, Asks
<1>4. CASE NodeUpdated
  <2>1. node'.session = node.session /\ node'.reader = node.reader
    BY <1>0, <1>4, NodeFields DEF NodeUpdated
  <2> QED BY <2>1 DEF Active
<1>5. CASE NodeRead
  <2>1. PICK k \in Nat :
          /\ node'.session = node.session /\ node'.reader = IF k = 0 THEN node.reader ELSE node.reader + k
          /\ k > 0 => node.reader \in Nat
    BY <1>5, ReadFacts
  <2>2. node'.reader \in Nat => node.reader \in Nat
    BY <2>1
  <2> QED BY <2>1, <2>2 DEF Active
<1> QED BY <1>1, <1>2, <1>3, <1>4, <1>5 DEF NodeStep, ConsumeWriteQueue, EraseWriteQueue

(* Nothing is read for a session until it is active. *)
LEMMA NotReadStep ==
  ASSUME TypeOK, ShapeInv, [Next]_vars, overlap' = {}, NEW s, NotRead(s)
  PROVE  NotRead(s)' \/ \E t \in Threads : NodeStarted(t) /\ srv[t].req.session = s /\ Asks(t)
<1>1. InStep /\ NodeStep
  BY InSteps, CleanNodeSteps
<1>2. NotSent(s)' /\ NotTaken(s)' /\ ~Carries(wq, s)'
  BY <1>1, NotSentStep, NotTakenStep, NotQueuedStep DEF NotRead
<1>3. ~Active(s)' \/ \E t \in Threads : NodeStarted(t) /\ srv[t].req.session = s /\ Asks(t)
  BY <1>1, ActiveStep DEF NotRead
<1> QED BY <1>2, <1>3 DEF NotRead

-----------------------------------------------------------------------------
(* ShapeInv *)

(* The master's offset and session numbers only grow. *)
LEMMA NumbersGrow ==
  ASSUME TypeOK, [Next]_vars
  PROVE  /\ producer \in Nat /\ producer' \in Nat /\ producer <= producer'
         /\ nextSession \in Nat /\ nextSession' \in Nat
         /\ nextSession' = nextSession \/ nextSession' = nextSession + 1
<1>1. producer \in Nat /\ producer' \in Nat /\ producer <= producer' /\ nextSession \in Nat
  BY LogsGrow DEF TypeOK
<1>2. nextSession' = nextSession \/ nextSession' = nextSession + 1
  BY DEF Next, vars, ProposeLog, ServerThread, DealMessage, HandleTrySync, TrySyncAddNode,
         TrySyncGetSession, CheckSessionId, ActivateSlaveBinlogSync, UpdateSyncBinlogStatus,
         SyncBinlogToWq, AuxiliaryThread, WakeUpSlaveBinlogSync, EraseWriteQueue, ConsumeWriteQueue,
         SendSlaveBinlogChips, SendKeepAlive, MasterTimeout, Network, LinkDown, MasterFdClosed,
         SlaveFdClosed, SlaveFdTimeout, MetaSync, SlaveTimeout, BinlogWorker, SendTrySync,
         HandleTrySyncResponse, WriteBinlogRecord, SendBinlogSyncAck,
         masterVars, auxVars, netVars, slaveVars, ghostVars
<1> QED BY <1>1, <1>2

(* A batch whose numbers are known in the next state. *)
Fine(c) ==
  OneSession(c) /\ \A i \in 1..Len(c) : c[i].off <= producer' /\ c[i].session < nextSession'

(* The numbers of a batch stay known. *)
LEMMA FineKept ==
  ASSUME TypeOK, [Next]_vars, NEW c \in Seq(Chip), OneSession(c), Known(c)
  PROVE  Fine(c)
<1>0. \A i \in 1..Len(c) : c[i] \in Chip
  BY ElementOfSeq
<1>1. \A i \in 1..Len(c) : c[i].off \in Nat /\ c[i].session \in Nat
  BY <1>0 DEF Chip
<1> QED BY <1>1, NumbersGrow DEF Fine, Known

(* What is cut from a fine queue or batch is fine. *)
LEMMA FinePart ==
  ASSUME NEW c, NEW d, NEW lo \in Nat, NEW n \in Nat, Fine(c), Len(c) \in Nat, lo + n <= Len(c), Len(d) = n,
         \A p \in 1..n : d[p] = c[lo + p]
  PROVE  Fine(d)
<1>1. \A p \in 1..n : lo + p \in 1..Len(c)
  OBVIOUS
<1>2. ASSUME NEW p \in 1..n
      PROVE  /\ d[p].session = c[1].session /\ (d[p].off > 0 <=> c[1].off > 0)
             /\ d[p].off <= producer' /\ d[p].session < nextSession'
  BY <1>1 DEF Fine, OneSession
<1>3. n # 0 => 1 \in 1..n
  OBVIOUS
<1>4. OneSession(d)
  BY <1>2, <1>3 DEF OneSession
<1> QED BY <1>2, <1>4 DEF Fine

(* So do those of the rest of a batch. *)
LEMMA FineTail ==
  ASSUME NEW c \in Seq(Chip), c # <<>>, Fine(c)
  PROVE  Fine(Tail(c))
<1>1. /\ Len(c) \in Nat /\ Len(c) >= 1 /\ Len(Tail(c)) = Len(c) - 1
      /\ \A p \in 1..Len(Tail(c)) : Tail(c)[p] = c[p + 1]
  BY TailFacts
<1>2. 1 \in Nat /\ Len(Tail(c)) \in Nat /\ 1 + Len(Tail(c)) <= Len(c)
      /\ \A p \in 1..Len(Tail(c)) : Tail(c)[p] = c[1 + p]
  BY <1>1
<1> QED BY <1>1, <1>2, FinePart

(* The messages at the slave keep their shape, *)
LEMMA ShapeIn ==
  ASSUME TypeOK, ShapeInv, NumberInv, [Next]_vars, overlap' = {}
  PROVE  \A i \in 1..Len(slaveIn') :
           Fine(slaveIn'[i].chips) /\ (slaveIn'[i].type = "TrySync" => slaveIn'[i].chips = <<>>)
<1>0. /\ Len(slaveIn) \in Nat
      /\ \A i \in 1..Len(slaveIn) : slaveIn[i] \in Response /\ slaveIn[i].chips \in Seq(Chip)
  <2>1. Len(slaveIn) \in Nat /\ \A i \in 1..Len(slaveIn) : slaveIn[i] \in Response
    BY LenProperties, ElementOfSeq DEF TypeOK
  <2> QED BY <2>1 DEF Response
<1>1. \A i \in 1..Len(slaveIn) :
        Fine(slaveIn[i].chips) /\ (slaveIn[i].type = "TrySync" => slaveIn[i].chips = <<>>)
  BY <1>0, FineKept DEF ShapeInv
<1>e. Fine(<<>>)
  <2>1. Len(<<>>) = 0
    BY EmptySeq
  <2> QED BY <2>1 DEF Fine, OneSession
<1> SUFFICES ASSUME NEW i \in 1..Len(slaveIn')
             PROVE  Fine(slaveIn'[i].chips) /\ (slaveIn'[i].type = "TrySync" => slaveIn'[i].chips = <<>>)
  OBVIOUS
<1> DEFINE Goal == Fine(slaveIn'[i].chips) /\ (slaveIn'[i].type = "TrySync" => slaveIn'[i].chips = <<>>)
<1>2. ASSUME NEW d \in {0, 1}, InKept(d) PROVE Goal
  <2>1. i + d \in 1..Len(slaveIn) /\ slaveIn'[i] = slaveIn[i + d]
    BY <1>0, <1>2 DEF InKept
  <2> QED BY <1>1, <2>1
<1>3. CASE InSpent
  <2>1. CASE i = 1
    <3>1. slaveIn[1] \in Response /\ 1 \in 1..Len(slaveIn) /\ slaveIn[1].chips \in Seq(Chip)
      BY <1>0, <1>3, <2>1 DEF InSpent
    <3>2. /\ slaveIn'[1].chips = Tail(slaveIn[1].chips) /\ slaveIn[1].chips # <<>>
          /\ slaveIn'[1].type = "BinlogSync"
      BY <1>3, <3>1 DEF InSpent, Response
    <3> QED BY <1>1, <2>1, <3>1, <3>2, FineTail
  <2>2. CASE i \in 2..Len(slaveIn)
    BY <1>0, <1>1, <1>3, <2>2 DEF InSpent
  <2> QED BY <1>0, <1>3, <2>1, <2>2 DEF InSpent
<1>4. ASSUME NEW m \in Response, InAdded(m), IsRefusal(m) \/ IsNewOffer(m) \/ IsBatch(m) \/ IsKeepAlive(m)
      PROVE  Goal
  <2>1. CASE i \in 1..Len(slaveIn)
    BY <1>1, <1>4, <2>1 DEF InAdded
  <2>2. Fine(m.chips) /\ (m.type = "TrySync" => m.chips = <<>>)
    <3>1. CASE IsRefusal(m) \/ IsNewOffer(m)
      BY <1>e, <3>1 DEF IsRefusal, IsNewOffer
    <3>2. CASE IsBatch(m)
      <4>1. Head(outbox) = outbox[1] /\ 1 \in 1..Len(outbox) /\ outbox[1] \in Seq(Chip)
        BY <3>2, TailFacts DEF IsBatch, TypeOK
      <4>2. Fine(outbox[1])
        BY <4>1, FineKept DEF ShapeInv
      <4> QED BY <3>2, <4>1, <4>2 DEF IsBatch
    <3>3. CASE IsKeepAlive(m)
      <4> DEFINE chip == [off |-> 0, session |-> node.session]
      <4>1. m.chips = <<chip>> /\ node.session < nextSession /\ node.session \in Nat /\ m.type = "BinlogSync"
        BY <3>3 DEF IsKeepAlive, NumberInv, TypeOK, SlaveNode
      <4>2. chip.off = 0 /\ chip.session = node.session
        OBVIOUS
      <4> HIDE DEF chip
      <4>3. Len(m.chips) = 1 /\ m.chips[1] = chip
        BY <4>1
      <4>4. chip.off <= producer' /\ chip.session < nextSession'
        BY <4>1, <4>2, NumbersGrow
      <4>5. \A j \in 1..1 : j = 1
        OBVIOUS
      <4> QED BY <4>1, <4>3, <4>4, <4>5 DEF Fine, OneSession
    <3> QED BY <1>4, <3>1, <3>2, <3>3
  <2>3. CASE i = Len(slaveIn) + 1
    BY <1>4, <2>2, <2>3 DEF InAdded
  <2> QED BY <1>0, <1>4, <2>1, <2>3 DEF InAdded
<1> QED BY <1>2, <1>3, <1>4, InSteps DEF InStep

(* so do the batches of the auxiliary thread, *)
LEMMA ShapeOut ==
  ASSUME TypeOK, ShapeInv, [Next]_vars
  PROVE  \A i \in 1..Len(outbox') : Fine(outbox'[i])
<1>0. Len(outbox) \in Nat /\ \A i \in 1..Len(outbox) : outbox[i] \in Seq(Chip)
  BY LenProperties, ElementOfSeq DEF TypeOK
<1>1. \A i \in 1..Len(outbox) : Fine(outbox[i])
  BY <1>0, FineKept DEF ShapeInv
<1>2. CASE outbox' = outbox
  BY <1>1, <1>2
<1>3. CASE outbox # <<>> /\ outbox' = Tail(outbox)
  <2>1. \A i \in 1..Len(outbox') : outbox'[i] = outbox[i + 1] /\ i + 1 \in 1..Len(outbox)
    BY <1>3, TailFacts DEF TypeOK
  <2> QED BY <1>1, <2>1
<1>4. CASE ConsumeWriteQueue
  <2>0. PICK c \in Nat : \E g \in [0..c -> Nat] : Cut(c, g)
    BY <1>4, ConsumeFacts
  <2>1. PICK g \in [0..c -> Nat] : Cut(c, g)
    BY <2>0
  <2>2. wq \in Seq(Chip) /\ Len(wq) \in Nat
    BY LenProperties DEF TypeOK
  <2>3. Fine(wq)
    BY <2>2, FineKept DEF ShapeInv
  <2>4. ASSUME NEW b \in 1..c PROVE Fine(outbox'[b])
    <3>1. g[b] \in Nat /\ g[b - 1] \in Nat
      BY <2>1
    <3>2. PICK lo \in Nat, hi \in Nat : lo = g[b - 1] /\ hi = g[b]
      BY <3>1
    <3>3. /\ lo < hi /\ hi <= Len(wq) /\ Len(outbox'[b]) = hi - lo
          /\ \A p \in 1..(hi - lo) : outbox'[b][p] = wq[lo + p]
      BY <2>1, <3>2 DEF Cut
    <3>4. hi - lo \in Nat /\ lo + (hi - lo) <= Len(wq)
      BY <2>2, <3>3
    <3>5. PICK n \in Nat : n = hi - lo
      BY <3>4
    <3> QED BY <2>2, <2>3, <3>3, <3>4, <3>5, FinePart
  <2> QED BY <2>1, <2>4 DEF Cut
<1> QED BY <1>2, <1>3, <1>4, OutboxSteps

(* and the write queue. *)
LEMMA ShapeQueue ==
  ASSUME TypeOK, ShapeInv, NumberInv, [Next]_vars, NodeStep
  PROVE  /\ Fine(wq')
         /\ wq' # <<>> => wq'[1].off > 0 /\ (node'.reader \in Nat => wq'[1].session = node'.session)
<1>0. wq \in Seq(Chip) /\ Len(wq) \in Nat /\ node \in SlaveNode
  BY LenProperties DEF TypeOK
<1>1. Fine(wq)
  BY <1>0, FineKept DEF ShapeInv
<1>2. wq # <<>> => wq[1].off > 0 /\ (node.reader \in Nat => wq[1].session = node.session)
  BY DEF ShapeInv
<1>3. CASE wq' = <<>>
  <2>1. Len(wq') = 0
    BY <1>3, EmptySeq
  <2> QED BY <1>3, <2>1 DEF Fine, OneSession
<1>4. CASE wq' = wq /\ node'.reader = node.reader /\ node'.session = node.session
  BY <1>1, <1>2, <1>4
<1>5. CASE wq' = wq /\ node'.reader \notin Nat
  BY <1>1, <1>2, <1>5
<1>6. CASE NodeRead
  <2>1. PICK k \in Nat :
          /\ k > 0 => node.reader \in Nat /\ node.reader + k <= producer
          /\ Len(wq') = Len(wq) + k
          /\ node'.session = node.session /\ (k = 0 => node'.reader = node.reader)
          /\ \A i \in 1..Len(wq) : wq'[i] = wq[i]
          /\ \A i \in 1..k : wq'[Len(wq) + i] = [off |-> node.reader + i, session |-> node.session]
    BY <1>6, ReadFacts
  <2>2. node.session < nextSession /\ node.session \in Nat /\ node.exists
    BY <1>0, <1>6 DEF NodeRead, NumberInv, SlaveNode
  <2>3. ASSUME NEW i \in 1..k
        PROVE  wq'[Len(wq) + i].off = node.reader + i /\ wq'[Len(wq) + i].session = node.session
    <3>1. wq'[Len(wq) + i] = [off |-> node.reader + i, session |-> node.session]
      BY <2>1
    <3> QED BY <3>1
  <2>4. CASE k = 0
    <3>1. \A i \in 1..Len(wq') : wq'[i] = wq[i] /\ i \in 1..Len(wq)
      BY <1>0, <2>1, <2>4
    <3>2. Len(wq') = Len(wq)
      BY <1>0, <2>1, <2>4
    <3>3. wq' # <<>> => wq # <<>> /\ 1 \in 1..Len(wq)
      <4>1. wq' = <<>> \/ Len(wq') # 0
        <5>1. wq' \in Seq(Chip)
          BY TypeCorrectStep DEF TypeOK
        <5> QED BY <5>1, EmptySeq
      <4> QED BY <1>0, <3>2, <4>1, EmptySeq
    <3>4. Fine(wq')
      <4>0. \A i \in 1..Len(wq) : wq'[i] = wq[i]
        BY <2>1
      <4>1. 0 \in Nat /\ 0 + Len(wq) <= Len(wq) /\ \A p \in 1..Len(wq) : wq'[p] = wq[0 + p]
        BY <1>0, <4>0
      <4> QED BY <1>0, <1>1, <3>2, <4>1, FinePart
    <3> QED BY <1>2, <2>1, <2>4, <3>1, <3>2, <3>3, <3>4
  <2>5. CASE k > 0
    <3>1. node.reader \in Nat /\ node.reader + k <= producer'
      BY <2>1, <2>5, NumbersGrow
    <3>2. ASSUME NEW i \in 1..Len(wq')
          PROVE  /\ wq'[i].off <= producer' /\ wq'[i].session < nextSession'
                 /\ wq'[i].session = node.session /\ wq'[i].off > 0
      <4>1. CASE i \in 1..Len(wq)
        <5>1. wq # <<>>
          BY <1>0, <4>1, EmptySeq
        <5>2. wq[i].session = wq[1].session /\ (wq[i].off > 0 <=> wq[1].off > 0)
              /\ wq[i].off <= producer' /\ wq[i].session < nextSession'
          BY <1>1, <4>1 DEF Fine, OneSession
        <5> QED BY <1>2, <2>1, <3>1, <4>1, <5>1, <5>2
      <4>2. CASE i \notin 1..Len(wq)
        <5>1. PICK p \in 1..k : i = Len(wq) + p
          <6>1. i - Len(wq) \in 1..k /\ i = Len(wq) + (i - Len(wq))
            BY <1>0, <2>1, <4>2
          <6> QED BY <6>1
        <5>2. wq'[i].off = node.reader + p /\ wq'[i].session = node.session
          BY <2>3, <5>1
        <5> QED BY <2>2, <3>1, <5>2, NumbersGrow
      <4> QED BY <4>1, <4>2
    <3>3. 1 \in 1..Len(wq')
      BY <1>0, <2>1, <2>5
    <3> QED BY <2>1, <3>2, <3>3 DEF Fine, OneSession
  <2> QED BY <2>4, <2>5
<1>7. CASE ConsumeWriteQueue
  <2>1. PICK c \in Nat : \E g \in [0..c -> Nat] : Cut(c, g)
    BY <1>7, ConsumeFacts
  <2>2. PICK g \in [0..c -> Nat] : Cut(c, g)
    BY <2>1
  <2>3. PICK lo \in Nat : lo = g[c]
    BY <2>2
  <2>4. /\ lo <= Len(wq) /\ Len(wq') = Len(wq) - lo
        /\ \A i \in 1..(Len(wq) - lo) : wq'[i] = wq[lo + i]
    BY <2>2, <2>3 DEF Cut
  <2>5. PICK n \in Nat : n = Len(wq) - lo
    <3>1. Len(wq) - lo \in Nat
      BY <1>0, <2>3, <2>4
    <3> QED BY <3>1
  <2>6. Fine(wq')
    <3>1. lo + n <= Len(wq) /\ Len(wq') = n
      BY <1>0, <2>4, <2>5
    <3> QED BY <1>0, <1>1, <2>4, <2>5, <3>1, FinePart
  <2>7. node' = node
    BY <1>7 DEF ConsumeWriteQueue
  <2>8. ASSUME wq' # <<>> PROVE wq # <<>> /\ lo + 1 \in 1..Len(wq) /\ wq'[1] = wq[lo + 1]
    <3>1. wq' \in Seq(Chip)
      BY TypeCorrectStep DEF TypeOK
    <3>2. Len(wq') # 0
      BY <2>8, <3>1, EmptySeq
    <3>3. n >= 1
      <4>1. Len(wq') = n
        BY <2>4, <2>5
      <4> QED BY <3>2, <4>1
    <3> QED BY <1>0, <2>4, <2>5, <3>3, EmptySeq
  <2>9. wq' # <<>> => wq'[1].session = wq[1].session /\ (wq'[1].off > 0 <=> wq[1].off > 0)
    BY <1>1, <2>8 DEF Fine, OneSession
  <2> QED BY <1>2, <2>6, <2>7, <2>8, <2>9
<1>8. CASE NodeRemoved \/ NodeAdded
  <2>1. node'.reader \notin Nat
    BY <1>8, NewNodeFields DEF NodeRemoved, NodeAdded, TypeOK
  <2> QED BY <1>3, <1>5, <1>8, <2>1 DEF NodeRemoved, NodeAdded
<1>9. ASSUME NEW t \in Threads, NodeStarted(t)
      PROVE  wq' = <<>> \/ (wq' = wq /\ node'.reader \notin Nat)
  <2>1. srv[t].req.start \in Nat
    BY DEF TypeOK, Task, Request
  <2> QED BY <1>0, <1>9, <2>1, NodeFields, NewNodeFields DEF NodeStarted
<1>10. CASE NodeUpdated
  <2>1. wq' = wq /\ node'.reader = node.reader /\ node'.session = node.session
    BY <1>0, <1>10, NodeFields DEF NodeUpdated
  <2> QED BY <1>4, <2>1
<1> QED BY <1>3, <1>4, <1>5, <1>6, <1>7, <1>8, <1>9, <1>10 DEF NodeStep, EraseWriteQueue

(* The shape of what travels is kept. *)
LEMMA ShapeStep ==
  ASSUME TypeOK, ShapeInv, NumberInv, [Next]_vars, overlap' = {}
  PROVE  ShapeInv'
<1>1. NodeStep
  BY CleanNodeSteps
<1> QED BY <1>1, ShapeIn, ShapeOut, ShapeQueue DEF ShapeInv, Fine, OneSession, Known

-----------------------------------------------------------------------------
(* NumberInv *)

(* The slave takes the session that the first message offers. *)
Connects ==
  /\ HandleTrySyncResponse
  /\ slaveIn # <<>> /\ 1 \in 1..Len(slaveIn) /\ IsOffer(slaveIn[1]) /\ slaveIn' = Tail(slaveIn)
  /\ session' = slaveIn[1].session

(* HandleTrySyncResponse is the only way to be connected. *)
LEMMA ConnectedSteps ==
  ASSUME TypeOK, [Next]_vars, rstate' = "kConnected"
  PROVE  (rstate = "kConnected" /\ session' = session) \/ Connects
<1> USE DEF masterVars, auxVars, netVars, slaveVars, ghostVars
<1>1. CASE HandleTrySyncResponse
  <2>1. /\ slaveIn # <<>> /\ Head(slaveIn).type = "TrySync" /\ slaveIn' = Tail(slaveIn)
        /\ Head(slaveIn).code = "kOk" /\ session' = Head(slaveIn).session
    BY <1>1 DEF HandleTrySyncResponse
  <2>2. Head(slaveIn) = slaveIn[1] /\ 1 \in 1..Len(slaveIn)
    BY <2>1, TailFacts DEF TypeOK
  <2> QED BY <1>1, <2>1, <2>2 DEF Connects, IsOffer
<1>2. CASE MetaSync
  BY <1>2 DEF MetaSync
<1>3. CASE WriteBinlogRecord
  BY <1>3 DEF WriteBinlogRecord
<1>4. CASE SlaveFdClosed \/ SlaveFdTimeout \/ SendTrySync \/ SlaveTimeout
  BY <1>4 DEF SlaveFdClosed, SlaveFdTimeout, Deactivate, SendTrySync, SlaveTimeout
<1>5. \/ UNCHANGED <<rstate, session>> \/ HandleTrySyncResponse \/ MetaSync \/ WriteBinlogRecord
      \/ SlaveFdClosed \/ SlaveFdTimeout \/ SendTrySync \/ SlaveTimeout
  BY DEF Next, vars, ProposeLog, ServerThread, DealMessage, HandleTrySync, TrySyncAddNode,
         TrySyncGetSession, CheckSessionId, ActivateSlaveBinlogSync, UpdateSyncBinlogStatus,
         SyncBinlogToWq, AuxiliaryThread, WakeUpSlaveBinlogSync, EraseWriteQueue, ConsumeWriteQueue,
         SendSlaveBinlogChips, SendKeepAlive, MasterTimeout, Network, LinkDown, MasterFdClosed,
         BinlogWorker, SendBinlogSyncAck
<1> QED BY <1>1, <1>2, <1>3, <1>4, <1>5

(* The session of a node changes only with the node. *)
LEMMA SessionSteps ==
  ASSUME TypeOK, NodeStep, node'.exists
  PROVE  (node.exists /\ node'.session = node.session) \/ NodeAdded
<1>0. node \in SlaveNode
  BY DEF TypeOK
<1>1. CASE node' = node
  BY <1>1
<1>2. CASE NodeRemoved
  BY <1>2, NewNodeFields DEF NodeRemoved
<1>3. ASSUME NEW t \in Threads, NodeStarted(t) PROVE node.exists /\ node'.session = node.session
  <2>1. srv[t].req.start \in Nat
    BY DEF TypeOK, Task, Request
  <2> QED BY <1>0, <1>3, <2>1, NodeFields DEF NodeStarted
<1>4. CASE NodeUpdated
  BY <1>0, <1>4, NodeFields DEF NodeUpdated
<1>5. CASE NodeRead
  <2>1. node'.session = node.session /\ node.exists
    BY <1>5, ReadFacts DEF NodeRead
  <2> QED BY <2>1
<1> QED BY <1>1, <1>2, <1>3, <1>4, <1>5 DEF NodeStep, ConsumeWriteQueue, EraseWriteQueue

(* A number that is heard of was generated. *)
LEMMA NumberStep ==
  ASSUME TypeOK, NumberInv, [Next]_vars, overlap' = {}
  PROVE  NumberInv'
<1>0. NodeStep /\ InStep /\ RequestStep /\ (\A u \in Threads : TaskStep(u)) /\ TypeOK'
  BY CleanNodeSteps, InSteps, RequestSteps, TaskSteps, TypeCorrectStep
<1>1. /\ nextSession \in Nat /\ nextSession' \in Nat /\ nextSession <= nextSession'
      /\ NodeAdded => nextSession < nextSession'
  BY NumbersGrow DEF NodeAdded
<1>2. node'.exists => node'.session < nextSession'
  <2>1. NodeAdded => node'.session = nextSession
    BY <1>1, NewNodeFields DEF NodeAdded
  <2>2. node.session \in Nat
    BY DEF TypeOK, SlaveNode
  <2> QED BY <1>0, <1>1, <2>1, <2>2, SessionSteps DEF NumberInv
<1>3. \A s \in Nat : Offered(s) => s < nextSession
  BY DEF Offered, NumberInv
<1>4. \A s \in Nat : Offered(s)' => s < nextSession'
  <2> SUFFICES ASSUME NEW s \in Nat, Offered(s)' PROVE s < nextSession'
    OBVIOUS
  <2>1. Offered(s) \/ (s = nextSession /\ NodeAdded)
    BY <1>0, OfferedStep DEF IsNewOffer
  <2> QED BY <1>1, <1>3, <2>1
<1>5. \A s \in Nat : Asked(s) => s < nextSession
  BY DEF Asked, NumberInv
<1>6. \A s \in Nat : Asked(s)' => s < nextSession'
  <2> SUFFICES ASSUME NEW s \in Nat, Asked(s)' PROVE s < nextSession'
    OBVIOUS
  <2>1. CASE Asked(s)
    BY <1>1, <1>5, <2>1
  <2>2. ASSUME NEW r \in Request, RequestAdded(r), r.first, s = r.session PROVE Offered(s)
    <3>1. slaveIn # <<>> /\ IsOffer(slaveIn[1]) /\ s = slaveIn[1].session
      BY <2>2 DEF RequestAdded
    <3>2. 1 \in 1..Len(slaveIn)
      BY <3>1, TailFacts DEF TypeOK
    <3> QED BY <3>1, <3>2 DEF Offered
  <2> QED BY <1>0, <1>1, <1>3, <2>1, <2>2, AskedStep
<1>7. ASSUME NEW i \in 1..Len(slaveIn'), IsOffer(slaveIn'[i]) PROVE slaveIn'[i].session < nextSession'
  <2>1. slaveIn'[i] \in Response
    BY <1>0, ElementOfSeq DEF TypeOK
  <2>2. slaveIn'[i].session \in Nat
    BY <2>1 DEF Response
  <2>3. PICK s \in Nat : s = slaveIn'[i].session
    BY <2>2
  <2>4. Offered(s)'
    BY <1>7, <2>3 DEF Offered, IsOffer
  <2> QED BY <1>4, <2>3, <2>4
<1>8. ASSUME NEW i \in 1..Len(s2m'), s2m'[i].first PROVE s2m'[i].session < nextSession'
  <2>1. s2m'[i] \in Request
    BY <1>0, ElementOfSeq DEF TypeOK
  <2>2. s2m'[i].session \in Nat
    BY <2>1 DEF Request
  <2>3. PICK s \in Nat : s = s2m'[i].session
    BY <2>2
  <2>4. Asked(s)'
    BY <1>8, <2>3 DEF Asked
  <2> QED BY <1>6, <2>3, <2>4
<1>9. ASSUME NEW t \in Threads PROVE Asks(t)' \/ srv'[t].pc \in {"apply", "fill"} => srv'[t].req.session < nextSession'
  <2>1. srv'[t].req.session \in Nat /\ srv[t].req.session \in Nat
    BY <1>0 DEF TypeOK, Task, Request
  <2>2. PICK s \in Nat : s = srv'[t].req.session
    BY <2>1
  <2>3. ASSUME Asks(t)' PROVE s < nextSession'
    <3>1. Asked(s)'
      BY <2>2, <2>3 DEF Asked, Asks
    <3> QED BY <1>6, <3>1
  <2>4. ASSUME srv'[t].pc \in {"apply", "fill"} PROVE s < nextSession'
    <3>1. TaskKept(t)
      BY <1>0, <2>4 DEF TaskStep, Idle
    <3>2. srv[t].req.session = s
      BY <2>2, <3>1 DEF TaskKept, SameRequest
    <3>3. srv[t].pc \in {"apply", "fill"} \/ (node.exists /\ node.session = s)
      BY <2>4, <3>1, <3>2 DEF TaskKept
    <3>4. s < nextSession
      BY <3>2, <3>3 DEF NumberInv
    <3> QED BY <1>1, <3>4
  <2> QED BY <2>2, <2>3, <2>4
<1>10. rstate' = "kConnected" => session' < nextSession'
  <2> SUFFICES ASSUME rstate' = "kConnected" PROVE session' < nextSession'
    OBVIOUS
  <2>1. session \in Nat /\ session' \in Nat
    BY <1>0 DEF TypeOK
  <2>2. CASE rstate = "kConnected" /\ session' = session
    BY <1>1, <2>1, <2>2 DEF NumberInv
  <2>3. CASE Connects
    <3>1. session' < nextSession
      BY <2>3 DEF Connects, NumberInv
    <3> QED BY <1>1, <2>1, <3>1
  <2> QED BY <2>2, <2>3, ConnectedSteps
<1> QED BY <1>2, <1>7, <1>8, <1>9, <1>10 DEF NumberInv, IsOffer

-----------------------------------------------------------------------------
(* ConnInv *)

(* A connection is lost to the master with the node, by MasterFdClosed. *)
LEMMA ConnSteps ==
  ASSUME TypeOK, [Next]_vars, overlap' = {}
  PROVE  /\ mslave' = mslave \/ mslave' = TRUE \/ MasterFdClosed
         /\ (CanWrite => CanWrite') \/ node' = NoSlaveNode \/ NodeAdded
         /\ (link => mslave /\ metaDone) => (link' => mslave' /\ metaDone')
<1> USE DEF masterVars, auxVars, netVars, slaveVars, ghostVars
<1>1. CASE MetaSync
  BY <1>1 DEF MetaSync, CanWrite
<1>2. CASE MasterFdClosed
  BY <1>2 DEF MasterFdClosed
<1>3. CASE LinkDown \/ SlaveFdClosed \/ SlaveFdTimeout
  BY <1>3 DEF LinkDown, SlaveFdClosed, SlaveFdTimeout, CanWrite
<1>4. ASSUME NEW t \in Threads, TrySyncAddNode(t)
      PROVE  /\ UNCHANGED <<mslave, link, metaDone>>
             /\ mconn' = mconn \/ NodeAdded
  BY <1>4 DEF TrySyncAddNode, NodeAdded
<1>5. CASE \E t \in Threads : TrySyncAddNode(t)
  BY <1>4, <1>5 DEF CanWrite
<1>6. CASE UNCHANGED <<mslave, mconn, link, metaDone>>
  BY <1>6 DEF CanWrite
<1>7. \/ UNCHANGED <<mslave, mconn, link, metaDone>> \/ MetaSync \/ MasterFdClosed \/ LinkDown
      \/ SlaveFdClosed \/ SlaveFdTimeout \/ \E t \in Threads : TrySyncAddNode(t)
  BY DEF Next, vars, ProposeLog, ServerThread, DealMessage, HandleTrySync,
         TrySyncGetSession, CheckSessionId, ActivateSlaveBinlogSync, UpdateSyncBinlogStatus,
         SyncBinlogToWq, AuxiliaryThread, WakeUpSlaveBinlogSync, EraseWriteQueue, ConsumeWriteQueue,
         SendSlaveBinlogChips, SendKeepAlive, MasterTimeout, Network, SlaveTimeout, SendTrySync,
         BinlogWorker, SendBinlogSyncAck, HandleTrySyncResponse, WriteBinlogRecord
<1> QED BY <1>1, <1>2, <1>3, <1>5, <1>6, <1>7

(* A session that no slave has heard of. *)
LEMMA UnheardStep ==
  ASSUME TypeOK, [Next]_vars, overlap' = {}, node.exists,
         NEW s, ~Offered(s), ~Asked(s)
  PROVE  ~Offered(s)' /\ ~Asked(s)' /\ (~Active(s) => ~Active(s)')
<1>0. NodeStep /\ InStep /\ RequestStep /\ (\A u \in Threads : TaskStep(u))
  BY CleanNodeSteps, InSteps, RequestSteps, TaskSteps
<1>1. ~Offered(s)'
  BY <1>0, OfferedStep DEF IsNewOffer, NodeAdded
<1>2. ~Asked(s)'
  <2>1. ASSUME NEW r \in Request, RequestAdded(r), r.first, s = r.session PROVE Offered(s)
    <3>1. slaveIn # <<>> /\ IsOffer(slaveIn[1]) /\ s = slaveIn[1].session
      BY <2>1 DEF RequestAdded
    <3>2. 1 \in 1..Len(slaveIn)
      BY <3>1, TailFacts DEF TypeOK
    <3> QED BY <3>1, <3>2 DEF Offered
  <2> QED BY <1>0, <2>1, AskedStep
<1>3. ~Active(s) => ~Active(s)'
  BY <1>0, ActiveStep DEF Asked
<1> QED BY <1>1, <1>2, <1>3

(* The number of a new node was not heard of before. *)
LEMMA NewNumber ==
  ASSUME TypeOK, NumberInv
  PROVE  ~Offered(nextSession) /\ ~Asked(nextSession)
<1>1. nextSession \in Nat /\ ~(nextSession < nextSession)
  BY DEF TypeOK
<1> QED BY <1>1 DEF Offered, Asked, NumberInv

(* The master loses a connection together with the node. *)
LEMMA ConnStep ==
  ASSUME TypeOK, NumberInv, ConnInv, [Next]_vars, overlap' = {}
  PROVE  ConnInv'
<1>0. NodeStep /\ InStep /\ RequestStep /\ (\A u \in Threads : TaskStep(u)) /\ TypeOK'
  BY CleanNodeSteps, InSteps, RequestSteps, TaskSteps, TypeCorrectStep
<1>1. link' => mslave' /\ metaDone'
  BY ConnSteps DEF ConnInv
<1>2. MasterFdClosed => /\ \A i \in 1..Len(s2m') : ~s2m'[i].live
                        /\ \A t \in Threads : ~srv'[t].req.live
  <2> SUFFICES ASSUME MasterFdClosed
               PROVE  /\ \A i \in 1..Len(s2m') : ~s2m'[i].live
                      /\ \A t \in Threads : ~srv'[t].req.live
    OBVIOUS
  <2>1. /\ s2m' = [i \in DOMAIN s2m |-> [s2m[i] EXCEPT !.live = FALSE]]
        /\ srv' = [t \in Threads |-> [srv[t] EXCEPT !.req.live = FALSE]]
    BY DEF MasterFdClosed
  <2>2. DOMAIN s2m = 1..Len(s2m) /\ \A i \in 1..Len(s2m) : s2m[i] \in Request
    BY LenProperties, ElementOfSeq DEF TypeOK
  <2>3. DOMAIN s2m' = 1..Len(s2m')
    BY <1>0, LenProperties DEF TypeOK
  <2>4. ASSUME NEW i \in 1..Len(s2m') PROVE ~s2m'[i].live
    <3>1. i \in DOMAIN s2m /\ s2m'[i] = [s2m[i] EXCEPT !.live = FALSE] /\ s2m[i] \in Request
      BY <2>1, <2>2, <2>3
    <3> QED BY <3>1 DEF Request
  <2>5. ASSUME NEW t \in Threads PROVE ~srv'[t].req.live
    <3>1. srv'[t] = [srv[t] EXCEPT !.req.live = FALSE] /\ srv[t] \in Task
      BY <2>1 DEF TypeOK
    <3>2. srv'[t].req = [srv[t].req EXCEPT !.live = FALSE] /\ srv[t].req \in Request
      BY <3>1 DEF Task
    <3> QED BY <3>2 DEF Request
  <2> QED BY <2>4, <2>5
<1>3. ASSUME NEW i \in 1..Len(s2m'), s2m'[i].live PROVE mslave'
  <2>0. Len(s2m) \in Nat
    BY LenProperties DEF TypeOK
  <2>1. mslave
    <3>1. ASSUME NEW d \in {0, 1}, RequestsKept(d) PROVE mslave
      <4>1. i + d \in 1..Len(s2m) /\ SameRequest(s2m'[i], s2m[i + d])
        BY <2>0, <3>1 DEF RequestsKept
      <4> QED BY <1>3, <4>1 DEF SameRequest, ConnInv
    <3>2. ASSUME NEW r \in Request, RequestAdded(r) PROVE mslave
      BY <3>2 DEF RequestAdded, ConnInv
    <3> QED BY <1>0, <3>1, <3>2 DEF RequestStep
  <2> QED BY <1>2, <1>3, <2>1, ConnSteps
<1>4. ASSUME NEW t \in Threads, srv'[t].req.live PROVE mslave'
  <2>1. mslave
    <3>1. CASE TaskKept(t)
      BY <1>4, <3>1 DEF TaskKept, SameRequest, ConnInv
    <3>2. srv'[t] # Idle
      BY <1>4 DEF Idle, NoRequest
    <3>3. CASE s2m # <<>> /\ srv'[t] = [pc |-> "start", req |-> Head(s2m)]
      <4>1. Head(s2m) = s2m[1] /\ 1 \in 1..Len(s2m)
        BY <3>3, TailFacts DEF TypeOK
      <4> QED BY <1>4, <3>3, <4>1 DEF ConnInv
    <3> QED BY <1>0, <3>1, <3>2, <3>3 DEF TaskStep
  <2> QED BY <1>2, <1>4, <2>1, ConnSteps
<1>5. ASSUME node'.exists, ~CanWrite'
      PROVE  (~Offered(node.session) /\ ~Asked(node.session) /\ ~Active(node.session))'
  <2>1. PICK s \in Nat : s = node'.session
    BY <1>0 DEF TypeOK, SlaveNode
  <2>2. CASE node.exists /\ node'.session = node.session
    <3>1. ~CanWrite
      BY <1>5, <2>2, ConnSteps, NewNodeFields DEF NodeAdded
    <3>2. ~Offered(s) /\ ~Asked(s) /\ ~Active(s)
      BY <2>1, <2>2, <3>1 DEF ConnInv
    <3>3. ~Offered(s)' /\ ~Asked(s)' /\ ~Active(s)'
      BY <2>2, <3>2, UnheardStep
    <3> QED BY <2>1, <3>3 DEF Offered, Asked, Active
  <2>3. CASE NodeAdded
    <3>1. s = nextSession /\ node'.reader \notin Nat /\ nextSession \in Nat
      BY <2>1, <2>3, NewNodeFields DEF NodeAdded, TypeOK
    <3>2. ~Offered(s)'
      <4>1. ASSUME NEW m \in Response, IsNewOffer(m) PROVE CanWrite'
        <5>1. mconn' = "cur" /\ mslave' = mslave /\ mslave
          BY <4>1 DEF IsNewOffer, ConnInv
        <5> QED BY <5>1 DEF CanWrite
      <4> QED BY <1>0, <1>5, <3>1, <4>1, OfferedStep, NewNumber
    <3>3. ~Asked(s)'
      <4>1. ASSUME NEW r \in Request, RequestAdded(r), r.first, s = r.session PROVE Offered(s)
        <5>1. slaveIn # <<>> /\ IsOffer(slaveIn[1]) /\ s = slaveIn[1].session
          BY <4>1 DEF RequestAdded
        <5>2. 1 \in 1..Len(slaveIn)
          BY <5>1, TailFacts DEF TypeOK
        <5> QED BY <5>1, <5>2 DEF Offered
      <4> QED BY <1>0, <3>1, <4>1, AskedStep, NewNumber
    <3> QED BY <2>1, <3>1, <3>2, <3>3 DEF Offered, Asked, Active
  <2> QED BY <1>0, <1>5, <2>2, <2>3, SessionSteps
<1> QED BY <1>1, <1>3, <1>4, <1>5 DEF ConnInv

-----------------------------------------------------------------------------
(* StartInv, OfferInv and AskInv *)

(* A node starts by the first request of its session and stays started. *)
LEMMA StateSteps ==
  ASSUME TypeOK, NodeStep, node'.exists, ~NodeAdded
  PROVE  /\ node.exists /\ node'.session = node.session
         /\ node.state = "kSlaveBinlogSync" => node'.state = "kSlaveBinlogSync"
         /\ node'.state = "kSlaveBinlogSync" =>
              node.state = "kSlaveBinlogSync" \/ \E t \in Threads : NodeStarted(t)
<1>0. node \in SlaveNode
  BY DEF TypeOK
<1>1. node.exists /\ node'.session = node.session
  BY SessionSteps
<1>2. CASE node' = node
  BY <1>1, <1>2
<1>3. CASE NodeRemoved
  BY <1>3, NewNodeFields DEF NodeRemoved
<1>4. ASSUME NEW t \in Threads, NodeStarted(t) PROVE node'.state = "kSlaveBinlogSync"
  <2>1. srv[t].req.start \in Nat
    BY DEF TypeOK, Task, Request
  <2> QED BY <1>0, <1>4, <2>1, NodeFields DEF NodeStarted
<1>5. CASE NodeUpdated
  BY <1>0, <1>1, <1>5, NodeFields DEF NodeUpdated
<1>6. CASE NodeRead
  <2>1. node'.state = node.state
    BY <1>6, ReadFacts
  <2> QED BY <1>1, <2>1
<1> QED BY <1>1, <1>2, <1>3, <1>4, <1>5, <1>6 DEF NodeStep, ConsumeWriteQueue, EraseWriteQueue

(* A started session is not asked for any more. *)
LEMMA NotAskedAgain ==
  ASSUME TypeOK, AskInv, NEW t \in Threads, NodeStarted(t), NEW s, s = srv[t].req.session
  PROVE  ~Asked(s)'
<1>1. Asks(t)
  BY DEF NodeStarted, Asks
<1>2. ~(\E i \in 1..Len(s2m) : s2m[i].first /\ s2m[i].session = s)
  BY <1>1 DEF AskInv
<1>3. ASSUME NEW u \in Threads, srv'[u].pc \in {"start", "apply"}, srv'[u].req.first,
             srv'[u].req.session = s
      PROVE  FALSE
  <2>1. u # t
    BY <1>3 DEF NodeStarted, Idle
  <2>2. Asks(u) /\ srv[u].req.session = s
    BY <1>3, <2>1 DEF NodeStarted, Asks
  <2> QED BY <1>1, <2>1, <2>2 DEF AskInv
<1>4. s2m' = s2m
  BY DEF NodeStarted
<1> QED BY <1>2, <1>3, <1>4 DEF Asked, Asks

(* A session that is active is not started again. *)
LEMMA StartStep ==
  ASSUME TypeOK, NumberInv, StartInv, OfferInv, AskInv, [Next]_vars, overlap' = {}
  PROVE  StartInv'
<1>0. NodeStep /\ InStep /\ RequestStep /\ (\A u \in Threads : TaskStep(u)) /\ TypeOK'
  BY CleanNodeSteps, InSteps, RequestSteps, TaskSteps, TypeCorrectStep
<1>1. ASSUME node'.reader \in Nat PROVE node'.exists /\ node'.state = "kSlaveBinlogSync"
  <2>0. node \in SlaveNode
    BY DEF TypeOK
  <2>1. CASE node' = node
    BY <1>1, <2>1 DEF StartInv
  <2>2. ~NodeRemoved /\ ~NodeAdded
    <3>1. nextSession \in Nat
      BY DEF TypeOK
    <3>2. node' # NoSlaveNode /\ node' # NewSlaveNode(nextSession)
      BY <1>1, <3>1, NewNodeFields
    <3> QED BY <3>2 DEF NodeRemoved, NodeAdded
  <2>3. ASSUME NEW t \in Threads, NodeStarted(t) PROVE node'.exists /\ node'.state = "kSlaveBinlogSync"
    <3>1. srv[t].req.start \in Nat
      BY DEF TypeOK, Task, Request
    <3> QED BY <2>0, <2>3, <3>1, NodeFields DEF NodeStarted
  <2>4. CASE NodeUpdated
    BY <2>0, <2>4, NodeFields DEF NodeUpdated
  <2>5. CASE NodeRead
    <3>1. PICK k \in Nat :
            /\ node'.reader = IF k = 0 THEN node.reader ELSE node.reader + k
            /\ node'.exists = node.exists /\ node'.state = node.state
            /\ k > 0 => node.reader \in Nat
      BY <2>5, ReadFacts
    <3>2. node.reader \in Nat
      BY <1>1, <3>1
    <3> QED BY <3>1, <3>2 DEF StartInv
  <2> QED BY <1>0, <2>1, <2>2, <2>3, <2>4, <2>5 DEF NodeStep, ConsumeWriteQueue, EraseWriteQueue
<1>2. ASSUME NEW t \in Threads, node'.exists, srv'[t].pc = "fill", srv'[t].req.session = node'.session
      PROVE  node'.state = "kSlaveBinlogSync"
  <2>1. TaskKept(t)
    BY <1>0, <1>2 DEF TaskStep, Idle
  <2>2. CASE srv[t].pc = "fill"
    <3>1. srv[t].req.session = node'.session /\ srv[t].req.session \in Nat
      BY <1>2, <2>1 DEF TaskKept, SameRequest, TypeOK, Task, Request
    <3>2. srv[t].req.session < nextSession
      BY <2>2 DEF NumberInv
    <3>3. ~NodeAdded
      BY <3>1, <3>2, NewNodeFields DEF NodeAdded, TypeOK
    <3>4. node.exists /\ node'.session = node.session
          /\ (node.state = "kSlaveBinlogSync" => node'.state = "kSlaveBinlogSync")
      BY <1>0, <1>2, <3>3, StateSteps
    <3> QED BY <2>2, <3>1, <3>4 DEF StartInv, Fills
  <2>3. CASE srv[t].pc # "fill"
    BY <1>2, <2>1, <2>3 DEF TaskKept
  <2> QED BY <2>2, <2>3
<1>3. ASSUME node'.exists, node'.state = "kSlaveBinlogSync"
      PROVE  (~Offered(node.session) /\ ~Asked(node.session))'
  <2>1. ~NodeAdded
    BY <1>3, NewNodeFields DEF NodeAdded, TypeOK
  <2>2. /\ node.exists /\ node'.session = node.session
        /\ node.state = "kSlaveBinlogSync" \/ \E t \in Threads : NodeStarted(t)
    BY <1>0, <1>3, <2>1, StateSteps
  <2>3. PICK s \in Nat : s = node.session
    BY DEF TypeOK, SlaveNode
  <2>4. CASE node.state = "kSlaveBinlogSync"
    <3>1. ~Offered(s) /\ ~Asked(s)
      BY <2>2, <2>3, <2>4 DEF StartInv
    <3>2. ~Offered(s)' /\ ~Asked(s)'
      BY <2>2, <3>1, UnheardStep
    <3> QED BY <2>2, <2>3, <3>2 DEF Offered, Asked
  <2>5. ASSUME NEW t \in Threads, NodeStarted(t) PROVE ~Offered(s)' /\ ~Asked(s)'
    <3>1. s = srv[t].req.session /\ Asked(s)
      BY <2>3, <2>5 DEF NodeStarted, Asked, Asks
    <3>2. ~Offered(s)
      BY <3>1 DEF OfferInv
    <3>3. ~Offered(s)'
      BY <3>2, <2>5 DEF NodeStarted, Offered
    <3> QED BY <2>5, <3>1, <3>3, NotAskedAgain
  <2> QED BY <2>2, <2>3, <2>4, <2>5 DEF Offered, Asked
<1> QED BY <1>1, <1>2, <1>3 DEF StartInv, Fills

(* The session of an offer that was taken is not offered again. *)
LEMMA OfferTaken ==
  ASSUME TypeOK, OfferInv, slaveIn # <<>>, IsOffer(slaveIn[1]), slaveIn' = Tail(slaveIn),
         NEW s, s = slaveIn[1].session
  PROVE  Offered(s) /\ ~Offered(s)'
<1>1. /\ Len(slaveIn) \in Nat /\ 1 \in 1..Len(slaveIn)
      /\ \A i \in 1..Len(slaveIn') : slaveIn'[i] = slaveIn[i + 1] /\ i + 1 \in 1..Len(slaveIn)
  BY TailFacts DEF TypeOK
<1>2. ASSUME NEW i \in 1..Len(slaveIn'), IsOffer(slaveIn'[i]), slaveIn'[i].session = s PROVE FALSE
  <2>1. i + 1 \in 1..Len(slaveIn) /\ IsOffer(slaveIn[i + 1]) /\ slaveIn[i + 1].session = slaveIn[1].session
    BY <1>1, <1>2
  <2>2. i + 1 = 1
    BY <1>1, <2>1 DEF OfferInv
  <2>3. i \in Nat /\ i >= 1
    OBVIOUS
  <2> QED BY <2>2, <2>3
<1> QED BY <1>1, <1>2 DEF Offered, IsOffer

(* Nothing was read for a session whose number is not used yet. *)
LEMMA NewNotRead ==
  ASSUME TypeOK, ShapeInv, NumberInv, StartInv
  PROVE  NotRead(nextSession)
<1>0. nextSession \in Nat /\ ~(nextSession < nextSession)
  BY DEF TypeOK
<1>1. ASSUME NEW S, NEW c \in Seq(S), Known(c) PROVE ~Carries(c, nextSession)
  <2>1. c # <<>> => 1 \in 1..Len(c)
    BY TailFacts
  <2> QED BY <1>0, <1>1, <2>1 DEF Known, Carries
<1>2. \A i \in 1..Len(slaveIn) : slaveIn[i].chips \in Seq(Chip) /\ Known(slaveIn[i].chips)
  <2>1. \A i \in 1..Len(slaveIn) : slaveIn[i] \in Response
    BY ElementOfSeq DEF TypeOK
  <2> QED BY <2>1 DEF Response, ShapeInv
<1>3. \A i \in 1..Len(outbox) : outbox[i] \in Seq(Chip) /\ Known(outbox[i])
  BY ElementOfSeq DEF TypeOK, ShapeInv
<1>4. wq \in Seq(Chip) /\ Known(wq)
  BY DEF TypeOK, ShapeInv
<1>5. ~Active(nextSession)
  BY <1>0 DEF Active, StartInv, NumberInv
<1> QED BY <1>1, <1>2, <1>3, <1>4, <1>5 DEF NotRead, NotSent, NotTaken

(* Only a new number is offered, and taking an offer removes it. *)
LEMMA OfferStep ==
  ASSUME TypeOK, ShapeInv, NumberInv, StartInv, OfferInv, [Next]_vars, overlap' = {}
  PROVE  OfferInv'
<1>0. NodeStep /\ InStep /\ RequestStep /\ (\A u \in Threads : TaskStep(u)) /\ TypeOK'
  BY CleanNodeSteps, InSteps, RequestSteps, TaskSteps, TypeCorrectStep
<1>a. Len(slaveIn) \in Nat
  BY LenProperties DEF TypeOK
<1>1. ASSUME NEW i \in 1..Len(slaveIn'), NEW j \in 1..Len(slaveIn'),
             IsOffer(slaveIn'[i]), IsOffer(slaveIn'[j]), slaveIn'[i].session = slaveIn'[j].session
      PROVE  i = j
  <2>1. ASSUME NEW d \in {0, 1}, InKept(d) PROVE i = j
    <3>1. /\ i + d \in 1..Len(slaveIn) /\ slaveIn'[i] = slaveIn[i + d]
          /\ j + d \in 1..Len(slaveIn) /\ slaveIn'[j] = slaveIn[j + d]
      BY <1>a, <2>1 DEF InKept
    <3>2. i + d = j + d
      BY <1>1, <3>1 DEF OfferInv
    <3> QED BY <3>2
  <2>2. CASE InSpent
    <3>1. slaveIn[1] \in Response
      BY <1>a, <2>2, ElementOfSeq DEF InSpent, TypeOK
    <3>2. slaveIn'[1].type = "BinlogSync"
      BY <2>2, <3>1 DEF InSpent, Response
    <3>3. i # 1 /\ j # 1
      BY <1>1, <3>2 DEF IsOffer
    <3>4. i \in 2..Len(slaveIn) /\ j \in 2..Len(slaveIn) /\ i \in 1..Len(slaveIn) /\ j \in 1..Len(slaveIn)
      BY <1>a, <2>2, <3>3 DEF InSpent
    <3>5. slaveIn'[i] = slaveIn[i] /\ slaveIn'[j] = slaveIn[j]
      BY <2>2, <3>4 DEF InSpent
    <3> QED BY <1>1, <3>4, <3>5 DEF OfferInv
  <2>3. ASSUME NEW m \in Response, InAdded(m), IsRefusal(m) \/ IsNewOffer(m) \/ IsBatch(m) \/ IsKeepAlive(m)
        PROVE  i = j
    <3>1. \A k \in 1..Len(slaveIn) : slaveIn'[k] = slaveIn[k]
      BY <2>3 DEF InAdded
    <3>2. slaveIn'[Len(slaveIn) + 1] = m
      BY <2>3 DEF InAdded
    <3>3. \A k \in 1..Len(slaveIn') : k \in 1..Len(slaveIn) \/ k = Len(slaveIn) + 1
      BY <1>a, <2>3 DEF InAdded
    <3>4. IsOffer(m) => m.session = nextSession
      BY <2>3 DEF IsRefusal, IsNewOffer, IsBatch, IsKeepAlive, IsOffer
    <3>5. nextSession \in Nat /\ ~(nextSession < nextSession)
      BY DEF TypeOK
    <3>6. \A k \in 1..Len(slaveIn) : IsOffer(slaveIn[k]) => slaveIn[k].session # nextSession
      BY <3>5 DEF NumberInv
    <3>7. CASE i \in 1..Len(slaveIn) /\ j \in 1..Len(slaveIn)
      BY <1>1, <3>1, <3>7 DEF OfferInv
    <3>8. CASE i = Len(slaveIn) + 1 /\ j \in 1..Len(slaveIn)
      BY <1>1, <3>1, <3>2, <3>4, <3>6, <3>8
    <3>9. CASE j = Len(slaveIn) + 1 /\ i \in 1..Len(slaveIn)
      BY <1>1, <3>1, <3>2, <3>4, <3>6, <3>9
    <3> QED BY <3>3, <3>7, <3>8, <3>9
  <2> QED BY <1>0, <2>1, <2>2, <2>3 DEF InStep
<1>2. ASSUME NEW s \in Nat, Offered(s)'
      PROVE  NotRead(s)' /\ ~Asked(s)' /\ (rstate' = "kConnected" => session' # s)
  <2>1. Offered(s) \/ s = nextSession
    BY <1>0, <1>2, OfferedStep
  <2>2. /\ NotRead(s) /\ ~Asked(s) /\ (rstate = "kConnected" => session # s)
    <3>1. CASE Offered(s)
      BY <3>1 DEF OfferInv
    <3>2. CASE s = nextSession
      <4>1. rstate = "kConnected" => session # s
        BY <3>2 DEF TypeOK, NumberInv
      <4> QED BY <3>2, <4>1, NewNotRead, NewNumber
    <3> QED BY <2>1, <3>1, <3>2
  <2>3. NotRead(s)'
    BY <2>2, NotReadStep DEF Asked
  <2>4. ~Asked(s)'
    <3>1. ASSUME NEW r \in Request, RequestAdded(r), r.first, s = r.session PROVE FALSE
      <4>1. slaveIn # <<>> /\ IsOffer(slaveIn[1]) /\ slaveIn' = Tail(slaveIn) /\ s = slaveIn[1].session
        BY <3>1 DEF RequestAdded
      <4> QED BY <1>2, <4>1, OfferTaken
    <3> QED BY <1>0, <2>2, <3>1, AskedStep
  <2>5. rstate' = "kConnected" => session' # s
    <3>1. ASSUME Connects, session' = s PROVE FALSE
      <4>1. slaveIn # <<>> /\ IsOffer(slaveIn[1]) /\ slaveIn' = Tail(slaveIn) /\ s = slaveIn[1].session
        BY <3>1 DEF Connects
      <4> QED BY <1>2, <4>1, OfferTaken
    <3> QED BY <2>2, <3>1, ConnectedSteps
  <2> QED BY <2>3, <2>4, <2>5
<1> QED BY <1>1, <1>2 DEF OfferInv, IsOffer

(* A session is asked for by the slave that takes the only offer of it. *)
LEMMA AskStep ==
  ASSUME TypeOK, ShapeInv, OfferInv, AskInv, [Next]_vars, overlap' = {}
  PROVE  AskInv'
<1>0. NodeStep /\ InStep /\ RequestStep /\ (\A u \in Threads : TaskStep(u)) /\ TypeOK'
  BY CleanNodeSteps, InSteps, RequestSteps, TaskSteps, TypeCorrectStep
<1>a. Len(s2m) \in Nat /\ s2m \in Seq(Request)
  BY LenProperties DEF TypeOK
<1>b. ASSUME NEW r \in Request, RequestAdded(r), r.first PROVE Offered(r.session) /\ ~Asked(r.session) /\ r.session \in Nat
  <2>1. slaveIn # <<>> /\ IsOffer(slaveIn[1]) /\ slaveIn' = Tail(slaveIn) /\ r.session = slaveIn[1].session
    BY <1>b DEF RequestAdded
  <2>2. Offered(r.session) /\ r.session \in Nat
    BY <2>1, OfferTaken DEF Request
  <2> QED BY <2>2 DEF OfferInv
<1>1. ASSUME NEW i \in 1..Len(s2m'), NEW j \in 1..Len(s2m'),
             s2m'[i].first, s2m'[j].first, s2m'[i].session = s2m'[j].session
      PROVE  i = j
  <2>1. ASSUME NEW d \in {0, 1}, RequestsKept(d) PROVE i = j
    <3>1. /\ i + d \in 1..Len(s2m) /\ SameRequest(s2m'[i], s2m[i + d])
          /\ j + d \in 1..Len(s2m) /\ SameRequest(s2m'[j], s2m[j + d])
      BY <1>a, <2>1 DEF RequestsKept
    <3>2. i + d = j + d
      BY <1>1, <3>1 DEF AskInv, SameRequest
    <3> QED BY <3>2
  <2>2. ASSUME NEW r \in Request, RequestAdded(r) PROVE i = j
    <3>1. \A k \in 1..Len(s2m) : s2m'[k] = s2m[k]
      BY <2>2 DEF RequestAdded
    <3>2. s2m'[Len(s2m) + 1] = r
      BY <2>2 DEF RequestAdded
    <3>3. \A k \in 1..Len(s2m') : k \in 1..Len(s2m) \/ k = Len(s2m) + 1
      BY <1>a, <2>2 DEF RequestAdded
    <3>4. r.first => \A k \in 1..Len(s2m) : s2m[k].first => s2m[k].session # r.session
      BY <1>b, <2>2 DEF Asked
    <3>5. CASE i \in 1..Len(s2m) /\ j \in 1..Len(s2m)
      BY <1>1, <3>1, <3>5 DEF AskInv
    <3>6. CASE i = Len(s2m) + 1 /\ j \in 1..Len(s2m)
      BY <1>1, <3>1, <3>2, <3>4, <3>6
    <3>7. CASE j = Len(s2m) + 1 /\ i \in 1..Len(s2m)
      BY <1>1, <3>1, <3>2, <3>4, <3>7
    <3> QED BY <3>3, <3>5, <3>6, <3>7
  <2> QED BY <1>0, <2>1, <2>2 DEF RequestStep
<1>2. ASSUME NEW t \in Threads, srv'[t].pc \in {"start", "apply"}, srv'[t].req.first, ~TaskKept(t)
      PROVE  /\ s2m # <<>> /\ s2m' = Tail(s2m) /\ srv'[t].req = s2m[1] /\ 1 \in 1..Len(s2m)
             /\ \A v \in Threads \ {t} : srv'[v] = srv[v]
             /\ \A i \in 1..Len(s2m') : s2m'[i] = s2m[i + 1] /\ i + 1 \in 1..Len(s2m) /\ i + 1 # 1
  <2>1. /\ s2m # <<>> /\ s2m' = Tail(s2m) /\ srv'[t] = [pc |-> "start", req |-> Head(s2m)]
        /\ \A v \in Threads \ {t} : srv'[v] = srv[v]
    BY <1>0, <1>2 DEF TaskStep, Idle
  <2>2. /\ Head(s2m) = s2m[1] /\ 1 \in 1..Len(s2m)
        /\ \A i \in 1..Len(s2m') : s2m'[i] = s2m[i + 1] /\ i + 1 \in 1..Len(s2m)
    BY <1>a, <2>1, TailFacts
  <2> QED BY <2>1, <2>2
<1>3. ASSUME NEW t \in Threads, srv'[t].pc \in {"start", "apply"}, srv'[t].req.first, TaskKept(t)
      PROVE  Asks(t) /\ srv'[t].req.session = srv[t].req.session
  BY <1>3 DEF TaskKept, SameRequest, Asks
<1>4. ASSUME NEW i \in 1..Len(s2m'), NEW t \in Threads, s2m'[i].first,
             srv'[t].pc \in {"start", "apply"}, srv'[t].req.first
      PROVE  s2m'[i].session # srv'[t].req.session
  <2>1. CASE ~TaskKept(t)
    <3>1. /\ srv'[t].req = s2m[1] /\ 1 \in 1..Len(s2m)
          /\ s2m'[i] = s2m[i + 1] /\ i + 1 \in 1..Len(s2m) /\ i + 1 # 1
      BY <1>2, <1>4, <2>1
    <3> QED BY <1>4, <3>1 DEF AskInv
  <2>2. CASE TaskKept(t)
    <3>1. Asks(t) /\ srv'[t].req.session = srv[t].req.session
      BY <1>3, <1>4, <2>2
    <3>2. ASSUME NEW d \in {0, 1}, RequestsKept(d) PROVE s2m'[i].session # srv[t].req.session
      <4>1. i + d \in 1..Len(s2m) /\ SameRequest(s2m'[i], s2m[i + d])
        BY <1>a, <3>2 DEF RequestsKept
      <4> QED BY <1>4, <3>1, <4>1 DEF AskInv, SameRequest
    <3>3. ASSUME NEW r \in Request, RequestAdded(r) PROVE s2m'[i].session # srv[t].req.session
      <4>1. CASE i \in 1..Len(s2m)
        <5>1. s2m'[i] = s2m[i]
          BY <3>3, <4>1 DEF RequestAdded
        <5> QED BY <1>4, <3>1, <4>1, <5>1 DEF AskInv
      <4>2. CASE i = Len(s2m) + 1
        <5>1. s2m'[i] = r
          BY <3>3, <4>2 DEF RequestAdded
        <5> QED BY <1>4, <1>b, <3>1, <3>3, <5>1 DEF Asked
      <4> QED BY <1>a, <3>3, <4>1, <4>2 DEF RequestAdded
    <3> QED BY <1>0, <3>1, <3>2, <3>3 DEF RequestStep
  <2> QED BY <2>1, <2>2
<1>5. ASSUME NEW t \in Threads, NEW u \in Threads, srv'[t].pc \in {"start", "apply"}, srv'[t].req.first,
             srv'[u].pc \in {"start", "apply"}, srv'[u].req.first, srv'[t].req.session = srv'[u].req.session
      PROVE  t = u
  <2>1. ASSUME NEW v \in Threads, NEW w \in Threads, v # w, ~TaskKept(v), srv'[v].pc \in {"start", "apply"}, srv'[v].req.first,
               srv'[w].pc \in {"start", "apply"}, srv'[w].req.first
        PROVE  srv'[v].req.session # srv'[w].req.session
    <3>1. srv'[v].req = s2m[1] /\ 1 \in 1..Len(s2m) /\ srv'[w] = srv[w]
      BY <1>2, <2>1
    <3>2. Asks(w)
      BY <2>1, <3>1 DEF Asks
    <3> QED BY <2>1, <3>1, <3>2 DEF AskInv
  <2>2. CASE TaskKept(t) /\ TaskKept(u)
    BY <1>3, <1>5, <2>2 DEF AskInv
  <2> QED BY <1>5, <2>1, <2>2
<1>6. ASSUME NEW s \in Nat, Asked(s)' PROVE NotRead(s)'
  <2>1. Asked(s) \/ Offered(s)
    BY <1>0, <1>6, <1>b, AskedStep
  <2>2. NotRead(s)
    BY <2>1 DEF AskInv, OfferInv
  <2>3. ASSUME NEW t \in Threads, NodeStarted(t), srv[t].req.session = s PROVE FALSE
    BY <1>6, <2>3, NotAskedAgain
  <2> QED BY <2>2, <2>3, NotReadStep
<1> QED BY <1>1, <1>4, <1>5, <1>6 DEF AskInv, Asks

-----------------------------------------------------------------------------
(* ConnectedInv *)

(* The slave's binlog grows by the first record of the first message. *)
RecordWritten ==
  /\ WriteBinlogRecord /\ InSpent /\ rstate' = rstate
  /\ 1 \in 1..Len(slaveIn) /\ Carries(slaveIn[1].chips, session)
  /\ slog' = Append(slog, slaveIn[1].chips[1].off)

(* Only WriteBinlogRecord adds to the slave's binlog. *)
LEMMA SlogSteps ==
  ASSUME TypeOK, [Next]_vars
  PROVE  slog' = slog \/ RecordWritten
<1> USE DEF masterVars, auxVars, netVars, slaveVars, ghostVars
<1>1. CASE WriteBinlogRecord /\ slog' # slog
  <2>1. slaveIn' # Tail(slaveIn)
    <3>1. slaveIn \in Seq(Response) /\ slaveIn # <<>> /\ Head(slaveIn).chips # <<>>
      BY <1>1 DEF WriteBinlogRecord, TypeOK
    <3>2. /\ Len(slaveIn) \in Nat /\ Len(Tail(slaveIn)) = Len(slaveIn) - 1
          /\ Tail(slaveIn) \in Seq(Response)
      BY <3>1, TailFacts
    <3> DEFINE rest == [Head(slaveIn) EXCEPT !.chips = Tail(@)]
    <3>3. slaveIn' = <<rest>> \o Tail(slaveIn)
      BY <1>1 DEF WriteBinlogRecord
    <3>4. rest \in Response
      <4>1. Head(slaveIn) \in Response
        BY <3>1, TailFacts
      <4>2. Head(slaveIn).chips \in Seq(Chip)
        BY <4>1 DEF Response
      <4>3. Tail(Head(slaveIn).chips) \in Seq(Chip)
        BY <3>1, <4>2, TailFacts
      <4> QED BY <4>1, <4>3 DEF Response
    <3> HIDE DEF rest
    <3>5. <<rest>> \in Seq(Response) /\ Len(<<rest>>) = 1
      BY <3>4
    <3>6. Len(slaveIn') = 1 + Len(Tail(slaveIn))
      BY <3>2, <3>3, <3>5, ConcatFacts
    <3>7. Len(slaveIn') # Len(Tail(slaveIn))
      <4>1. PICK n \in Nat : n = Len(Tail(slaveIn))
        BY <3>2, LenProperties
      <4>2. n + 1 # n
        OBVIOUS
      <4> QED BY <3>6, <4>1, <4>2
    <3> QED BY <3>7, Zenon
  <2>2. /\ InSpent
        /\ slog' = IF slaveIn[1].chips[1].off = 0 THEN slog ELSE Append(slog, slaveIn[1].chips[1].off)
        /\ rstate' = rstate
    BY <1>1, <2>1, RecordTaken
  <2>3. slaveIn[1] \in Response /\ 1 \in 1..Len(slaveIn)
    BY <2>2, TailFacts DEF TypeOK, InSpent
  <2>4. slaveIn[1].chips \in Seq(Chip) /\ slaveIn[1].chips # <<>> /\ slaveIn[1].chips[1].session = session
    BY <2>2, <2>3 DEF InSpent, Response
  <2>5. slaveIn[1].chips[1] \in Chip
    BY <2>4, TailFacts
  <2>6. slaveIn[1].chips[1].off \in Nat /\ slaveIn[1].chips[1].off # 0
    BY <1>1, <2>2, <2>5 DEF Chip
  <2> QED BY <1>1, <2>2, <2>3, <2>4, <2>6 DEF RecordWritten, Carries
<1>2. slog' = slog \/ WriteBinlogRecord
  BY DEF Next, vars, ProposeLog, ServerThread, DealMessage, HandleTrySync, TrySyncAddNode,
         TrySyncGetSession, CheckSessionId, ActivateSlaveBinlogSync, UpdateSyncBinlogStatus,
         SyncBinlogToWq, AuxiliaryThread, WakeUpSlaveBinlogSync, EraseWriteQueue, ConsumeWriteQueue,
         SendSlaveBinlogChips, SendKeepAlive, MasterTimeout, Network, LinkDown, MasterFdClosed,
         SlaveFdClosed, SlaveFdTimeout, MetaSync, SlaveTimeout, SendTrySync, BinlogWorker,
         SendBinlogSyncAck, HandleTrySyncResponse
<1> QED BY <1>1, <1>2

(* A connected slave does not lose its connection data. *)
LEMMA MetaSteps ==
  ASSUME [Next]_vars, rstate' = "kConnected", ~metaDone'
  PROVE  ~metaDone
  BY DEF Next, vars, ProposeLog, ServerThread, DealMessage, HandleTrySync, TrySyncAddNode,
         TrySyncGetSession, CheckSessionId, ActivateSlaveBinlogSync, UpdateSyncBinlogStatus,
         SyncBinlogToWq, AuxiliaryThread, WakeUpSlaveBinlogSync, EraseWriteQueue, ConsumeWriteQueue,
         SendSlaveBinlogChips, SendKeepAlive, MasterTimeout, Network, LinkDown, MasterFdClosed,
         SlaveFdClosed, SlaveFdTimeout, MetaSync, SlaveTimeout, SendTrySync, BinlogWorker,
         SendBinlogSyncAck, HandleTrySyncResponse, WriteBinlogRecord, Deactivate,
         masterVars, auxVars, netVars, slaveVars, ghostVars

(* A slave asks for the records behind its binlog, and gets none before. *)
LEMMA ConnectedStep ==
  ASSUME TypeOK, ShapeInv, ConnInv, OfferInv, AskInv, ConnectedInv, [Next]_vars, overlap' = {}
  PROVE  ConnectedInv'
<1>0. NodeStep /\ InStep /\ RequestStep /\ (\A u \in Threads : TaskStep(u)) /\ TypeOK'
  BY CleanNodeSteps, InSteps, RequestSteps, TaskSteps, TypeCorrectStep
<1>a. Len(s2m) \in Nat /\ s2m \in Seq(Request)
  BY LenProperties DEF TypeOK
<1> SUFFICES ASSUME rstate' = "kConnected" PROVE ConnectedInv'
  BY DEF ConnectedInv
<1>1. PICK s \in Nat : s = session'
  BY <1>0 DEF TypeOK
<1>2. CASE Connects \/ (rstate = "kConnected" /\ session' = session)
  <2>1. ASSUME Connects PROVE Offered(s) /\ NotRead(s) /\ ~Asked(s)
    <3>1. slaveIn # <<>> /\ IsOffer(slaveIn[1]) /\ slaveIn' = Tail(slaveIn) /\ s = slaveIn[1].session
      BY <1>1, <2>1 DEF Connects
    <3>2. Offered(s)
      BY <3>1, OfferTaken
    <3> QED BY <3>2 DEF OfferInv
  <2>2. ASSUME Asked(s) PROVE rstate = "kConnected" /\ s = session /\ slog' = slog
    <3>1. rstate = "kConnected" /\ s = session
      BY <1>1, <1>2, <2>1, <2>2
    <3>2. NotSent(s)
      BY <2>2 DEF AskInv, NotRead
    <3>3. ~RecordWritten
      BY <3>1, <3>2 DEF RecordWritten, NotSent
    <3> QED BY <3>1, <3>3, SlogSteps
  <2>3. ASSUME NEW i \in 1..Len(s2m'), s2m'[i].first, s2m'[i].session = s
        PROVE  s2m'[i].start = Len(slog')
    <3>1. ASSUME NEW d \in {0, 1}, RequestsKept(d) PROVE s2m'[i].start = Len(slog')
      <4>1. i + d \in 1..Len(s2m) /\ SameRequest(s2m'[i], s2m[i + d])
        BY <1>a, <3>1 DEF RequestsKept
      <4>2. s2m[i + d].first /\ s2m[i + d].session = s /\ s2m'[i].start = s2m[i + d].start
        BY <2>3, <4>1 DEF SameRequest
      <4>3. rstate = "kConnected" /\ s = session /\ slog' = slog
        BY <2>2, <4>1, <4>2 DEF Asked
      <4> QED BY <4>1, <4>2, <4>3 DEF ConnectedInv
    <3>2. ASSUME NEW r \in Request, RequestAdded(r) PROVE s2m'[i].start = Len(slog')
      <4>1. CASE i \in 1..Len(s2m)
        <5>1. s2m'[i] = s2m[i]
          BY <3>2, <4>1 DEF RequestAdded
        <5>2. rstate = "kConnected" /\ s = session /\ slog' = slog
          BY <2>2, <2>3, <4>1, <5>1 DEF Asked
        <5> QED BY <2>3, <4>1, <5>1, <5>2 DEF ConnectedInv
      <4>2. CASE i = Len(s2m) + 1
        <5>1. s2m'[i] = r
          BY <3>2, <4>2 DEF RequestAdded
        <5> QED BY <2>3, <3>2, <5>1 DEF RequestAdded
      <4> QED BY <1>a, <3>2, <4>1, <4>2 DEF RequestAdded
    <3> QED BY <1>0, <3>1, <3>2 DEF RequestStep
  <2>4. ASSUME NEW t \in Threads, srv'[t].pc \in {"start", "apply"}, srv'[t].req.first, srv'[t].req.session = s
        PROVE  srv'[t].req.start = Len(slog')
    <3>1. CASE TaskKept(t)
      <4>1. Asks(t) /\ srv[t].req.session = s /\ srv'[t].req.start = srv[t].req.start
        BY <2>4, <3>1 DEF TaskKept, SameRequest, Asks
      <4>2. rstate = "kConnected" /\ s = session /\ slog' = slog
        BY <2>2, <4>1 DEF Asked
      <4> QED BY <4>1, <4>2 DEF ConnectedInv
    <3>2. CASE s2m # <<>> /\ srv'[t] = [pc |-> "start", req |-> Head(s2m)]
      <4>1. Head(s2m) = s2m[1] /\ 1 \in 1..Len(s2m)
        BY <1>a, <3>2, TailFacts
      <4>2. s2m[1].first /\ s2m[1].session = s /\ srv'[t].req.start = s2m[1].start
        BY <2>4, <3>2, <4>1
      <4>3. rstate = "kConnected" /\ s = session /\ slog' = slog
        BY <2>2, <4>1, <4>2 DEF Asked
      <4> QED BY <4>1, <4>2, <4>3 DEF ConnectedInv
    <3> QED BY <1>0, <2>4, <3>1, <3>2 DEF TaskStep, Idle
  <2>5. ASSUME ~metaDone' PROVE NotRead(s)' /\ ~Asked(s)'
    <3>1. ~metaDone /\ ~link
      BY <2>5, MetaSteps DEF ConnInv
    <3>2. NotRead(s) /\ ~Asked(s)
      BY <1>1, <1>2, <2>1, <3>1 DEF ConnectedInv
    <3>3. NotRead(s)'
      BY <3>2, NotReadStep DEF Asked
    <3>4. ~Asked(s)'
      BY <1>0, <3>1, <3>2, AskedStep DEF RequestAdded
    <3> QED BY <3>3, <3>4
  <2>6. ~metaDone' => (NotRead(session) /\ ~Asked(session))'
    BY <1>1, <2>5 DEF NotRead, NotSent, NotTaken, Carries, Active, Asked
  <2> QED BY <1>1, <2>3, <2>4, <2>6 DEF ConnectedInv, Asks
<1> QED BY <1>2, ConnectedSteps

-----------------------------------------------------------------------------
(* StreamInv: the messages at the slave *)

(* Nothing of the session is at the slave. *)
LEMMA ArriveNothing ==
  ASSUME TypeOK', NotSent(session)'
  PROVE  \E e \in [0..Len(slaveIn') -> Nat] : Arrives(e)' /\ e[Len(slaveIn')] = Len(slog')
<1>1. Len(slog') \in Nat /\ Len(slaveIn') \in Nat
  BY LenProperties DEF TypeOK
<1> DEFINE e == [i \in 0..Len(slaveIn') |-> Len(slog')]
<1>2. e \in [0..Len(slaveIn') -> Nat] /\ e[0] = Len(slog') /\ e[Len(slaveIn')] = Len(slog')
  BY <1>1
<1>3. \A i \in 0..Len(slaveIn') : e[i] = Len(slog')
  OBVIOUS
<1> HIDE DEF e
<1>4. Rises(e, Len(slaveIn'))
  BY <1>1, <1>2, <1>3 DEF Rises
<1>5. ASSUME NEW i \in 1..Len(slaveIn') PROVE Follows(slaveIn'[i].chips, e[i - 1], e[i], session')
  <2>1. i \in 0..Len(slaveIn') /\ i - 1 \in 0..Len(slaveIn')
    BY <1>1
  <2>2. ~Carries(slaveIn'[i].chips, session')
    BY DEF NotSent, Carries
  <2> QED BY <1>3, <2>1, <2>2 DEF Follows
<1>6. PICK h \in [0..Len(slaveIn') -> Nat] : h = e
  BY <1>2
<1>7. Arrives(h)'
  BY <1>2, <1>4, <1>5, <1>6 DEF Arrives, Rises, Follows, Carries
<1> QED BY <1>2, <1>6, <1>7

(* The messages are the same, or the last ones are lost. *)
LEMMA ArriveKept ==
  ASSUME TypeOK, TypeOK', InKept(0), slog' = slog, session' = session,
         NEW e \in [0..Len(slaveIn) -> Nat], Arrives(e)
  PROVE  \E h \in [0..Len(slaveIn') -> Nat] :
           Arrives(h)' /\ (Len(slaveIn') = Len(slaveIn) => h[Len(slaveIn')] = e[Len(slaveIn)])
<1>1. Len(slaveIn') \in Nat /\ Len(slaveIn) \in Nat /\ Len(slaveIn') <= Len(slaveIn)
  <2>1. Len(slaveIn') \in Nat /\ Len(slaveIn) \in Nat
    BY LenProperties DEF TypeOK
  <2> QED BY <2>1 DEF InKept
<1> DEFINE h == [i \in 0..Len(slaveIn') |-> e[i]]
<1>2. \A i \in 0..Len(slaveIn') : h[i] = e[i] /\ i \in 0..Len(slaveIn)
  BY <1>1
<1>3. h \in [0..Len(slaveIn') -> Nat]
  BY <1>1
<1> HIDE DEF h
<1>4. Rises(h, Len(slaveIn')) /\ h[0] = Len(slog)
  <2>1. \A i, j \in 0..Len(slaveIn) : i <= j => e[i] <= e[j]
    BY DEF Arrives, Rises
  <2>2. 0 \in 0..Len(slaveIn') /\ e[0] = Len(slog)
    BY <1>1 DEF Arrives
  <2> QED BY <1>2, <1>3, <2>1, <2>2 DEF Rises
<1>5. ASSUME NEW i \in 1..Len(slaveIn') PROVE Follows(slaveIn'[i].chips, h[i - 1], h[i], session)
  <2>1. i \in 0..Len(slaveIn') /\ i - 1 \in 0..Len(slaveIn') /\ i \in 1..Len(slaveIn)
    BY <1>1
  <2>2. slaveIn'[i] = slaveIn[i]
    BY <1>1 DEF InKept
  <2>3. Follows(slaveIn[i].chips, e[i - 1], e[i], session)
    BY <2>1 DEF Arrives
  <2> QED BY <1>2, <2>1, <2>2, <2>3
<1>6. PICK k \in [0..Len(slaveIn') -> Nat] : k = h
  BY <1>3
<1>7. Arrives(k)'
  BY <1>4, <1>5, <1>6 DEF Arrives, Rises, Follows, Carries
<1>8. Len(slaveIn') = Len(slaveIn) => k[Len(slaveIn')] = e[Len(slaveIn)]
  BY <1>1, <1>2, <1>6
<1> QED BY <1>7, <1>8

(* A message without records is taken away. *)
LEMMA ArriveTail ==
  ASSUME TypeOK, TypeOK', slaveIn # <<>>, slaveIn[1].chips = <<>>, slaveIn' = Tail(slaveIn),
         slog' = slog, session' = session, NEW e \in [0..Len(slaveIn) -> Nat], Arrives(e)
  PROVE  \E h \in [0..Len(slaveIn') -> Nat] : Arrives(h)' /\ h[Len(slaveIn')] = e[Len(slaveIn)]
<1>1. /\ Len(slaveIn) \in Nat /\ Len(slaveIn') \in Nat /\ Len(slaveIn') = Len(slaveIn) - 1
      /\ \A i \in 1..Len(slaveIn') : slaveIn'[i] = slaveIn[i + 1] /\ i + 1 \in 1..Len(slaveIn)
      /\ 1 \in 1..Len(slaveIn)
  <2>1. Len(slaveIn') \in Nat
    BY LenProperties DEF TypeOK
  <2> QED BY <2>1, TailFacts DEF TypeOK
<1> DEFINE h == [i \in 0..Len(slaveIn') |-> e[i + 1]]
<1>2. \A i \in 0..Len(slaveIn') : h[i] = e[i + 1] /\ i + 1 \in 0..Len(slaveIn)
  BY <1>1
<1>3. h \in [0..Len(slaveIn') -> Nat]
  BY <1>1
<1> HIDE DEF h
<1>4. Rises(h, Len(slaveIn')) /\ h[0] = Len(slog)
  <2>1. \A i, j \in 0..Len(slaveIn) : i <= j => e[i] <= e[j]
    BY DEF Arrives, Rises
  <2>2. 0 \in 0..Len(slaveIn') /\ e[0] = Len(slog)
    BY <1>1 DEF Arrives
  <2>3. Follows(slaveIn[1].chips, e[1 - 1], e[1], session)
    BY <1>1 DEF Arrives
  <2>4. e[1] = e[0]
    BY <2>3 DEF Follows, Carries
  <2>5. ASSUME NEW i \in 0..Len(slaveIn'), NEW j \in 0..Len(slaveIn'), i <= j PROVE h[i] <= h[j]
    <3>1. i + 1 <= j + 1
      BY <2>5
    <3> QED BY <1>2, <2>1, <3>1
  <2> QED BY <1>2, <1>3, <2>2, <2>4, <2>5 DEF Rises
<1>5. ASSUME NEW i \in 1..Len(slaveIn') PROVE Follows(slaveIn'[i].chips, h[i - 1], h[i], session)
  <2>1. i \in 0..Len(slaveIn') /\ i - 1 \in 0..Len(slaveIn') /\ i + 1 \in 1..Len(slaveIn)
        /\ (i - 1) + 1 = i /\ (i + 1) - 1 = i
    BY <1>1
  <2>2. slaveIn'[i] = slaveIn[i + 1]
    BY <1>1
  <2>3. Follows(slaveIn[i + 1].chips, e[(i + 1) - 1], e[i + 1], session)
    BY <2>1 DEF Arrives
  <2>4. h[i - 1] = e[i] /\ h[i] = e[i + 1]
    BY <1>2, <2>1
  <2> QED BY <2>1, <2>2, <2>3, <2>4
<1>6. PICK k \in [0..Len(slaveIn') -> Nat] : k = h
  BY <1>3
<1>7. Arrives(k)'
  BY <1>4, <1>5, <1>6 DEF Arrives, Rises, Follows, Carries
<1>8. k[Len(slaveIn')] = e[Len(slaveIn)]
  <2>1. Len(slaveIn') \in 0..Len(slaveIn') /\ Len(slaveIn') + 1 = Len(slaveIn)
    BY <1>1
  <2> QED BY <1>2, <1>6, <2>1
<1> QED BY <1>7, <1>8

(* A message arrives. *)
LEMMA ArriveMore ==
  ASSUME TypeOK, TypeOK', NEW m \in Response, InAdded(m), slog' = slog, session' = session,
         NEW e \in [0..Len(slaveIn) -> Nat], Arrives(e),
         NEW x \in Nat, e[Len(slaveIn)] <= x, Follows(m.chips, e[Len(slaveIn)], x, session)
  PROVE  \E h \in [0..Len(slaveIn') -> Nat] : Arrives(h)' /\ h[Len(slaveIn')] = x
<1>1. /\ Len(slaveIn) \in Nat /\ Len(slaveIn') = Len(slaveIn) + 1
      /\ \A i \in 1..Len(slaveIn) : slaveIn'[i] = slaveIn[i]
      /\ slaveIn'[Len(slaveIn) + 1] = m
  <2>1. Len(slaveIn) \in Nat
    BY LenProperties DEF TypeOK
  <2> QED BY <2>1 DEF InAdded
<1>a. Len(slaveIn') \in Nat /\ \A i \in 0..Len(slaveIn') : i # Len(slaveIn') => i \in 0..Len(slaveIn)
  BY <1>1
<1> DEFINE h == [i \in 0..Len(slaveIn') |-> IF i = Len(slaveIn') THEN x ELSE e[i]]
<1>2. /\ \A i \in 0..Len(slaveIn) : h[i] = e[i] /\ i \in 0..Len(slaveIn')
      /\ h[Len(slaveIn')] = x
  BY <1>1
<1>3. h \in [0..Len(slaveIn') -> Nat]
  BY <1>a
<1> HIDE DEF h
<1>4. Rises(h, Len(slaveIn')) /\ h[0] = Len(slog)
  <2>1. \A i, j \in 0..Len(slaveIn) : i <= j => e[i] <= e[j]
    BY DEF Arrives, Rises
  <2>2. 0 \in 0..Len(slaveIn) /\ e[0] = Len(slog) /\ Len(slaveIn) \in 0..Len(slaveIn)
    BY <1>1 DEF Arrives
  <2>3. \A i \in 0..Len(slaveIn) : e[i] <= x
    <3>1. \A i \in 0..Len(slaveIn) : e[i] <= e[Len(slaveIn)]
      BY <2>1, <2>2
    <3>2. \A i \in 0..Len(slaveIn) : e[i] \in Nat
      OBVIOUS
    <3> QED BY <2>2, <3>1, <3>2
  <2>5. ASSUME NEW i \in 0..Len(slaveIn'), NEW j \in 0..Len(slaveIn'), i <= j PROVE h[i] <= h[j]
    <3>1. CASE j # Len(slaveIn')
      <4>1. i # Len(slaveIn')
        BY <1>a, <2>5, <3>1
      <4> QED BY <1>2, <1>a, <2>1, <2>5, <3>1, <4>1
    <3>2. CASE j = Len(slaveIn') /\ i # Len(slaveIn')
      BY <1>2, <1>a, <2>3, <3>2
    <3>3. CASE j = Len(slaveIn') /\ i = Len(slaveIn')
      BY <1>2, <3>3
    <3> QED BY <3>1, <3>2, <3>3
  <2> QED BY <1>2, <1>3, <2>2, <2>5 DEF Rises
<1>5. ASSUME NEW i \in 1..Len(slaveIn') PROVE Follows(slaveIn'[i].chips, h[i - 1], h[i], session)
  <2>1. CASE i \in 1..Len(slaveIn)
    <3>1. i \in 0..Len(slaveIn) /\ i - 1 \in 0..Len(slaveIn)
      BY <1>1, <2>1
    <3>2. Follows(slaveIn[i].chips, e[i - 1], e[i], session)
      BY <2>1 DEF Arrives
    <3> QED BY <1>1, <1>2, <2>1, <3>1, <3>2
  <2>2. CASE i = Len(slaveIn')
    <3>1. i - 1 = Len(slaveIn) /\ i - 1 \in 0..Len(slaveIn) /\ i = Len(slaveIn) + 1
      BY <1>1, <2>2
    <3> QED BY <1>1, <1>2, <2>2, <3>1
  <2> QED BY <1>1, <2>1, <2>2
<1>6. PICK k \in [0..Len(slaveIn') -> Nat] : k = h
  BY <1>3
<1>7. Arrives(k)'
  BY <1>4, <1>5, <1>6 DEF Arrives, Rises, Follows, Carries
<1> QED BY <1>2, <1>6, <1>7

(* A record is taken from a batch that follows x. *)
LEMMA FollowsTail ==
  ASSUME NEW c \in Seq(Chip), c # <<>>, OneSession(c), NEW x \in Nat, NEW y \in Nat, NEW s,
         Follows(c, x, y, s)
  PROVE  /\ Carries(c, s) => c[1].off = x + 1 /\ x + 1 <= y /\ Follows(Tail(c), x + 1, y, s)
         /\ ~Carries(c, s) => Follows(Tail(c), x, y, s)
<1>1. /\ Len(c) \in Nat /\ Len(c) >= 1 /\ Len(Tail(c)) = Len(c) - 1 /\ Tail(c) \in Seq(Chip)
      /\ \A i \in 1..Len(Tail(c)) : Tail(c)[i] = c[i + 1] /\ i + 1 \in 1..Len(c)
  BY TailFacts
<1>2. ASSUME Carries(c, s)
      PROVE  c[1].off = x + 1 /\ x + 1 <= y /\ Follows(Tail(c), x + 1, y, s)
  <2>1. (\A p \in 1..Len(c) : c[p].off = x + p) /\ y = x + Len(c)
    BY <1>2 DEF Follows
  <2>2. c[1].off = x + 1 /\ x + 1 <= y
    <3>1. 1 \in 1..Len(c)
      BY <1>1
    <3> QED BY <1>1, <2>1, <3>1
  <2>3. CASE Tail(c) = <<>>
    <3>1. Len(Tail(c)) = 0
      BY <2>3, EmptySeq
    <3>2. y = x + 1
      <4>1. Len(c) - 1 = 0 /\ Len(c) \in Nat
        BY <1>1, <3>1
      <4>2. Len(c) = 1
        BY <4>1
      <4> QED BY <2>1, <4>2
    <3> QED BY <2>2, <2>3, <3>2 DEF Follows, Carries
  <2>4. CASE Tail(c) # <<>>
    <3>1. 1 \in 1..Len(Tail(c))
      BY <1>1, <2>4, TailFacts
    <3>2. Tail(c)[1] = c[1 + 1] /\ 1 + 1 \in 1..Len(c)
      BY <1>1, <3>1
    <3>3. Carries(Tail(c), s)
      BY <1>2, <2>4, <3>2 DEF Carries, OneSession
    <3>4. ASSUME NEW p \in 1..Len(Tail(c)) PROVE Tail(c)[p].off = (x + 1) + p
      <4>1. Tail(c)[p] = c[p + 1] /\ p + 1 \in 1..Len(c)
        BY <1>1
      <4>2. c[p + 1].off = x + (p + 1)
        BY <2>1, <4>1
      <4> QED BY <1>1, <4>1, <4>2
    <3>5. y = (x + 1) + Len(Tail(c))
      BY <1>1, <2>1
    <3> QED BY <2>2, <3>3, <3>4, <3>5 DEF Follows
  <2> QED BY <2>3, <2>4
<1>3. ASSUME ~Carries(c, s) PROVE Follows(Tail(c), x, y, s)
  <2>1. ~Carries(Tail(c), s)
    BY <1>3, CarriedTail
  <2> QED BY <1>3, <2>1 DEF Follows
<1> QED BY <1>2, <1>3

(* A record of the session is taken from the first message: it is the one     *)
(* that follows the slave's binlog.                                           *)
LEMMA ArriveSpent ==
  ASSUME TypeOK, TypeOK', ShapeInv, InSpent, session' = session,
         NEW e \in [0..Len(slaveIn) -> Nat], Arrives(e),
         slog' = IF slaveIn[1].chips[1].off = 0 THEN slog ELSE Append(slog, slaveIn[1].chips[1].off)
  PROVE  /\ \E h \in [0..Len(slaveIn') -> Nat] : Arrives(h)' /\ h[Len(slaveIn')] = e[Len(slaveIn)]
         /\ slog' = slog \/ (slog' = Append(slog, Len(slog) + 1) /\ Len(slog) + 1 <= producer)
<1>1. /\ Len(slaveIn) \in Nat /\ Len(slaveIn) >= 1 /\ Len(slaveIn') = Len(slaveIn)
      /\ 1 \in 1..Len(slaveIn) /\ slaveIn[1] \in Response
  BY TailFacts DEF InSpent, TypeOK
<1>2. Len(slog) \in Nat /\ slog \in Seq(Nat)
  BY LenProperties DEF TypeOK
<1> DEFINE c == slaveIn[1].chips
           x == IF Carries(c, session) THEN Len(slog) + 1 ELSE Len(slog)
<1>3. c \in Seq(Chip) /\ c # <<>> /\ c[1].session = session /\ slaveIn'[1].chips = Tail(c)
  BY <1>1 DEF InSpent, Response
<1>4. OneSession(c) /\ Known(c)
  BY <1>1 DEF ShapeInv
<1>5. c[1] \in Chip /\ 1 \in 1..Len(c)
  BY <1>3, TailFacts
<1>6. c[1].off \in Nat
  BY <1>5 DEF Chip
<1>7. Follows(c, Len(slog), e[1], session) /\ e[0] = Len(slog) /\ e[1] \in Nat /\ Len(slog) <= e[1]
  <2>1. Follows(c, e[1 - 1], e[1], session) /\ e[0] = Len(slog)
    BY <1>1 DEF Arrives
  <2>2. 0 \in 0..Len(slaveIn) /\ 1 \in 0..Len(slaveIn) /\ 0 <= 1
    BY <1>1
  <2>3. e[0] <= e[1]
    BY <2>2 DEF Arrives, Rises
  <2>4. 1 - 1 = 0
    OBVIOUS
  <2> QED BY <2>1, <2>2, <2>3, <2>4
<1>8. Carries(c, session) <=> c[1].off # 0
  BY <1>3, <1>6 DEF Carries
<1>9. /\ Carries(c, session) => c[1].off = Len(slog) + 1 /\ Len(slog) + 1 <= e[1]
      /\ Follows(Tail(c), x, e[1], session)
  BY <1>2, <1>3, <1>4, <1>7, FollowsTail
<1>10. x \in Nat /\ x <= e[1] /\ Len(slog) <= x
  BY <1>2, <1>7, <1>9
<1>11. slog' = slog \/ (slog' = Append(slog, Len(slog) + 1) /\ Len(slog) + 1 <= producer)
  BY <1>4, <1>5, <1>8, <1>9 DEF Known
<1>12. Len(slog') = x
  <2>1. CASE Carries(c, session)
    <3>1. slog' = Append(slog, Len(slog) + 1)
      BY <1>8, <1>9, <2>1
    <3>2. Len(slog) + 1 \in Nat
      BY <1>2
    <3> QED BY <1>2, <2>1, <3>1, <3>2, AppendFacts
  <2>2. CASE ~Carries(c, session)
    BY <1>8, <2>2
  <2> QED BY <2>1, <2>2
<1> HIDE DEF c, x
<1> DEFINE h == [i \in 0..Len(slaveIn) |-> IF i = 0 THEN x ELSE e[i]]
<1>13. h[0] = x /\ \A i \in 1..Len(slaveIn) : h[i] = e[i]
  BY <1>1
<1>14. h \in [0..Len(slaveIn) -> Nat]
  BY <1>1, <1>10
<1> HIDE DEF h
<1>15. Rises(h, Len(slaveIn))
  <2>1. \A i, j \in 0..Len(slaveIn) : i <= j => e[i] <= e[j]
    BY DEF Arrives, Rises
  <2>2. ASSUME NEW i \in 0..Len(slaveIn), NEW j \in 0..Len(slaveIn), i <= j PROVE h[i] <= h[j]
    <3>1. CASE j = 0
      <4>1. i = 0
        BY <2>2, <3>1
      <4> QED BY <1>10, <1>13, <3>1, <4>1
    <3>2. CASE i # 0 /\ j # 0
      <4>1. i \in 1..Len(slaveIn) /\ j \in 1..Len(slaveIn)
        BY <1>1, <3>2
      <4> QED BY <1>13, <2>1, <2>2, <4>1
    <3>3. CASE i = 0 /\ j # 0
      <4>1. j \in 1..Len(slaveIn) /\ 1 <= j /\ 1 \in 0..Len(slaveIn)
        BY <1>1, <3>3
      <4>2. e[1] <= e[j] /\ e[j] \in Nat
        BY <2>1, <4>1
      <4>3. x <= e[j]
        BY <1>7, <1>10, <4>2
      <4> QED BY <1>13, <3>3, <4>1, <4>3
    <3> QED BY <3>1, <3>2, <3>3
  <2> QED BY <1>14, <2>2 DEF Rises
<1>16. ASSUME NEW i \in 1..Len(slaveIn) PROVE Follows(slaveIn'[i].chips, h[i - 1], h[i], session)
  <2>1. CASE i = 1
    <3>1. i - 1 = 0
      BY <2>1
    <3> QED BY <1>1, <1>3, <1>9, <1>13, <2>1, <3>1
  <2>2. CASE i # 1
    <3>1. i \in 2..Len(slaveIn) /\ i - 1 \in 1..Len(slaveIn)
      BY <1>1, <2>2
    <3>2. slaveIn'[i] = slaveIn[i]
      BY <3>1 DEF InSpent
    <3>3. Follows(slaveIn[i].chips, e[i - 1], e[i], session)
      BY DEF Arrives
    <3> QED BY <1>13, <3>1, <3>2, <3>3
  <2> QED BY <2>1, <2>2
<1>17. PICK k \in [0..Len(slaveIn') -> Nat] : k = h
  BY <1>1, <1>14
<1>18. Arrives(k)'
  BY <1>1, <1>12, <1>13, <1>15, <1>16, <1>17 DEF Arrives, Rises, Follows, Carries
<1>19. k[Len(slaveIn')] = e[Len(slaveIn)]
  <2>1. Len(slaveIn) \in 1..Len(slaveIn)
    BY <1>1
  <2> QED BY <1>1, <1>13, <1>17, <2>1
<1> QED BY <1>11, <1>18, <1>19

-----------------------------------------------------------------------------
(* StreamInv: the batches and the queue of the master *)

(* A slave that has acknowledged all it holds acknowledges nothing more. *)
LEMMA NoUpdate ==
  ASSUME AckedInv, StartInv, Exact(node, producer), node.reader \in Nat, node.acked = Len(slog)
  PROVE  ~NodeUpdated
<1> SUFFICES ASSUME NEW t \in Threads, NEW i \in DOMAIN node.win.items, NEW j \in DOMAIN node.win.items,
                    IsRange(node.win, srv[t].req.start, srv[t].req.end, i, j)
             PROVE  FALSE
  BY DEF NodeUpdated
<1>1. srv[t].req.end <= Len(slog) /\ srv[t].req.end \in Nat /\ Len(slog) \in Nat
  BY LenProperties DEF AckedInv, HonestRequests, HonestRequest, TypeOK, Task, Request
<1>2. j \in 1..Len(node.win.items) /\ Len(node.win.items) \in Nat
  BY LenProperties DEF AckedInv, TypeOK, SlaveNode, Window
<1>3. node.win.items[j].off = node.acked + j
  BY <1>2, NewNodeFields DEF Exact, StartInv
<1>4. node.win.items[j].off = srv[t].req.end
  BY DEF IsRange
<1> QED BY <1>1, <1>2, <1>3, <1>4

(* An active session is not started again. *)
LEMMA NoStart ==
  ASSUME TypeOK, AskInv, node.reader \in Nat, NEW t \in Threads
  PROVE  ~NodeStarted(t)
<1> SUFFICES ASSUME NodeStarted(t) PROVE FALSE
  OBVIOUS
<1>1. node.session \in Nat
  BY DEF TypeOK, SlaveNode
<1>2. Asked(node.session)
  BY DEF NodeStarted, Asked, Asks
<1>3. ~Active(node.session)
  BY <1>1, <1>2 DEF AskInv, NotRead
<1> QED BY <1>3 DEF Active

(* A node is filled again only after an acknowledgement or its start. *)
LEMMA FillsStep ==
  ASSUME \A u \in Threads : TaskStep(u), ~NodeUpdated, NEW t \in Threads, NEW s, ~NodeStarted(t), Fills(t, s)'
  PROVE  Fills(t, s)
<1>1. srv'[t].pc = "fill" /\ srv'[t].req.session = s
  BY DEF Fills
<1>2. TaskKept(t)
  BY <1>1 DEF TaskStep, Idle
<1> QED BY <1>1, <1>2 DEF TaskKept, SameRequest, Fills

(* The steps of an active node. *)
LEMMA ActiveSteps ==
  ASSUME TypeOK, StartInv, AskInv, NodeStep, NEW s, Active(s)
  PROVE  \/ NodeRemoved
         \/ Active(s)' /\ node'.acked = node.acked /\ node'.reader = node.reader /\ wq' = wq
         \/ Active(s)' /\ node'.reader = node.reader /\ NodeUpdated /\ wq' = wq
         \/ Active(s)' /\ node'.acked = node.acked /\ NodeRead
         \/ Active(s)' /\ node' = node /\ (ConsumeWriteQueue \/ EraseWriteQueue)
<1>0. node \in SlaveNode /\ node.reader \in Nat /\ node.exists
  BY DEF TypeOK, Active, StartInv
<1>1. CASE node' = node /\ wq' = wq
  BY <1>1 DEF Active
<1>6. CASE ConsumeWriteQueue \/ EraseWriteQueue
  BY <1>6 DEF Active, ConsumeWriteQueue, EraseWriteQueue
<1>2. CASE NodeAdded
  BY <1>0, <1>2 DEF NodeAdded
<1>3. ASSUME NEW t \in Threads, NodeStarted(t) PROVE FALSE
  BY <1>0, <1>3, NoStart
<1>4. CASE NodeUpdated
  <2>1. node'.reader = node.reader /\ node'.session = node.session /\ wq' = wq
    BY <1>0, <1>4, NodeFields DEF NodeUpdated
  <2> QED BY <1>4, <2>1 DEF Active
<1>5. CASE NodeRead
  <2>1. PICK k \in Nat :
          /\ node'.reader = IF k = 0 THEN node.reader ELSE node.reader + k
          /\ node'.session = node.session /\ node'.acked = node.acked
    BY <1>5, ReadFacts
  <2>2. node'.reader \in Nat
    BY <1>0, <2>1
  <2> QED BY <1>5, <2>1, <2>2 DEF Active
<1> QED BY <1>1, <1>2, <1>3, <1>4, <1>5, <1>6 DEF NodeStep

(* A session whose first records were dropped waits for them until its node   *)
(* is removed.                                                                *)
LEMMA StalledStep ==
  ASSUME AckedInv, Exact(node, producer), SessionInv, [Next]_vars, overlap' = {},
         session' = session, Active(session), Stalled
  PROVE  /\ slog' = slog
         /\ \/ (Active(session) /\ Stalled)'
            \/ (~Active(session) /\ NotTaken(session) /\ ~Carries(wq, session))'
<1>0. /\ TypeOK /\ ShapeInv /\ StartInv /\ AskInv /\ NodeStep /\ InStep /\ (\A u \in Threads : TaskStep(u))
  BY CleanNodeSteps, InSteps, TaskSteps DEF AckedInv, SessionInv
<1>1. PICK s : s = session
  OBVIOUS
<1>2. /\ NotSent(s) /\ NotTaken(s) /\ ~Carries(wq, s) /\ Active(s)
      /\ node.acked = Len(slog) /\ node.reader > Len(slog) /\ \A t \in Threads : ~Fills(t, s)
  BY <1>1 DEF Stalled
<1>3. node.reader \in Nat /\ node.session = s /\ node.state = "kSlaveBinlogSync"
  BY <1>0, <1>2 DEF Active, StartInv
<1>4. ~NodeUpdated /\ \A t \in Threads : ~NodeStarted(t)
  BY <1>0, <1>2, <1>3, NoUpdate, NoStart
<1>5. ~NodeRead
  <2>1. node.reader = node.sent
    BY <1>3, NewNodeFields DEF Exact
  <2>2. Len(slog) \in Nat
    BY <1>0, LenProperties DEF TypeOK
  <2> QED BY <1>2, <1>3, <2>1, <2>2 DEF NodeRead
<1>6. NotSent(s)' /\ NotTaken(s)' /\ ~Carries(wq, s)'
  BY <1>0, <1>2, <1>5, NotSentStep, NotTakenStep, NotQueuedStep
<1>7. slog' = slog
  BY <1>0, <1>1, <1>2, SlogSteps DEF RecordWritten, NotSent
<1>8. \A t \in Threads : ~Fills(t, s)'
  BY <1>0, <1>2, <1>4, FillsStep
<1>9. CASE NodeRemoved
  <2>1. ~Active(s)'
    BY <1>9, NewNodeFields DEF NodeRemoved, Active
  <2> QED BY <1>1, <1>6, <1>7, <2>1 DEF Active, NotTaken, Carries
<1>10. CASE Active(s)' /\ node'.acked = node.acked /\ node'.reader = node.reader
  <2>1. node'.acked = Len(slog') /\ node'.reader > Len(slog')
    BY <1>2, <1>7, <1>10
  <2> QED BY <1>1, <1>6, <1>7, <1>8, <1>10, <2>1 DEF Stalled, Active, NotSent, NotTaken, Carries, Fills
<1> QED BY <1>0, <1>2, <1>4, <1>5, <1>9, <1>10, ActiveSteps

(* What is read continues the queue. *)
LEMMA LeavesRead ==
  ASSUME TypeOK, NodeRead, outbox' = outbox, session' = session, Active(session),
         NEW f \in [0..Len(outbox) -> Nat], Leaves(f)
  PROVE  Leaves(f)'
<1>1. PICK n \in Nat : n = f[Len(outbox)]
  <2>1. Len(outbox) \in Nat
    BY LenProperties DEF TypeOK
  <2>2. f[Len(outbox)] \in Nat
    BY <2>1
  <2> QED BY <2>2
<1>2. /\ Rises(f, Len(outbox)) /\ (\A i \in 1..Len(outbox) : Follows(outbox[i], f[i - 1], f[i], session))
      /\ (\A i \in 1..Len(wq) : wq[i].off = n + i) /\ node.reader = n + Len(wq)
  BY <1>1 DEF Leaves
<1>3. PICK k \in Nat :
        /\ node'.reader = IF k = 0 THEN node.reader ELSE node.reader + k
        /\ Len(wq) \in Nat /\ Len(wq') = Len(wq) + k
        /\ \A i \in 1..Len(wq) : wq'[i] = wq[i]
        /\ \A i \in 1..k : wq'[Len(wq) + i] = [off |-> node.reader + i, session |-> node.session]
  BY ReadFacts
<1>4. node'.reader = n + Len(wq')
  BY <1>2, <1>3
<1>5. ASSUME NEW i \in 1..Len(wq') PROVE wq'[i].off = n + i
  <2>1. CASE i \in 1..Len(wq)
    BY <1>2, <1>3, <2>1
  <2>2. CASE i \notin 1..Len(wq)
    <3>1. PICK p \in 1..k : i = Len(wq) + p
      <4>1. i - Len(wq) \in 1..k /\ i = Len(wq) + (i - Len(wq))
        BY <1>3, <2>2
      <4> QED BY <4>1
    <3>2. wq'[i] = [off |-> node.reader + p, session |-> node.session]
      BY <1>3, <3>1
    <3>3. wq'[i].off = node.reader + p
      BY <3>2
    <3> QED BY <1>2, <1>3, <3>1, <3>3
  <2> QED BY <2>1, <2>2
<1> QED BY <1>1, <1>2, <1>4, <1>5 DEF Leaves, Follows, Carries, Rises

(* The batches and the rest of the queue follow each other. *)
LEMMA LeavesConsume ==
  ASSUME TypeOK, TypeOK', ShapeInv, ConsumeWriteQueue, session' = session, Active(session),
         NEW f \in [0..Len(outbox) -> Nat], Leaves(f)
  PROVE  \E h \in [0..Len(outbox') -> Nat] : h[0] = f[0] /\ Leaves(h)'
<1>1. wq \in Seq(Chip) /\ Len(wq) \in Nat /\ node' = node /\ node.reader \in Nat /\ node.session = session
  BY LenProperties DEF TypeOK, ConsumeWriteQueue, Active
<1>2. outbox = <<>> /\ Len(outbox) = 0
  BY EmptySeq DEF ConsumeWriteQueue, AuxAtLoop
<1>3. PICK n \in Nat : n = f[0]
  BY <1>2
<1>4. (\A i \in 1..Len(wq) : wq[i].off = n + i) /\ node.reader = n + Len(wq)
  BY <1>2, <1>3 DEF Leaves
<1>5. PICK c \in Nat : \E g \in [0..c -> Nat] : Cut(c, g)
  BY ConsumeFacts
<1>6. PICK g \in [0..c -> Nat] : Cut(c, g)
  BY <1>5
<1>7. Len(outbox') = c /\ g[0] = 0 /\ \A a, b \in 0..c : a <= b => g[a] <= g[b]
  BY <1>6 DEF Cut
<1> DEFINE h == [b \in 0..c |-> n + g[b]]
<1>8. \A b \in 0..c : h[b] = n + g[b]
  OBVIOUS
<1>9. h \in [0..c -> Nat]
  OBVIOUS
<1> HIDE DEF h
<1>10. h[0] = n /\ Rises(h, c)
  <2>1. \A a, b \in 0..c : g[a] \in Nat /\ g[b] \in Nat
    OBVIOUS
  <2>2. \A a, b \in 0..c : a <= b => h[a] <= h[b]
    BY <1>7, <1>8, <2>1
  <2> QED BY <1>7, <1>8, <1>9, <2>2 DEF Rises
<1>11. ASSUME NEW b \in 1..c PROVE Follows(outbox'[b], h[b - 1], h[b], session)
  <2>1. b \in 0..c /\ b - 1 \in 0..c
    OBVIOUS
  <2>2. PICK lo \in Nat, hi \in Nat : lo = g[b - 1] /\ hi = g[b]
    BY <2>1
  <2>3. /\ lo < hi /\ hi <= Len(wq) /\ Len(outbox'[b]) = hi - lo
        /\ \A p \in 1..(hi - lo) : outbox'[b][p] = wq[lo + p]
    BY <1>6, <2>2 DEF Cut
  <2>4. ASSUME NEW p \in 1..(hi - lo) PROVE outbox'[b][p].off = (n + lo) + p
    <3>1. lo + p \in 1..Len(wq)
      BY <1>1, <2>3
    <3>2. wq[lo + p].off = n + (lo + p) /\ outbox'[b][p] = wq[lo + p]
      BY <1>4, <2>3, <3>1
    <3>3. n + (lo + p) = (n + lo) + p
      OBVIOUS
    <3> QED BY <3>2, <3>3
  <2>5. h[b - 1] = n + lo /\ h[b] = n + hi
    BY <1>8, <2>1, <2>2
  <2>6. \A p \in 1..Len(outbox'[b]) : outbox'[b][p].off = h[b - 1] + p
    BY <2>3, <2>4, <2>5
  <2>7. h[b] = h[b - 1] + Len(outbox'[b])
    BY <2>3, <2>5
  <2>8. Carries(outbox'[b], session)
    <3>1. 1 \in 1..(hi - lo) /\ lo + 1 \in 1..Len(wq)
      BY <1>1, <2>3
    <3>2. outbox'[b][1] = wq[lo + 1]
      BY <2>3, <3>1
    <3>3. wq # <<>>
      BY <1>1, <3>1, EmptySeq
    <3>4. wq[lo + 1].session = session /\ wq[lo + 1].off > 0
      BY <1>1, <3>1, <3>3 DEF ShapeInv, OneSession
    <3>5. outbox'[b] # <<>>
      BY <2>3, EmptySeq
    <3> QED BY <3>2, <3>4, <3>5 DEF Carries
  <2> QED BY <2>6, <2>7, <2>8 DEF Follows
<1>12. PICK lo \in Nat : lo = g[c]
  BY <1>6
<1>13. /\ lo <= Len(wq) /\ Len(wq') = Len(wq) - lo
       /\ \A i \in 1..(Len(wq) - lo) : wq'[i] = wq[lo + i]
  BY <1>6, <1>12 DEF Cut
<1>14. h[c] = n + lo
  BY <1>8, <1>12
<1>15. node'.reader = h[c] + Len(wq')
  BY <1>1, <1>4, <1>13, <1>14
<1>16. ASSUME NEW i \in 1..Len(wq') PROVE wq'[i].off = h[c] + i
  <2>1. i \in 1..(Len(wq) - lo) /\ lo + i \in 1..Len(wq)
    BY <1>1, <1>13
  <2>2. wq[lo + i].off = n + (lo + i)
    BY <1>4, <2>1
  <2> QED BY <1>13, <1>14, <2>1, <2>2
<1>17. PICK k \in [0..Len(outbox') -> Nat] : k = h
  BY <1>7, <1>9
<1>18. Leaves(k)'
  BY <1>7, <1>10, <1>11, <1>15, <1>16, <1>17 DEF Leaves, Rises, Follows, Carries
<1> QED BY <1>3, <1>10, <1>17, <1>18

(* A batch is sent. *)
LEMMA LeavesSend ==
  ASSUME TypeOK, TypeOK', outbox # <<>>, outbox' = Tail(outbox), UNCHANGED <<node, wq, session>>,
         NEW f \in [0..Len(outbox) -> Nat], Leaves(f)
  PROVE  /\ f[1] \in Nat /\ f[0] \in Nat /\ f[0] <= f[1] /\ Follows(outbox[1], f[0], f[1], session)
         /\ \E h \in [0..Len(outbox') -> Nat] : h[0] = f[1] /\ Leaves(h)'
<1>1. /\ Len(outbox) \in Nat /\ Len(outbox) >= 1 /\ Len(outbox') = Len(outbox) - 1
      /\ \A i \in 1..Len(outbox') : outbox'[i] = outbox[i + 1] /\ i + 1 \in 1..Len(outbox)
  BY TailFacts DEF TypeOK
<1>2. /\ \A i, j \in 0..Len(outbox) : i <= j => f[i] <= f[j]
      /\ \A i \in 1..Len(outbox) : Follows(outbox[i], f[i - 1], f[i], session)
  BY DEF Leaves, Rises
<1>3. f[1] \in Nat /\ f[0] \in Nat /\ f[0] <= f[1] /\ Follows(outbox[1], f[0], f[1], session)
  <2>1. 0 \in 0..Len(outbox) /\ 1 \in 0..Len(outbox) /\ 1 \in 1..Len(outbox) /\ 0 <= 1 /\ 1 - 1 = 0
    BY <1>1
  <2>2. Follows(outbox[1], f[1 - 1], f[1], session)
    BY <1>2, <2>1
  <2> QED BY <1>2, <2>1, <2>2
<1> DEFINE h == [i \in 0..Len(outbox') |-> f[i + 1]]
<1>4. Len(outbox') \in Nat /\ \A i \in 0..Len(outbox') : h[i] = f[i + 1] /\ i + 1 \in 0..Len(outbox)
  BY <1>1
<1>5. h \in [0..Len(outbox') -> Nat]
  BY <1>1
<1> HIDE DEF h
<1>6. Rises(h, Len(outbox')) /\ h[0] = f[1] /\ h[Len(outbox')] = f[Len(outbox)]
  <2>1. ASSUME NEW i \in 0..Len(outbox'), NEW j \in 0..Len(outbox'), i <= j PROVE h[i] <= h[j]
    <3>1. i + 1 <= j + 1
      BY <2>1
    <3> QED BY <1>2, <1>4, <3>1
  <2>2. 0 \in 0..Len(outbox') /\ 0 + 1 = 1 /\ Len(outbox') \in 0..Len(outbox') /\ Len(outbox') + 1 = Len(outbox)
    BY <1>1
  <2> QED BY <1>4, <1>5, <2>1, <2>2 DEF Rises
<1>7. ASSUME NEW i \in 1..Len(outbox') PROVE Follows(outbox'[i], h[i - 1], h[i], session)
  <2>1. i \in 0..Len(outbox') /\ i - 1 \in 0..Len(outbox') /\ i + 1 \in 1..Len(outbox)
        /\ (i - 1) + 1 = i /\ (i + 1) - 1 = i
    BY <1>1
  <2>2. Follows(outbox[i + 1], f[(i + 1) - 1], f[i + 1], session)
    BY <1>2, <2>1
  <2>3. h[i - 1] = f[i] /\ h[i] = f[i + 1] /\ outbox'[i] = outbox[i + 1]
    BY <1>1, <1>4, <2>1
  <2> QED BY <2>1, <2>2, <2>3
<1>8. PICK k \in [0..Len(outbox') -> Nat] : k = h
  BY <1>5
<1>9. Leaves(k)'
  BY <1>6, <1>7, <1>8 DEF Leaves, Rises, Follows, Carries
<1> QED BY <1>3, <1>6, <1>8, <1>9

(* A step that sends nothing keeps the stream of an active session behind x,  *)
(* unless it drops the first records of the session or removes its node.      *)
LEMMA LeavesStep ==
  ASSUME AckedInv, Exact(node, producer), SessionInv, LateInv, rstate = "kConnected", link, link',
         session' = session, [Next]_vars, overlap' = {}, outbox' = outbox \/ ConsumeWriteQueue,
         Active(session), ~Stalled, NEW x \in Nat, Len(slog) <= x,
         NEW f \in [0..Len(outbox) -> Nat], f[0] = x, Leaves(f)
  PROVE  Behind(x)'
<1>0. TypeOK /\ TypeOK' /\ ShapeInv /\ StartInv /\ AskInv /\ NodeStep
  BY CleanNodeSteps, TypeCorrectStep DEF AckedInv, SessionInv
<1>1. node.reader \in Nat /\ node.state = "kSlaveBinlogSync"
  BY <1>0 DEF Active, StartInv
<1>a. PICK s : s = session
  OBVIOUS
<1>b. Active(s)' => Active(session)'
  BY <1>a DEF Active
<1>2. CASE ConsumeWriteQueue
  <2>1. PICK h \in [0..Len(outbox') -> Nat] : h[0] = f[0] /\ Leaves(h)'
    BY <1>0, <1>2, LeavesConsume
  <2>2. Active(session)'
    BY <1>2 DEF ConsumeWriteQueue, Active
  <2> QED BY <2>1, <2>2 DEF Behind
<1>3. CASE EraseWriteQueue
  <2>1. sendFailed /\ UNCHANGED <<node, outbox, srv, slaveIn, slog>> /\ wq' = <<>>
    BY <1>3 DEF EraseWriteQueue, slaveVars
  <2>2. /\ NotSent(session) /\ NotTaken(session) /\ node.acked = Len(slog)
        /\ node.reader = Len(slog) + Len(wq)
        /\ wq # <<>> => \A t \in Threads : ~Fills(t, session)
    BY <2>1 DEF LateInv
  <2>3. Active(session)'
    BY <2>1 DEF Active
  <2>4. CASE wq = <<>>
    <3>1. Leaves(f)'
      BY <2>1, <2>4 DEF Leaves
    <3> QED BY <2>1, <2>3, <3>1 DEF Behind
  <2>5. CASE wq # <<>>
    <3>1. Len(wq) \in Nat /\ Len(wq) >= 1 /\ Len(slog) \in Nat
      BY <1>0, <2>5, TailFacts, LenProperties DEF TypeOK
    <3>2. node'.reader > Len(slog')
      BY <2>1, <2>2, <3>1
    <3>3. Stalled'
      BY <2>1, <2>2, <2>5, <3>2 DEF Stalled, NotSent, NotTaken, Carries, Fills
    <3> QED BY <2>3, <3>3 DEF Behind
  <2> QED BY <2>4, <2>5
<1>4. CASE NodeRemoved
  <2>1. ~Active(session)'
    BY <1>4, NewNodeFields DEF NodeRemoved, Active
  <2>2. AuxAtLoop /\ ((node.sent = node.acked /\ wq' = wq) \/ wq' = <<>>)
    BY <1>4 DEF NodeRemoved
  <2>3. outbox = <<>> /\ Len(outbox) = 0
    BY <2>2, EmptySeq DEF AuxAtLoop
  <2>4. wq' = <<>>
    <3>1. CASE node.sent = node.acked /\ wq' = wq
      <4>1. node.reader = x + Len(wq) /\ Len(wq) \in Nat
        BY <1>0, <2>3, LenProperties DEF Leaves, TypeOK
      <4>2. node.reader = node.sent
        BY <1>1, NewNodeFields DEF Exact
      <4>3. node.acked <= Len(slog) /\ Len(slog) \in Nat
        BY <1>0, LenProperties DEF AckedInv, Acked, TypeOK
      <4>4. Len(wq) = 0
        BY <1>1, <3>1, <4>1, <4>2, <4>3
      <4> QED BY <1>0, <3>1, <4>4, EmptySeq DEF TypeOK
    <3> QED BY <2>2, <3>1
  <2>5. CASE ConsumeWriteQueue
    BY <1>2, <2>5
  <2>6. CASE outbox' = outbox
    BY <2>1, <2>3, <2>4, <2>6 DEF Behind, NotTaken, Carries
  <2> QED BY <2>5, <2>6
<1>5. CASE node'.reader = node.reader /\ wq' = wq /\ Active(s)' /\ outbox' = outbox
  <2>1. Leaves(f)'
    BY <1>5 DEF Leaves
  <2> QED BY <1>5, <1>b, <2>1 DEF Behind
<1>6. CASE NodeRead /\ Active(s)' /\ outbox' = outbox
  <2>1. Leaves(f)'
    BY <1>0, <1>6, LeavesRead
  <2> QED BY <1>6, <1>b, <2>1 DEF Behind
<1>7. Active(s)
  BY <1>a
<1> QED BY <1>0, <1>2, <1>3, <1>4, <1>5, <1>6, <1>7, ActiveSteps

(* A session that becomes active starts behind the slave's binlog, with       *)
(* nothing on its way.                                                        *)
LEMMA StartedFacts ==
  ASSUME TypeOK, ShapeInv, AskInv, ConnectedInv, rstate = "kConnected", [Next]_vars, overlap' = {},
         NEW s \in Nat, s = session, NEW t \in Threads, NodeStarted(t), srv[t].req.session = s,
         Asks(t), Active(s)'
  PROVE  /\ NotRead(s) /\ NotSent(s)' /\ slog' = slog /\ wq' = <<>> /\ outbox' = outbox
         /\ node'.reader = Len(slog) /\ node'.acked = Len(slog)
<1>1. NotRead(s) /\ srv[t].req.start = Len(slog)
  BY DEF AskInv, Asked, ConnectedInv
<1>2. NotSent(s)'
  BY <1>1, InSteps, NotSentStep DEF NotRead
<1>3. slog' = slog
  BY <1>1, SlogSteps DEF RecordWritten, NotRead, NotSent
<1>4. srv[t].req.start \in Nat /\ node \in SlaveNode
  <2>1. srv[t] \in Task /\ node \in SlaveNode
    BY DEF TypeOK
  <2> QED BY <2>1 DEF Task, Request
<1>5. node' = Activated(node, srv[t].req.start) /\ wq' = <<>> /\ outbox' = outbox
  <2>1. ActivateFailed(node, srv[t].req.start).reader \notin Nat
    BY <1>4, NodeFields, NewNodeFields
  <2> QED BY <2>1 DEF NodeStarted, Active
<1>6. node'.reader = Len(slog) /\ node'.acked = Len(slog)
  BY <1>1, <1>4, <1>5, NodeFields
<1> QED BY <1>1, <1>2, <1>3, <1>5, <1>6

(* A step that sends nothing keeps what is behind x; a session that becomes   *)
(* active starts behind the slave's binlog, with nothing on its way.          *)
LEMMA BehindStep ==
  ASSUME AckedInv, Exact(node, producer), SessionInv, ConnectedInv, LateInv, rstate = "kConnected",
         link, link', session' = session, [Next]_vars, overlap' = {},
         outbox' = outbox \/ ConsumeWriteQueue, NEW x \in Nat, Len(slog) <= x, Behind(x)
  PROVE  Behind(x)' \/ (slog' = slog /\ NotSent(session)' /\ Behind(Len(slog))')
<1>0. /\ TypeOK /\ TypeOK' /\ ShapeInv /\ StartInv /\ AskInv /\ NodeStep /\ InStep
  BY CleanNodeSteps, TypeCorrectStep, InSteps DEF AckedInv, SessionInv
<1>1. CASE Active(session) /\ Stalled
  BY <1>1, StalledStep DEF Behind
<1>2. CASE Active(session) /\ ~Stalled
  BY <1>2, LeavesStep DEF Behind
<1>3. CASE ~Active(session) /\ NotTaken(session) /\ ~Carries(wq, session)
  <2>a. PICK s \in Nat : s = session
    BY <1>0 DEF TypeOK
  <2>1. ~Active(s) /\ NotTaken(s) /\ ~Carries(wq, s)
    BY <1>3, <2>a
  <2>2. NotTaken(s)' /\ ~Carries(wq, s)'
    BY <1>0, <2>1, NotTakenStep, NotQueuedStep
  <2>3. CASE ~Active(s)'
    <3>1. (~Active(session) /\ NotTaken(session) /\ ~Carries(wq, session))'
      BY <2>2, <2>3, <2>a DEF Active, NotTaken, Carries
    <3> QED BY <3>1 DEF Behind
  <2>4. ASSUME NEW t \in Threads, NodeStarted(t), srv[t].req.session = s, Asks(t), Active(s)'
        PROVE  slog' = slog /\ NotSent(session)' /\ Behind(Len(slog))'
    <3>1. /\ NotSent(s)' /\ slog' = slog /\ wq' = <<>> /\ outbox' = outbox
          /\ node'.reader = Len(slog)
      BY <1>0, <2>4, <2>a, StartedFacts
    <3>2. PICK n \in Nat : n = Len(slog)
      BY <1>0, LenProperties DEF TypeOK
    <3> DEFINE f == [i \in 0..Len(outbox) |-> n]
    <3>3. Len(outbox) \in Nat /\ f \in [0..Len(outbox) -> Nat] /\ \A i \in 0..Len(outbox) : f[i] = n
      BY <1>0, LenProperties DEF TypeOK
    <3> HIDE DEF f
    <3>4. PICK h \in [0..Len(outbox) -> Nat] : \A i \in 0..Len(outbox) : h[i] = n
      BY <3>3
    <3>5. Rises(h, Len(outbox)) /\ h[0] = n /\ h[Len(outbox)] = n
      BY <3>3, <3>4 DEF Rises
    <3>6. ASSUME NEW i \in 1..Len(outbox) PROVE Follows(outbox[i], h[i - 1], h[i], s)
      <4>1. i \in 0..Len(outbox) /\ i - 1 \in 0..Len(outbox)
        BY <3>3
      <4> QED BY <2>1, <3>4, <4>1 DEF Follows, NotTaken
    <3>7. Leaves(h)'
      <4>1. Len(wq') = 0
        BY <3>1, EmptySeq
      <4>2. node'.reader = h[Len(outbox)] + Len(wq')
        BY <3>1, <3>2, <3>5, <4>1
      <4>3. outbox' = outbox /\ \A i \in 1..Len(wq') : wq'[i].off = h[Len(outbox)] + i
        BY <3>1, <4>1
      <4> QED BY <2>a, <3>5, <3>6, <4>2, <4>3 DEF Leaves, Rises, Follows, Carries
    <3>8. Active(session)'
      BY <2>4, <2>a DEF Active
    <3>9. Behind(n)'
      BY <3>1, <3>5, <3>7, <3>8 DEF Behind
    <3>10. Behind(Len(slog))'
      BY <3>1, <3>2, <3>9
    <3> QED BY <2>a, <3>1, <3>10 DEF NotSent, Carries
  <2> QED BY <1>0, <2>1, <2>3, <2>4, ActiveStep
<1> QED BY <1>1, <1>2, <1>3 DEF Behind

-----------------------------------------------------------------------------
(* StreamInv *)

(* What a step does to the messages at a slave that stays connected. *)
Arrival ==
  \/ slaveIn' = slaveIn /\ slog' = slog
  \/ InKept(0) /\ slog' = slog /\ ~link'
  \/ slaveIn # <<>> /\ slaveIn[1].chips = <<>> /\ slaveIn' = Tail(slaveIn) /\ slog' = slog
  \/ /\ InSpent
     /\ slog' = IF slaveIn[1].chips[1].off = 0 THEN slog ELSE Append(slog, slaveIn[1].chips[1].off)
  \/ \E m \in Response : InAdded(m) /\ (\A s : ~Carries(m.chips, s)) /\ slog' = slog
  \/ SendSlaveBinlogChips /\ slog' = slog

(* Every step of a slave that stays connected is an arrival. *)
LEMMA Arrivals ==
  ASSUME TypeOK, [Next]_vars, rstate = "kConnected", rstate' = "kConnected", ~Connects
  PROVE  Arrival
<1> USE DEF masterVars, auxVars, netVars, slaveVars, ghostVars
<1>1. slaveIn \in Seq(Response)
  BY DEF TypeOK
<1>2. CASE WriteBinlogRecord
  BY <1>2, RecordTaken DEF Arrival
<1>3. slog' = slog \/ WriteBinlogRecord
  BY SlogSteps DEF RecordWritten
<1>4. CASE slaveIn' = slaveIn
  BY <1>2, <1>3, <1>4 DEF Arrival
<1>5. CASE LinkDown
  <2>1. PICK k \in 0..Len(slaveIn) : slaveIn' = SubSeq(slaveIn, 1, k)
    BY <1>5 DEF LinkDown
  <2>2. Len(slaveIn') = k /\ \A i \in 1..k : slaveIn'[i] = slaveIn[i]
    BY <1>1, <2>1, PrefixType
  <2>3. InKept(0)
    BY <1>1, <2>2, LenProperties DEF InKept
  <2> QED BY <1>5, <2>3 DEF Arrival, LinkDown
<1>6. CASE HandleTrySyncResponse
  <2>1. /\ slaveIn # <<>> /\ Head(slaveIn).type = "TrySync" /\ slaveIn' = Tail(slaveIn)
        /\ Head(slaveIn).code = "kOk" /\ session' = Head(slaveIn).session
    BY <1>6 DEF HandleTrySyncResponse
  <2>2. Head(slaveIn) = slaveIn[1] /\ 1 \in 1..Len(slaveIn)
    BY <1>1, <2>1, TailFacts
  <2> QED BY <1>6, <2>1, <2>2 DEF Connects, IsOffer
<1>7. CASE SendBinlogSyncAck
  <2>1. slaveIn # <<>> /\ Head(slaveIn).chips = <<>> /\ slaveIn' = Tail(slaveIn) /\ slog' = slog
    BY <1>7 DEF SendBinlogSyncAck
  <2>2. Head(slaveIn) = slaveIn[1]
    BY <1>1, <2>1, TailFacts
  <2> QED BY <2>1, <2>2 DEF Arrival
<1>8. CASE SendSlaveBinlogChips
  BY <1>8 DEF Arrival, SendSlaveBinlogChips
<1>9. ASSUME NEW m \in Response, \A s : ~Carries(m.chips, s), slaveIn' = slaveIn \/ (link /\ slaveIn' = Append(slaveIn, m)),
             slog' = slog
      PROVE  Arrival
  BY <1>1, <1>9, InAppend DEF Arrival
<1>10. CASE SendKeepAlive
  <2> DEFINE b == <<[off |-> 0, session |-> node.session]>>
  <2>1. b \in Seq(Chip) /\ b # <<>>
    <3>1. [off |-> 0, session |-> node.session] \in Chip
      BY DEF TypeOK, SlaveNode, Chip
    <3> QED BY <3>1
  <2>2. BinlogChips(b) \in Response /\ BinlogChips(b).chips = b
    BY <2>1, BinlogChipsType DEF BinlogChips
  <2>3. Write(BinlogChips(b)) /\ slog' = slog
    BY <1>10 DEF SendKeepAlive
  <2>4. \A s : ~Carries(BinlogChips(b).chips, s)
    BY <2>2 DEF Carries
  <2> QED BY <1>9, <2>2, <2>3, <2>4 DEF Write
<1>11. ASSUME NEW t \in Threads, HandleTrySync(t) \/ TrySyncAddNode(t) \/ TrySyncGetSession(t)
       PROVE  Arrival
  <2>1. ASSUME NEW c \in {"kOk", "kSyncPointLarger", "kError"}, NEW n \in Nat, Reply(srv[t].req, TrySyncReply(c, n))
        PROVE  Arrival
    <3>1. TrySyncReply(c, n) \in Response
      BY MessageTypes
    <3>2. \A s : ~Carries(TrySyncReply(c, n).chips, s)
      BY DEF Carries, TrySyncReply
    <3>3. slog' = slog
      BY <1>11 DEF HandleTrySync, TrySyncAddNode, TrySyncGetSession
    <3> QED BY <1>9, <2>1, <3>1, <3>2, <3>3 DEF Reply
  <2>2. node.session \in Nat /\ nextSession \in Nat /\ 0 \in Nat
    BY DEF TypeOK, SlaveNode
  <2> QED BY <1>4, <1>11, <2>1, <2>2 DEF HandleTrySync, TrySyncAddNode, TrySyncGetSession
<1>12. \/ slaveIn' = slaveIn \/ LinkDown \/ WriteBinlogRecord \/ HandleTrySyncResponse
       \/ SendBinlogSyncAck \/ SendSlaveBinlogChips \/ SendKeepAlive
       \/ \E t \in Threads : TrySyncAddNode(t) \/ TrySyncGetSession(t) \/ HandleTrySync(t)
  BY DEF Next, vars, ProposeLog, ServerThread, DealMessage,
         CheckSessionId, ActivateSlaveBinlogSync, UpdateSyncBinlogStatus, SyncBinlogToWq,
         AuxiliaryThread, WakeUpSlaveBinlogSync, ConsumeWriteQueue, EraseWriteQueue,
         MasterTimeout, Network, MasterFdClosed,
         SlaveFdClosed, SlaveFdTimeout, MetaSync, SlaveTimeout, BinlogWorker, SendTrySync
<1> QED BY <1>2, <1>4, <1>5, <1>6, <1>7, <1>8, <1>10, <1>11, <1>12

(* A step that sends no batch keeps the messages behind the slave's binlog. *)
LEMMA ArriveStep ==
  ASSUME TypeOK, TypeOK', ShapeInv, Arrival, ~SendSlaveBinlogChips, session' = session,
         NEW e \in [0..Len(slaveIn) -> Nat], Arrives(e)
  PROVE  \E h \in [0..Len(slaveIn') -> Nat] :
           Arrives(h)' /\ (link' => h[Len(slaveIn')] = e[Len(slaveIn)])
<1>0. Len(slaveIn) \in Nat
  BY LenProperties DEF TypeOK
<1>1. CASE slaveIn' = slaveIn /\ slog' = slog
  <2>1. InKept(0)
    BY <1>0, <1>1 DEF InKept
  <2> QED BY <1>1, <2>1, ArriveKept
<1>2. CASE InKept(0) /\ slog' = slog /\ ~link'
  BY <1>2, ArriveKept
<1>3. CASE slaveIn # <<>> /\ slaveIn[1].chips = <<>> /\ slaveIn' = Tail(slaveIn) /\ slog' = slog
  BY <1>3, ArriveTail
<1>4. CASE /\ InSpent
           /\ slog' = IF slaveIn[1].chips[1].off = 0 THEN slog ELSE Append(slog, slaveIn[1].chips[1].off)
  BY <1>4, ArriveSpent
<1>5. ASSUME NEW m \in Response, InAdded(m), \A s : ~Carries(m.chips, s), slog' = slog
      PROVE  \E h \in [0..Len(slaveIn') -> Nat] : Arrives(h)' /\ h[Len(slaveIn')] = e[Len(slaveIn)]
  <2>1. PICK x \in Nat : x = e[Len(slaveIn)]
    BY <1>0
  <2>2. e[Len(slaveIn)] <= x /\ Follows(m.chips, e[Len(slaveIn)], x, session)
    BY <1>5, <2>1 DEF Follows
  <2> QED BY <1>5, <2>1, <2>2, ArriveMore
<1> QED BY <1>1, <1>2, <1>3, <1>4, <1>5 DEF Arrival

(* A batch is sent to a connected slave. *)
LEMMA SendStep ==
  ASSUME AckedInv, Exact(node, producer), SessionInv, [Next]_vars, overlap' = {}, TypeOK',
         SendSlaveBinlogChips, link, NEW e \in [0..Len(slaveIn) -> Nat], Arrives(e),
         NEW x \in Nat, x = e[Len(slaveIn)], Behind(x)
  PROVE  \E h \in [0..Len(slaveIn') -> Nat] :
           Arrives(h)' /\ \E y \in Nat : y = h[Len(slaveIn')] /\ Behind(y)'
<1>0. TypeOK /\ ShapeInv /\ ConnInv /\ StartInv
  BY DEF AckedInv, SessionInv
<1>1. /\ outbox # <<>> /\ outbox' = Tail(outbox) /\ UNCHANGED <<node, wq, session, slog, link>>
      /\ slaveIn' = slaveIn \/ slaveIn' = Append(slaveIn, BinlogChips(Head(outbox)))
      /\ CanWrite => slaveIn' = Append(slaveIn, BinlogChips(Head(outbox)))
  BY DEF SendSlaveBinlogChips, Write, masterVars, slaveVars, netVars
<1>2. /\ Head(outbox) = outbox[1] /\ 1 \in 1..Len(outbox) /\ outbox[1] \in Seq(Chip) \ {<<>>}
      /\ \A i \in 1..Len(outbox') : outbox'[i] = outbox[i + 1] /\ i + 1 \in 1..Len(outbox)
  BY <1>0, <1>1, TailFacts DEF TypeOK
<1>3. PICK m \in Response : m = BinlogChips(Head(outbox)) /\ m.chips = outbox[1]
  <2>1. BinlogChips(Head(outbox)) \in Response /\ BinlogChips(Head(outbox)).chips = outbox[1]
    BY <1>2, BinlogChipsType DEF BinlogChips
  <2> QED BY <2>1
<1>4. slaveIn' = slaveIn \/ InAdded(m)
  BY <1>0, <1>1, <1>3, InAppend DEF TypeOK
<1>5. PICK s : s = session
  OBVIOUS
<1>6. ASSUME NotTaken(s)
      PROVE  \E h \in [0..Len(slaveIn') -> Nat] : Arrives(h)' /\ h[Len(slaveIn')] = x
  <2>1. ~Carries(m.chips, session)
    BY <1>2, <1>3, <1>5, <1>6 DEF NotTaken
  <2>2. CASE slaveIn' = slaveIn
    <3>1. InKept(0)
      BY <1>0, <2>2, LenProperties DEF InKept, TypeOK
    <3> QED BY <1>0, <1>1, <2>2, <3>1, ArriveKept
  <2>3. CASE InAdded(m)
    <3>1. e[Len(slaveIn)] <= x /\ Follows(m.chips, e[Len(slaveIn)], x, session)
      BY <2>1 DEF Follows
    <3> QED BY <1>0, <1>1, <2>3, <3>1, ArriveMore
  <2> QED BY <1>4, <2>2, <2>3
<1>7. CASE ~Active(session) /\ NotTaken(session) /\ ~Carries(wq, session)
  <2>1. NotTaken(s)'
    BY <1>2, <1>5, <1>7 DEF NotTaken
  <2>2. Behind(x)'
    BY <1>1, <1>5, <1>7, <2>1 DEF Behind, Active, NotTaken, Carries
  <2>3. PICK h \in [0..Len(slaveIn') -> Nat] : Arrives(h)' /\ h[Len(slaveIn')] = x
    BY <1>5, <1>6, <1>7
  <2> QED BY <2>2, <2>3
<1>8. CASE Active(session) /\ Stalled
  <2>1. Behind(x)'
    BY <1>1, <1>8, StalledStep DEF Behind
  <2>2. PICK h \in [0..Len(slaveIn') -> Nat] : Arrives(h)' /\ h[Len(slaveIn')] = x
    BY <1>5, <1>6, <1>8 DEF Stalled
  <2> QED BY <2>1, <2>2
<1>9. ASSUME Active(session), NEW f \in [0..Len(outbox) -> Nat], f[0] = x, Leaves(f)
      PROVE  \E h \in [0..Len(slaveIn') -> Nat] :
               Arrives(h)' /\ \E y \in Nat : y = h[Len(slaveIn')] /\ Behind(y)'
  <2>1. CanWrite
    BY <1>0, <1>9 DEF ConnInv, StartInv, Active
  <2>2. InAdded(m)
    BY <1>0, <1>1, <1>3, <2>1, InAppend DEF TypeOK
  <2>3. /\ f[1] \in Nat /\ f[0] <= f[1] /\ Follows(outbox[1], f[0], f[1], session)
        /\ \E g \in [0..Len(outbox') -> Nat] : g[0] = f[1] /\ Leaves(g)'
    BY <1>0, <1>1, <1>9, LeavesSend
  <2>4. PICK y \in Nat : y = f[1]
    BY <2>3
  <2>5. e[Len(slaveIn)] <= y /\ Follows(m.chips, e[Len(slaveIn)], y, session)
    BY <1>3, <1>9, <2>3, <2>4
  <2>6. PICK h \in [0..Len(slaveIn') -> Nat] : Arrives(h)' /\ h[Len(slaveIn')] = y
    BY <1>0, <1>1, <2>2, <2>5, ArriveMore
  <2>7. Active(session)'
    BY <1>1, <1>9 DEF Active
  <2>8. Behind(y)'
    BY <2>3, <2>4, <2>7 DEF Behind
  <2> QED BY <2>6, <2>8
<1> QED BY <1>7, <1>8, <1>9 DEF Behind

(* A connection comes up with MetaSync. *)
LEMMA LinkSteps ==
  ASSUME [Next]_vars, link', ~link
  PROVE  ~metaDone
  BY DEF Next, vars, ProposeLog, ServerThread, DealMessage, HandleTrySync, TrySyncAddNode,
         TrySyncGetSession, CheckSessionId, ActivateSlaveBinlogSync, UpdateSyncBinlogStatus,
         SyncBinlogToWq, AuxiliaryThread, WakeUpSlaveBinlogSync, EraseWriteQueue, ConsumeWriteQueue,
         SendSlaveBinlogChips, SendKeepAlive, MasterTimeout, Network, LinkDown, MasterFdClosed,
         SlaveFdClosed, SlaveFdTimeout, MetaSync, SlaveTimeout, SendTrySync, BinlogWorker,
         SendBinlogSyncAck, HandleTrySyncResponse, WriteBinlogRecord,
         masterVars, auxVars, netVars, slaveVars, ghostVars

(* A slave that connects, or whose connection comes up, has met no record of  *)
(* its session.                                                               *)
LEMMA FreshSession ==
  ASSUME TypeOK, SessionInv, ConnectedInv, [Next]_vars, overlap' = {}, rstate' = "kConnected",
         \/ Connects
         \/ rstate = "kConnected" /\ session' = session /\ link' /\ ~link
  PROVE  NotRead(session)'
<1>0. TypeOK' /\ ShapeInv /\ OfferInv
  BY TypeCorrectStep DEF SessionInv
<1>1. PICK s \in Nat : s = session'
  BY <1>0 DEF TypeOK
<1>2. NotRead(s) /\ ~Asked(s)
  <2>1. CASE Connects
    <3>1. slaveIn # <<>> /\ IsOffer(slaveIn[1]) /\ slaveIn' = Tail(slaveIn) /\ s = slaveIn[1].session
      BY <1>1, <2>1 DEF Connects
    <3>2. Offered(s)
      BY <1>0, <3>1, OfferTaken
    <3> QED BY <1>0, <3>2 DEF OfferInv
  <2>2. CASE rstate = "kConnected" /\ session' = session /\ link' /\ ~link
    BY <1>1, <2>2, LinkSteps DEF ConnectedInv
  <2> QED BY <2>1, <2>2
<1>3. NotRead(s)'
  BY <1>0, <1>2, NotReadStep DEF Asked
<1> QED BY <1>1, <1>3 DEF NotRead, NotSent, NotTaken, Carries, Active

(* The stream from the reader to the slave's binlog is kept by every step. *)
LEMMA StreamStep ==
  ASSUME AckedInv, Exact(node, producer), SessionInv, ConnectedInv, StreamInv, LateInv,
         [Next]_vars, overlap' = {}
  PROVE  StreamInv'
<1>0. TypeOK /\ TypeOK' /\ ShapeInv
  BY TypeCorrectStep DEF AckedInv, SessionInv
<1> SUFFICES ASSUME rstate' = "kConnected" PROVE StreamInv'
  BY DEF StreamInv
<1>a. ASSUME NEW h \in [0..Len(slaveIn') -> Nat], Arrives(h)', link' => \E y \in Nat : y = h[Len(slaveIn')] /\ Behind(y)'
      PROVE  StreamInv'
  <2>1. link' => Behind(h[Len(slaveIn)])'
    BY <1>a DEF Behind
  <2> QED BY <1>a, <2>1 DEF StreamInv
<1>b. ASSUME NotSent(session)', link' => \E y \in Nat : y = Len(slog') /\ Behind(y)'
      PROVE  StreamInv'
  <2>1. PICK h \in [0..Len(slaveIn') -> Nat] : Arrives(h)' /\ h[Len(slaveIn')] = Len(slog')
    BY <1>0, <1>b, ArriveNothing
  <2> QED BY <1>a, <1>b, <2>1
<1>1. CASE Connects \/ (rstate = "kConnected" /\ session' = session /\ link' /\ ~link)
  <2>1. NotRead(session)'
    BY <1>0, <1>1, FreshSession
  <2>2. PICK y \in Nat : y = Len(slog')
    BY <1>0, LenProperties DEF TypeOK
  <2>3. Behind(y)'
    BY <2>1 DEF Behind, NotRead
  <2>4. NotSent(session)'
    BY <2>1 DEF NotRead
  <2> QED BY <1>b, <2>2, <2>3, <2>4
<1>2. CASE rstate = "kConnected" /\ session' = session /\ (link' => link) /\ ~Connects
  <2>1. PICK e \in [0..Len(slaveIn) -> Nat] : Arrives(e) /\ (link => Behind(e[Len(slaveIn)]))
    BY <1>2 DEF StreamInv
  <2>2. Arrival
    BY <1>0, <1>2, Arrivals
  <2>3. PICK x \in Nat : x = e[Len(slaveIn)]
    <3>1. Len(slaveIn) \in Nat
      BY <1>0, LenProperties DEF TypeOK
    <3>2. Len(slaveIn) \in 0..Len(slaveIn)
      BY <3>1
    <3> QED BY <3>2
  <2>4. Len(slog) <= x
    <3>1. Len(slaveIn) \in Nat /\ 0 \in 0..Len(slaveIn) /\ Len(slaveIn) \in 0..Len(slaveIn) /\ 0 <= Len(slaveIn)
      BY <1>0, LenProperties DEF TypeOK
    <3> QED BY <2>1, <2>3, <3>1 DEF Arrives, Rises
  <2>5. CASE SendSlaveBinlogChips /\ link
    <3>1. PICK h \in [0..Len(slaveIn') -> Nat] : Arrives(h)' /\ \E y \in Nat : y = h[Len(slaveIn')] /\ Behind(y)'
      BY <1>0, <2>1, <2>3, <2>5, SendStep
    <3> QED BY <1>a, <3>1
  <2>6. CASE SendSlaveBinlogChips /\ ~link
    <3>1. slaveIn' = slaveIn /\ slog' = slog /\ ~link'
      BY <2>6 DEF SendSlaveBinlogChips, Write, netVars, slaveVars
    <3>2. InKept(0)
      BY <1>0, <3>1, LenProperties DEF InKept, TypeOK
    <3>3. PICK h \in [0..Len(slaveIn') -> Nat] : Arrives(h)'
      BY <1>0, <1>2, <2>1, <3>1, <3>2, ArriveKept
    <3> QED BY <1>a, <3>1, <3>3
  <2>7. CASE ~SendSlaveBinlogChips
    <3>1. PICK h \in [0..Len(slaveIn') -> Nat] : Arrives(h)' /\ (link' => h[Len(slaveIn')] = x)
      BY <1>0, <1>2, <2>1, <2>2, <2>3, <2>7, ArriveStep
    <3>2. CASE ~link'
      BY <1>a, <3>1, <3>2
    <3>3. CASE link'
      <4>1. link /\ Behind(x)
        BY <1>2, <2>1, <2>3, <3>3
      <4>2. outbox' = outbox \/ ConsumeWriteQueue
        BY <2>7, OutboxSteps
      <4>3. Behind(x)' \/ (slog' = slog /\ NotSent(session)' /\ Behind(Len(slog))')
        BY <1>2, <2>4, <3>3, <4>1, <4>2, BehindStep
      <4>4. CASE Behind(x)'
        BY <1>a, <3>1, <3>3, <4>4
      <4>5. CASE NotSent(session)' /\ Behind(Len(slog))'
        <5>1. PICK y \in Nat : y = Len(slog')
          BY <1>0, LenProperties DEF TypeOK
        <5>2. Behind(y)'
          BY <4>5, <5>1 DEF Behind
        <5> QED BY <1>b, <4>5, <5>1, <5>2
      <4> QED BY <4>3, <4>4, <4>5
    <3> QED BY <3>2, <3>3
  <2> QED BY <2>5, <2>6, <2>7
<1>3. (rstate = "kConnected" /\ session' = session) \/ Connects
  BY <1>0, ConnectedSteps
<1> QED BY <1>1, <1>2, <1>3

-----------------------------------------------------------------------------
(* LateInv *)

(* A send fails only when there is no connection to write to. *)
LEMMA FailedSteps ==
  ASSUME [Next]_vars, sendFailed'
  PROVE  (sendFailed /\ ~EraseWriteQueue) \/ (SendSlaveBinlogChips /\ ~CanWrite)
  BY DEF Next, vars, ProposeLog, ServerThread, DealMessage, HandleTrySync, TrySyncAddNode,
         TrySyncGetSession, CheckSessionId, ActivateSlaveBinlogSync, UpdateSyncBinlogStatus,
         SyncBinlogToWq, AuxiliaryThread, WakeUpSlaveBinlogSync, EraseWriteQueue, ConsumeWriteQueue,
         SendSlaveBinlogChips, SendKeepAlive, MasterTimeout, Network, LinkDown, MasterFdClosed,
         SlaveFdClosed, SlaveFdTimeout, MetaSync, SlaveTimeout, SendTrySync, BinlogWorker,
         SendBinlogSyncAck, HandleTrySyncResponse, WriteBinlogRecord, Write,
         masterVars, auxVars, netVars, slaveVars, ghostVars

(* What LateInv says of session s. *)
Late(s) ==
  /\ NotSent(s) /\ NotTaken(s)
  /\ node.acked = Len(slog) /\ node.reader = Len(slog) + Len(wq)
  /\ \A t, u \in Threads : Fills(t, s) /\ Fills(u, s) => t = u
  /\ wq # <<>> => \A t \in Threads : ~Fills(t, s)

(* The session was active and stays so. *)
LEMMA LateKept ==
  ASSUME AckedInv, Exact(node, producer), SessionInv, [Next]_vars, overlap' = {}, link, sendFailed,
         ~EraseWriteQueue, NEW s, s = session, Active(s), Active(s)', Late(s)
  PROVE  Late(s)'
<1>0. /\ TypeOK /\ TypeOK' /\ ShapeInv /\ StartInv /\ AskInv /\ NodeStep /\ InStep
      /\ (\A u \in Threads : TaskStep(u))
  BY CleanNodeSteps, InSteps, TaskSteps, TypeCorrectStep DEF AckedInv, SessionInv
<1>1. node.reader \in Nat /\ node.session = s /\ ~AuxAtLoop
  BY DEF Active, AuxAtLoop
<1>2. ~NodeUpdated /\ \A t \in Threads : ~NodeStarted(t)
  BY <1>0, <1>1, NoUpdate, NoStart DEF Late
<1>3. ~NodeRemoved /\ ~ConsumeWriteQueue
  BY <1>1 DEF NodeRemoved, ConsumeWriteQueue
<1>4. NotSent(s)' /\ slog' = slog
  BY <1>0, NotSentStep, SlogSteps DEF Late, RecordWritten, NotSent
<1>5. NotTaken(s)'
  <2>1. CASE outbox' = outbox
    BY <2>1 DEF Late, NotTaken
  <2>2. CASE outbox # <<>> /\ outbox' = Tail(outbox)
    <3>1. \A i \in 1..Len(outbox') : outbox'[i] = outbox[i + 1] /\ i + 1 \in 1..Len(outbox)
      BY <1>0, <2>2, TailFacts DEF TypeOK
    <3> QED BY <3>1 DEF Late, NotTaken
  <2> QED BY <1>3, <2>1, <2>2, OutboxSteps
<1>6. \A t \in Threads : Fills(t, s)' => Fills(t, s)
  BY <1>0, <1>2, FillsStep
<1>7. CASE node'.acked = node.acked /\ node'.reader = node.reader /\ wq' = wq
  <2>1. node'.acked = Len(slog') /\ node'.reader = Len(slog') + Len(wq')
    BY <1>4, <1>7 DEF Late
  <2>2. \A t, u \in Threads : Fills(t, s)' /\ Fills(u, s)' => t = u
    BY <1>6 DEF Late
  <2>3. wq' # <<>> => \A t \in Threads : ~Fills(t, s)'
    BY <1>6, <1>7 DEF Late
  <2> QED BY <1>4, <1>5, <2>1, <2>2, <2>3 DEF Late
<1>8. CASE node'.acked = node.acked /\ NodeRead
  <2>1. PICK t \in Threads : Fills(t, s) /\ srv' = [srv EXCEPT ![t] = Idle]
    BY <1>1, <1>8 DEF NodeRead
  <2>2. \A u \in Threads : ~Fills(u, s)'
    <3>1. srv'[t] = Idle
      BY <1>0, <2>1 DEF TypeOK
    <3>2. ~Fills(t, s)'
      BY <3>1 DEF Fills, Idle
    <3> QED BY <1>6, <2>1, <3>2 DEF Late
  <2>3. PICK k \in Nat :
          /\ node'.reader = IF k = 0 THEN node.reader ELSE node.reader + k
          /\ Len(wq) \in Nat /\ Len(wq') = Len(wq) + k
    BY <1>0, <1>8, ReadFacts
  <2>4. node'.acked = Len(slog') /\ node'.reader = Len(slog') + Len(wq')
    <3>1. Len(slog) \in Nat
      BY <1>0, LenProperties DEF TypeOK
    <3> QED BY <1>4, <1>8, <2>3, <3>1 DEF Late
  <2> QED BY <1>4, <1>5, <2>2, <2>4 DEF Late
<1> QED BY <1>0, <1>2, <1>3, <1>7, <1>8, ActiveSteps

(* The session becomes active. *)
LEMMA LateStarted ==
  ASSUME TypeOK, SessionInv, ConnectedInv, rstate = "kConnected", [Next]_vars, overlap' = {},
         NEW s \in Nat, s = session, ~Active(s), Active(s)'
  PROVE  Late(s)'
<1>0. ShapeInv /\ AskInv /\ StartInv /\ NodeStep
  BY CleanNodeSteps DEF SessionInv
<1>1. PICK t \in Threads : NodeStarted(t) /\ srv[t].req.session = s /\ Asks(t)
  BY <1>0, ActiveStep
<1>2. /\ NotRead(s) /\ NotSent(s)' /\ slog' = slog /\ wq' = <<>> /\ outbox' = outbox
      /\ node'.reader = Len(slog) /\ node'.acked = Len(slog)
  BY <1>0, <1>1, StartedFacts
<1>3. NotTaken(s)'
  BY <1>2 DEF NotRead, NotTaken
<1>4. Len(slog) \in Nat /\ Len(wq') = 0
  BY <1>2, LenProperties, EmptySeq DEF TypeOK
<1>5. ASSUME NEW u \in Threads, Fills(u, s)' PROVE u = t
  <2> SUFFICES ASSUME u # t PROVE FALSE
    OBVIOUS
  <2>1. node.exists /\ node.session = s /\ srv'[u] = srv[u]
    BY <1>1 DEF NodeStarted
  <2>2. Fills(u, node.session)
    BY <1>5, <2>1 DEF Fills
  <2>3. ~Asked(node.session)
    BY <1>0, <2>1, <2>2 DEF StartInv
  <2> QED BY <1>1, <2>1, <2>3 DEF Asked
<1>6. node'.acked = Len(slog') /\ node'.reader = Len(slog') + Len(wq')
  BY <1>2, <1>4
<1> QED BY <1>2, <1>3, <1>5, <1>6 DEF Late

(* While a failed batch is remembered, the new session is not sent. *)
LEMMA LateStep ==
  ASSUME AckedInv, Exact(node, producer), SessionInv, ConnectedInv, LateInv, [Next]_vars, overlap' = {}
  PROVE  LateInv'
<1>0. TypeOK /\ TypeOK' /\ ConnInv /\ StartInv
  BY TypeCorrectStep DEF AckedInv, SessionInv
<1> SUFFICES ASSUME rstate' = "kConnected", link', sendFailed', Active(session)', ~Stalled'
             PROVE  LateInv'
  BY DEF LateInv
<1>1. rstate = "kConnected" /\ session' = session /\ link
  <2>1. ~NotRead(session)'
    BY DEF NotRead
  <2> QED BY <1>0, <2>1, FreshSession, ConnectedSteps
<1>2. PICK s \in Nat : s = session
  BY <1>0 DEF TypeOK
<1>3. Active(s)'
  BY <1>1, <1>2 DEF Active
<1>4. Late(s)' => LateInv'
  BY <1>1, <1>2 DEF LateInv, Late, NotSent, NotTaken, Carries, Fills
<1>5. sendFailed /\ ~EraseWriteQueue
  <2>1. ASSUME SendSlaveBinlogChips, ~CanWrite PROVE FALSE
    <3>1. node' = node
      BY <2>1 DEF SendSlaveBinlogChips, masterVars
    <3>2. Active(s) /\ node.session = s
      BY <1>3, <3>1 DEF Active
    <3>3. node.exists
      BY <1>0, <3>2 DEF StartInv, Active
    <3> QED BY <1>0, <2>1, <3>2, <3>3 DEF ConnInv
  <2> QED BY <2>1, FailedSteps
<1>6. CASE Active(s) /\ Stalled
  BY <1>1, <1>2, <1>6, StalledStep
<1>7. CASE Active(s) /\ ~Stalled
  <2>1. Late(s)
    BY <1>1, <1>2, <1>5, <1>7 DEF LateInv, Late
  <2>2. Late(s)'
    BY <1>1, <1>2, <1>3, <1>5, <1>7, <2>1, LateKept
  <2> QED BY <1>4, <2>2
<1>8. CASE ~Active(s)
  BY <1>0, <1>1, <1>2, <1>3, <1>4, <1>8, LateStarted
<1> QED BY <1>6, <1>7, <1>8

-----------------------------------------------------------------------------
(* The slave's binlog *)

(* The slave's binlog grows by the master's next record. *)
LEMMA NextRecord ==
  ASSUME TypeOK, ShapeInv, StreamInv, [Next]_vars
  PROVE  \/ slog' = slog
         \/ /\ slog' = Append(slog, Len(slog) + 1) /\ Len(slog) + 1 <= producer
            /\ UNCHANGED <<producer, overlap>>
<1>1. CASE RecordWritten
  <2>1. rstate = "kConnected" /\ InSpent /\ UNCHANGED <<session, producer, overlap>>
    BY <1>1 DEF RecordWritten, InSpent, WriteBinlogRecord, masterVars, ghostVars
  <2>2. slog' = IF slaveIn[1].chips[1].off = 0 THEN slog ELSE Append(slog, slaveIn[1].chips[1].off)
    <3>1. slog' = Append(slog, slaveIn[1].chips[1].off) /\ slaveIn[1].chips[1].off > 0
      BY <1>1 DEF RecordWritten, Carries
    <3>2. slaveIn[1].chips[1].off # 0
      BY <3>1
    <3> QED BY <3>1, <3>2
  <2>3. PICK e \in [0..Len(slaveIn) -> Nat] : Arrives(e)
    BY <2>1 DEF StreamInv
  <2>4. TypeOK'
    BY TypeCorrectStep
  <2> QED BY <2>1, <2>2, <2>3, <2>4, ArriveSpent
<1> QED BY <1>1, SlogSteps

(* The slave's binlog stays a prefix of the master's. *)
LEMMA PrefixStep ==
  ASSUME TypeOK, ShapeInv, StreamInv, IsPrefixOfMaster, [Next]_vars
  PROVE  IsPrefixOfMaster'
<1>1. producer \in Nat /\ producer' \in Nat /\ producer <= producer'
  BY NumbersGrow
<1>2. slog \in Seq(Nat) /\ Len(slog) \in Nat /\ DOMAIN slog = 1..Len(slog)
  BY LenProperties DEF TypeOK
<1>3. CASE slog' = slog
  BY <1>1, <1>2, <1>3 DEF IsPrefixOfMaster
<1>4. CASE slog' = Append(slog, Len(slog) + 1) /\ Len(slog) + 1 <= producer
  <2>1. PICK n \in Nat : n = Len(slog)
    BY <1>2
  <2>2. /\ Len(slog') = n + 1 /\ slog'[n + 1] = n + 1
        /\ \A i \in 1..n : slog'[i] = slog[i]
    BY <1>2, <1>4, <2>1, AppendFacts
  <2>3. DOMAIN slog' = 1..(n + 1)
    <3>1. slog' \in Seq(Nat)
      BY TypeCorrectStep DEF TypeOK
    <3> QED BY <2>2, <3>1, LenProperties
  <2>4. ASSUME NEW i \in 1..(n + 1) PROVE slog'[i] = i
    <3>1. CASE i \in 1..n
      BY <1>2, <2>1, <2>2, <3>1 DEF IsPrefixOfMaster
    <3>2. CASE i = n + 1
      BY <2>2, <3>2
    <3> QED BY <3>1, <3>2
  <2>5. Len(slog') <= producer'
    BY <1>1, <1>4, <2>1, <2>2
  <2> QED BY <2>3, <2>4, <2>5 DEF IsPrefixOfMaster
<1> QED BY <1>3, <1>4, NextRecord

(* The history of overlaps only grows, and not when the master writes. *)
LEMMA OverlapSteps ==
  ASSUME [Next]_vars
  PROVE  /\ overlap' = {} => overlap = {}
         /\ \/ producer' = producer
            \/ producer' = producer + 1 /\ UNCHANGED <<slog, overlap>>
  BY DEF Next, vars, ProposeLog, ServerThread, DealMessage, HandleTrySync, TrySyncAddNode,
         TrySyncGetSession, CheckSessionId, ActivateSlaveBinlogSync, UpdateSyncBinlogStatus,
         SyncBinlogToWq, AuxiliaryThread, WakeUpSlaveBinlogSync, EraseWriteQueue, ConsumeWriteQueue,
         SendSlaveBinlogChips, SendKeepAlive, MasterTimeout, Network, LinkDown, MasterFdClosed,
         SlaveFdClosed, SlaveFdTimeout, MetaSync, SlaveTimeout, SendTrySync, BinlogWorker,
         SendBinlogSyncAck, HandleTrySyncResponse, WriteBinlogRecord,
         masterVars, auxVars, netVars, slaveVars, ghostVars

(* Nothing is offered, asked for or read at the start. *)
LEMMA PrefixInit == Init => PrefixInv
<1> SUFFICES ASSUME Init PROVE PrefixInv
  OBVIOUS
<1>1. Len(slaveIn) = 0 /\ Len(s2m) = 0 /\ Len(outbox) = 0 /\ Len(wq) = 0 /\ Len(slog) = 0
  BY EmptySeq DEF Init
<1>2. node.exists = FALSE /\ node.reader \notin Nat
  BY NewNodeFields DEF Init
<1>3. \A t \in Threads : srv[t].pc = "idle" /\ ~srv[t].req.live
  BY DEF Init, Idle, NoRequest
<1>4. AckedInv /\ Exact(node, producer)
  BY AckedInit, EmptiedNode DEF Init
<1>5. ShapeInv
  BY <1>1 DEF Init, ShapeInv, OneSession, Known
<1>6. NumberInv /\ ConnInv /\ StartInv
  BY <1>1, <1>2, <1>3 DEF Init, NumberInv, ConnInv, StartInv, Asks
<1>7. OfferInv /\ AskInv
  BY <1>1, <1>3 DEF OfferInv, AskInv, Offered, Asked, Asks
<1>8. ConnectedInv /\ StreamInv /\ LateInv
  BY DEF Init, ConnectedInv, StreamInv, LateInv
<1>9. IsPrefixOfMaster
  BY <1>1 DEF Init, IsPrefixOfMaster
<1> QED BY <1>4, <1>5, <1>6, <1>7, <1>8, <1>9 DEF PrefixInv, LogInv, SessionInv

(* Every step keeps the invariant. *)
LEMMA PrefixInvStep == PrefixInv /\ [Next]_vars => PrefixInv'
<1> SUFFICES ASSUME PrefixInv, [Next]_vars PROVE PrefixInv'
  OBVIOUS
<1>1. AckedInv /\ TypeOK /\ Exact(node, producer)
  BY DEF PrefixInv, AckedInv
<1>2. AckedInv' /\ Exact(node, producer)'
  BY <1>1, AckedInvStep, ExactStep
<1>3. ASSUME overlap' = {} PROVE LogInv'
  <2>1. LogInv
    BY <1>3, OverlapSteps DEF PrefixInv
  <2>2. /\ SessionInv /\ ConnectedInv /\ StreamInv /\ LateInv /\ IsPrefixOfMaster
        /\ ShapeInv /\ NumberInv /\ ConnInv /\ StartInv /\ OfferInv /\ AskInv
    BY <2>1 DEF LogInv, SessionInv
  <2>3. ShapeInv'
    BY <1>1, <1>3, <2>2, ShapeStep
  <2>4. NumberInv' /\ ConnInv'
    BY <1>1, <1>3, <2>2, NumberStep, ConnStep
  <2>5. StartInv'
    BY <1>1, <1>3, <2>2, StartStep
  <2>6. OfferInv'
    BY <1>1, <1>3, <2>2, OfferStep
  <2>7. AskInv'
    BY <1>1, <1>3, <2>2, AskStep
  <2>8. ConnectedInv' /\ StreamInv' /\ LateInv'
    BY <1>1, <1>3, <2>2, ConnectedStep, StreamStep, LateStep
  <2>9. IsPrefixOfMaster'
    BY <1>1, <2>2, PrefixStep
  <2> QED BY <2>3, <2>4, <2>5, <2>6, <2>7, <2>8, <2>9 DEF LogInv, SessionInv
<1> QED BY <1>2, <1>3 DEF PrefixInv

(* The stages of a session and the run of records between the two servers,    *)
(* in every execution.                                                        *)
THEOREM Invariant == Spec => []PrefixInv
  BY PrefixInit, PrefixInvStep, PTL DEF Spec

(* HandleBGWorkerWriteBinlog and ProcessLeaderLog, for any number of server   *)
(* threads, window and batch sizes, lost connections, timeouts and failed     *)
(* reads: as long as no synchronisation rounds overlap, the slave's binlog is *)
(* a prefix of the master's.                                                  *)
THEOREM SlaveLogIsPrefix == Spec => []LogPrefix
<1>1. PrefixInv => LogPrefix
  BY DEF PrefixInv, LogInv, LogPrefix
<1> QED BY <1>1, Invariant, PTL

(* HandleBGWorkerWriteBinlog and ProcessLeaderLog: the whole system           *)
(* implements the abstract ReplicatedLog.  Every step is a write of the       *)
(* master, the copy of its next record, the first overlap or a stutter.       *)
THEOREM ImplementsLog == Spec => ImplementsReplicatedLog
<1>1. Init => Replicated!Init
  BY DEF Init, Replicated!Init
<1>2. PrefixInv /\ [Next]_vars => [Replicated!Next \/ overlap # {}]_(Replicated!vars)
  <2> SUFFICES ASSUME PrefixInv, [Next]_vars, overlap = {}
               PROVE  Replicated!Next \/ UNCHANGED Replicated!vars
    OBVIOUS
  <2>1. /\ producer' = producer \/ (producer' = producer + 1 /\ UNCHANGED <<slog, overlap>>)
    BY OverlapSteps
  <2>2. CASE producer' = producer + 1 /\ UNCHANGED <<slog, overlap>>
    BY <2>2 DEF Replicated!Next, Replicated!Propose
  <2>3. CASE producer' = producer /\ overlap' # {}
    BY <2>3 DEF Replicated!Next, Replicated!Break
  <2>4. CASE producer' = producer /\ overlap' = {}
    <3>1. CASE slog' = slog
      BY <2>4, <3>1 DEF Replicated!vars
    <3>2. CASE slog' = Append(slog, Len(slog) + 1) /\ Len(slog) + 1 <= producer
      <4>1. Len(slog) < producer
        <5>1. Len(slog) \in Nat /\ producer \in Nat
          BY LenProperties DEF PrefixInv, AckedInv, TypeOK
        <5> QED BY <3>2, <5>1
      <4> QED BY <2>4, <3>2, <4>1 DEF Replicated!Next, Replicated!Copy
    <3>3. TypeOK /\ ShapeInv /\ StreamInv
      BY DEF PrefixInv, AckedInv, LogInv, SessionInv
    <3> QED BY <3>1, <3>2, <3>3, NextRecord
  <2> QED BY <2>1, <2>2, <2>3, <2>4
<1> QED BY <1>1, <1>2, Invariant, PTL DEF Spec, ImplementsReplicatedLog, Replicated!Safe

-----------------------------------------------------------------------------
(* The size of the window: what an acknowledgement may still cover *)

(* A message whose records were not taken yet. *)
Untouched(m) == m.type = "BinlogSync" => m.chips # <<>> /\ m.begin = m.chips[1].off

HeadInv ==
  /\ \A i \in 2..Len(slaveIn) : Untouched(slaveIn[i])
  /\ \A i \in 1..Len(slaveIn) :
       slaveIn[i].chips # <<>> /\ slaveIn[i].begin > 0 => slaveIn[i].chips[1].off > 0

(* The node has the newest session, and offers arrive in their order. *)
LastInv == node.exists => nextSession = node.session + 1
OrderInv ==
  \A i, j \in 1..Len(slaveIn) :
    i < j /\ IsOffer(slaveIn[i]) /\ IsOffer(slaveIn[j]) => slaveIn[i].session < slaveIn[j].session

(* Once the node's session is asked for, it is the only one the slave knows. *)
Begun(s) == Asked(s) \/ Active(s)
BegunInv ==
  node.exists /\ Begun(node.session) =>
    /\ \A s : ~Offered(s)
    /\ attached \/ rstate = "kConnected" => session = node.session

ChipInv == node.exists /\ ~Active(node.session) => NotRead(node.session)

(* An acknowledgement that is due is for a session that is active, or over. *)
DueInv ==
  AckDue =>
    /\ session < nextSession
    /\ node.exists /\ (node.session = 0 \/ (attached /\ session = node.session)) => Active(node.session)

(* The node's session is asked for from the end of the slave's binlog. *)
AskedAt(s, x) ==
  \/ \E i \in 1..Len(s2m) : s2m[i].first /\ s2m[i].session = s /\ s2m[i].start = x
  \/ \E t \in Threads : Asks(t) /\ srv[t].req.session = s /\ srv[t].req.start = x
PlaceInv ==
  node.exists /\ Asked(node.session) =>
    ~AckDue /\ \A x : AskedAt(node.session, x) => x = Len(slog)

(* An acknowledgement of session s that was not carried out. *)
IsAckOf(r, s) == IsAck(r) /\ r.session = s
Acks(t, s) == srv[t].pc \in {"start", "apply"} /\ IsAckOf(srv[t].req, s)
Out(s, a, b) ==
  \/ \E i \in 1..Len(s2m) : IsAckOf(s2m[i], s) /\ s2m[i].start = a /\ s2m[i].end = b
  \/ \E t \in Threads : Acks(t, s) /\ srv[t].req.start = a /\ srv[t].req.end = b

OutInv ==
  /\ \A t \in Threads : srv[t].pc = "apply" => srv[t].req.type = "BinlogSync"
  /\ \A s, a, b : Out(s, a, b) =>
       s < nextSession /\ (node.exists /\ s = node.session => Active(s))

(* No two acknowledgements of session s cover the same record. *)
Disjoint(r, q) == r.end < q.start \/ q.end < r.start
Apart(s) ==
  /\ \A i, j \in 1..Len(s2m) :
       i # j /\ IsAckOf(s2m[i], s) /\ IsAckOf(s2m[j], s) => Disjoint(s2m[i], s2m[j])
  /\ \A i \in 1..Len(s2m), t \in Threads :
       IsAckOf(s2m[i], s) /\ Acks(t, s) => Disjoint(s2m[i], srv[t].req)
  /\ \A t, u \in Threads :
       t # u /\ Acks(t, s) /\ Acks(u, s) => Disjoint(srv[t].req, srv[u].req)

AckedAt(o) == \E i \in 1..Len(node.win.items) : node.win.items[i].off = o /\ node.win.items[i].acked

(* The slave may still acknowledge the first message. *)
Finishing ==
  /\ slaveIn # <<>> /\ slaveIn[1].type = "BinlogSync" /\ slaveIn[1].begin > 0
  /\ attached \/ rstate = "kConnected"
  /\ \/ slaveIn[1].chips = <<>>
     \/ rstate = "kConnected" /\ slaveIn[1].chips[1].session = session

(* Every record is acknowledged once. *)
RangeInv ==
  node.reader \in Nat =>
    /\ Apart(node.session)
    /\ \A a, b, o : Out(node.session, a, b) /\ AckedAt(o) => o < a \/ b < o
    /\ \A s, a, b : Out(s, a, b) /\ s # node.session => b <= node.acked
    /\ Finishing => /\ \A a, b : Out(node.session, a, b) => b < slaveIn[1].begin
                    /\ \A o : AckedAt(o) => o < slaveIn[1].begin

Unacked(items) == {i \in 1..Len(items) : ~items[i].acked}
SizeInv ==
  /\ node.reader \notin Nat => node.win = Reset
  /\ Len(node.win.items) <= WindowSize
  /\ node.win.total = Cardinality(Unacked(node.win.items))

AckInv ==
  /\ HeadInv /\ LastInv /\ OrderInv /\ BegunInv /\ ChipInv
  /\ DueInv /\ PlaceInv /\ OutInv /\ RangeInv /\ SizeInv

CountInv == PrefixInv /\ (overlap = {} => AckInv)

-----------------------------------------------------------------------------
(* The messages at the slave *)

(* Only the first message is ever opened. *)
LEMMA HeadStep ==
  ASSUME TypeOK, TypeOK', ShapeInv, HeadInv, InStep
  PROVE  HeadInv'
<1>0. /\ Len(slaveIn) \in Nat /\ Len(slaveIn') \in Nat
      /\ \A i \in 1..Len(slaveIn) : slaveIn[i] \in Response
  BY LenProperties, ElementOfSeq DEF TypeOK
<1>1. ASSUME NEW d \in {0, 1}, InKept(d) PROVE HeadInv'
  <2>1. \A i \in 1..Len(slaveIn') : i + d \in 1..Len(slaveIn) /\ slaveIn'[i] = slaveIn[i + d]
    BY <1>0, <1>1 DEF InKept
  <2>2. \A i \in 2..Len(slaveIn') : i \in 1..Len(slaveIn') /\ i + d \in 2..Len(slaveIn)
    BY <1>0, <1>1 DEF InKept
  <2> QED BY <2>1, <2>2 DEF HeadInv, Untouched
<1>2. CASE InSpent
  <2>1. slaveIn[1] \in Response /\ 1 \in 1..Len(slaveIn) /\ slaveIn[1].chips \in Seq(Chip)
    <3>1. 1 \in 1..Len(slaveIn)
      BY <1>2, TailFacts DEF InSpent, TypeOK
    <3> QED BY <1>0, <3>1 DEF Response
  <2>2. slaveIn'[1].chips = Tail(slaveIn[1].chips) /\ slaveIn'[1].begin = slaveIn[1].begin
    BY <1>2, <2>1 DEF InSpent, Response
  <2>3. ASSUME slaveIn'[1].chips # <<>>, slaveIn'[1].begin > 0 PROVE slaveIn'[1].chips[1].off > 0
    <3>1. slaveIn[1].chips # <<>> /\ slaveIn[1].chips[1].off > 0
      BY <1>2, <2>1, <2>2, <2>3 DEF InSpent, HeadInv
    <3>2. OneSession(slaveIn[1].chips)
      BY <2>1 DEF ShapeInv
    <3>3. Tail(slaveIn[1].chips) \in Seq(Chip)
      BY <2>1, <3>1, TailFacts
    <3>4. 1 \in 1..Len(Tail(slaveIn[1].chips))
      BY <2>2, <2>3, <3>3, TailFacts
    <3>5. /\ Tail(slaveIn[1].chips)[1] = slaveIn[1].chips[1 + 1]
          /\ 1 + 1 \in 1..Len(slaveIn[1].chips)
      BY <2>1, <3>1, <3>4, TailFacts
    <3>6. slaveIn[1].chips[1 + 1].off > 0
      BY <3>1, <3>2, <3>5 DEF OneSession
    <3> QED BY <2>2, <3>5, <3>6
  <2>4. \A i \in 2..Len(slaveIn) : slaveIn'[i] = slaveIn[i] /\ i \in 1..Len(slaveIn)
    BY <1>0, <1>2 DEF InSpent
  <2>5. Len(slaveIn') = Len(slaveIn)
    BY <1>2 DEF InSpent
  <2>6. \A i \in 2..Len(slaveIn') : Untouched(slaveIn'[i])
    BY <2>4, <2>5 DEF HeadInv
  <2>7. \A i \in 1..Len(slaveIn') : i = 1 \/ i \in 2..Len(slaveIn)
    BY <1>0, <2>5
  <2>8. \A i \in 1..Len(slaveIn') :
          slaveIn'[i].chips # <<>> /\ slaveIn'[i].begin > 0 => slaveIn'[i].chips[1].off > 0
    BY <2>3, <2>4, <2>7 DEF HeadInv
  <2> QED BY <2>6, <2>8 DEF HeadInv, Untouched
<1>3. ASSUME NEW m \in Response, InAdded(m), IsRefusal(m) \/ IsNewOffer(m) \/ IsBatch(m) \/ IsKeepAlive(m)
      PROVE  HeadInv'
  <2>1. Untouched(m) /\ (m.chips # <<>> /\ m.begin > 0 => m.chips[1].off > 0)
    <3>1. CASE IsRefusal(m) \/ IsNewOffer(m)
      BY <3>1 DEF IsRefusal, IsNewOffer, IsOffer, Untouched
    <3>2. CASE IsBatch(m)
      <4>1. m.chips # <<>>
        BY <3>2, TailFacts DEF IsBatch, TypeOK
      <4> QED BY <3>2, <4>1 DEF IsBatch, Untouched
    <3>3. CASE IsKeepAlive(m)
      BY <3>3 DEF IsKeepAlive, Untouched
    <3> QED BY <1>3, <3>1, <3>2, <3>3
  <2>2. \A i \in 1..Len(slaveIn') : (i \in 1..Len(slaveIn) /\ slaveIn'[i] = slaveIn[i]) \/ slaveIn'[i] = m
    BY <1>0, <1>3 DEF InAdded
  <2>3. \A i \in 2..Len(slaveIn') : i \in 1..Len(slaveIn') /\ (i \in 1..Len(slaveIn) => i \in 2..Len(slaveIn))
    BY <1>0
  <2>4. \A i \in 2..Len(slaveIn') : Untouched(slaveIn'[i])
    BY <2>1, <2>2, <2>3 DEF HeadInv
  <2>5. \A i \in 1..Len(slaveIn') :
          slaveIn'[i].chips # <<>> /\ slaveIn'[i].begin > 0 => slaveIn'[i].chips[1].off > 0
    BY <2>1, <2>2 DEF HeadInv
  <2> QED BY <2>4, <2>5 DEF HeadInv, Untouched
<1> QED BY <1>1, <1>2, <1>3 DEF InStep

(* The first message after a step was the first, opened or not, or nobody has *)
(* opened it.                                                                 *)
LEMMA FirstMessage ==
  ASSUME TypeOK, TypeOK', HeadInv, InStep, slaveIn' # <<>>
  PROVE  \/ Untouched(slaveIn'[1])
         \/ slaveIn # <<>> /\ slaveIn'[1] = slaveIn[1]
         \/ InSpent
<1>0. Len(slaveIn) \in Nat /\ Len(slaveIn') \in Nat /\ 1 \in 1..Len(slaveIn')
  BY LenProperties, TailFacts DEF TypeOK
<1>e. 1 <= Len(slaveIn) => slaveIn # <<>>
  BY EmptySeq
<1>1. CASE InKept(0)
  <2>1. slaveIn'[1] = slaveIn[1 + 0] /\ 1 <= Len(slaveIn)
    BY <1>0, <1>1 DEF InKept
  <2> QED BY <1>e, <2>1
<1>2. CASE InKept(1)
  <2>1. slaveIn'[1] = slaveIn[1 + 1] /\ 1 + 1 \in 2..Len(slaveIn)
    BY <1>0, <1>2 DEF InKept
  <2> QED BY <2>1 DEF HeadInv
<1>3. ASSUME NEW m \in Response, InAdded(m), IsRefusal(m) \/ IsNewOffer(m) \/ IsBatch(m) \/ IsKeepAlive(m)
      PROVE  Untouched(slaveIn'[1]) \/ (slaveIn # <<>> /\ slaveIn'[1] = slaveIn[1])
  <2>1. CASE 1 \in 1..Len(slaveIn)
    BY <1>0, <1>3, <1>e, <2>1 DEF InAdded
  <2>2. CASE Len(slaveIn) = 0
    <3>1. slaveIn'[0 + 1] = m
      BY <1>3, <2>2 DEF InAdded
    <3>2. Untouched(m)
      <4>1. CASE IsRefusal(m) \/ IsNewOffer(m)
        BY <4>1 DEF IsRefusal, IsNewOffer, IsOffer, Untouched
      <4>2. CASE IsBatch(m)
        <5>1. m.chips # <<>>
          BY <4>2, TailFacts DEF IsBatch, TypeOK
        <5> QED BY <4>2, <5>1 DEF IsBatch, Untouched
      <4>3. CASE IsKeepAlive(m)
        BY <4>3 DEF IsKeepAlive, Untouched
      <4> QED BY <1>3, <4>1, <4>2, <4>3
    <3> QED BY <3>1, <3>2
  <2> QED BY <1>0, <2>1, <2>2
<1> QED BY <1>1, <1>2, <1>3 DEF InStep

(* An acknowledgement is due when the last record of a message is written. *)
LEMMA DueStep ==
  ASSUME TypeOK, TypeOK', HeadInv, InStep, AckDue'
  PROVE  \/ AckDue /\ slaveIn'[1] = slaveIn[1]
         \/ InSpent /\ 1 \in 1..Len(slaveIn) /\ Carries(slaveIn[1].chips, session)
<1>1. slaveIn' # <<>> /\ slaveIn'[1].type = "BinlogSync" /\ slaveIn'[1].chips = <<>> /\ slaveIn'[1].begin > 0
  BY DEF AckDue
<1>2. ~Untouched(slaveIn'[1])
  BY <1>1 DEF Untouched
<1>3. CASE InSpent
  <2>1. 1 \in 1..Len(slaveIn)
    BY <1>3, TailFacts DEF InSpent, TypeOK
  <2>2. slaveIn[1] \in Response
    BY <2>1, ElementOfSeq DEF TypeOK
  <2>3. slaveIn[1].begin > 0
    BY <1>1, <1>3, <2>2 DEF InSpent, Response
  <2> QED BY <1>3, <2>1, <2>3 DEF InSpent, Carries, HeadInv
<1>4. CASE slaveIn # <<>> /\ slaveIn'[1] = slaveIn[1]
  BY <1>1, <1>4 DEF AckDue
<1> QED BY <1>1, <1>2, <1>3, <1>4, FirstMessage

-----------------------------------------------------------------------------
(* The newest session *)

(* A session number is generated for a new node. *)
LEMMA NumberSteps ==
  ASSUME [Next]_vars, overlap' = {}
  PROVE  nextSession' = nextSession \/ NodeAdded
<1> USE DEF masterVars, auxVars, netVars, slaveVars, ghostVars
<1>1. ASSUME NEW t \in Threads, TrySyncAddNode(t) PROVE nextSession' = nextSession \/ NodeAdded
  BY <1>1 DEF TrySyncAddNode, NodeAdded
<1>2. nextSession' = nextSession \/ \E t \in Threads : TrySyncAddNode(t)
  BY DEF Next, vars, ProposeLog, ServerThread, DealMessage, HandleTrySync,
         TrySyncGetSession, CheckSessionId, ActivateSlaveBinlogSync, UpdateSyncBinlogStatus,
         SyncBinlogToWq, AuxiliaryThread, WakeUpSlaveBinlogSync, EraseWriteQueue, ConsumeWriteQueue,
         SendSlaveBinlogChips, SendKeepAlive, MasterTimeout, Network, LinkDown, MasterFdClosed,
         SlaveFdClosed, SlaveFdTimeout, MetaSync, SlaveTimeout, BinlogWorker, SendTrySync,
         HandleTrySyncResponse, WriteBinlogRecord, SendBinlogSyncAck
<1> QED BY <1>1, <1>2

(* The node keeps the newest session. *)
LEMMA LastStep ==
  ASSUME TypeOK, LastInv, [Next]_vars, overlap' = {}
  PROVE  LastInv'
<1> SUFFICES ASSUME node'.exists PROVE nextSession' = node'.session + 1
  BY DEF LastInv
<1>1. NodeStep
  BY CleanNodeSteps
<1>2. CASE NodeAdded
  BY <1>2, NewNodeFields DEF NodeAdded, TypeOK
<1>3. CASE ~NodeAdded
  <2>1. nextSession' = nextSession
    BY <1>3, NumberSteps
  <2>2. node.exists /\ node'.session = node.session
    BY <1>1, <1>3, SessionSteps
  <2> QED BY <2>1, <2>2 DEF LastInv
<1> QED BY <1>2, <1>3

(* A new offer is of a newer session than every other offer. *)
LEMMA OrderStep ==
  ASSUME TypeOK, TypeOK', NumberInv, OrderInv, InStep
  PROVE  OrderInv'
<1>a. Len(slaveIn) \in Nat /\ Len(slaveIn') \in Nat
  BY LenProperties DEF TypeOK
<1> SUFFICES ASSUME NEW i \in 1..Len(slaveIn'), NEW j \in 1..Len(slaveIn'), i < j,
                    IsOffer(slaveIn'[i]), IsOffer(slaveIn'[j])
             PROVE  slaveIn'[i].session < slaveIn'[j].session
  BY DEF OrderInv, IsOffer
<1>1. ASSUME NEW d \in {0, 1}, InKept(d) PROVE slaveIn'[i].session < slaveIn'[j].session
  <2>1. /\ i + d \in 1..Len(slaveIn) /\ slaveIn'[i] = slaveIn[i + d]
        /\ j + d \in 1..Len(slaveIn) /\ slaveIn'[j] = slaveIn[j + d] /\ i + d < j + d
    BY <1>a, <1>1 DEF InKept
  <2> QED BY <2>1 DEF OrderInv
<1>2. CASE InSpent
  <2>1. slaveIn[1] \in Response
    BY <1>a, <1>2, ElementOfSeq DEF InSpent, TypeOK
  <2>2. slaveIn'[1].type = "BinlogSync"
    BY <1>2, <2>1 DEF InSpent, Response
  <2>3. i # 1
    BY <2>2 DEF IsOffer
  <2>4. i \in 2..Len(slaveIn) /\ j \in 2..Len(slaveIn) /\ i \in 1..Len(slaveIn) /\ j \in 1..Len(slaveIn)
    BY <1>a, <1>2, <2>3 DEF InSpent
  <2>5. slaveIn'[i] = slaveIn[i] /\ slaveIn'[j] = slaveIn[j]
    BY <1>2, <2>4 DEF InSpent
  <2> QED BY <2>4, <2>5 DEF OrderInv
<1>3. ASSUME NEW m \in Response, InAdded(m), IsRefusal(m) \/ IsNewOffer(m) \/ IsBatch(m) \/ IsKeepAlive(m)
      PROVE  slaveIn'[i].session < slaveIn'[j].session
  <2>1. i \in 1..Len(slaveIn) /\ slaveIn'[i] = slaveIn[i]
    BY <1>a, <1>3 DEF InAdded
  <2>2. CASE j \in 1..Len(slaveIn)
    <3>1. slaveIn'[j] = slaveIn[j]
      BY <1>3, <2>2 DEF InAdded
    <3> QED BY <2>1, <2>2, <3>1 DEF OrderInv
  <2>3. CASE j = Len(slaveIn) + 1
    <3>1. slaveIn'[j] = m
      BY <1>3, <2>3 DEF InAdded
    <3>2. m.session = nextSession
      BY <1>3, <3>1 DEF IsRefusal, IsNewOffer, IsBatch, IsKeepAlive, IsOffer
    <3> QED BY <2>1, <3>1, <3>2 DEF NumberInv
  <2> QED BY <1>a, <1>3, <2>2, <2>3 DEF InAdded
<1> QED BY <1>1, <1>2, <1>3 DEF InStep

(* A slave keeps its session until it connects again or is reset. *)
LEMMA SlaveSteps ==
  ASSUME TypeOK, [Next]_vars, ~Connects
  PROVE  /\ \/ MetaSync
            \/ attached' \/ rstate' = "kConnected" =>
                 session' = session /\ (attached \/ rstate = "kConnected")
         /\ session' = session \/ session' = 0
         /\ attached' /\ session' # 0 => attached /\ session' = session
<1> USE DEF masterVars, auxVars, netVars, slaveVars, ghostVars
<1>1. CASE HandleTrySyncResponse
  <2>1. slaveIn # <<>> /\ Head(slaveIn).type = "TrySync" /\ slaveIn' = Tail(slaveIn)
    BY <1>1 DEF HandleTrySyncResponse
  <2>2. Head(slaveIn) = slaveIn[1] /\ 1 \in 1..Len(slaveIn)
    BY <2>1, TailFacts DEF TypeOK
  <2> QED BY <1>1, <2>1, <2>2 DEF HandleTrySyncResponse, Connects, IsOffer
<1>2. CASE MetaSync
  BY <1>2 DEF MetaSync
<1>3. CASE WriteBinlogRecord
  BY <1>3 DEF WriteBinlogRecord
<1>4. CASE SlaveFdClosed \/ SlaveFdTimeout \/ SendTrySync \/ SlaveTimeout
  BY <1>4 DEF SlaveFdClosed, SlaveFdTimeout, Deactivate, SendTrySync, SlaveTimeout
<1>5. \/ UNCHANGED <<attached, rstate, session>> \/ HandleTrySyncResponse \/ MetaSync \/ WriteBinlogRecord
      \/ SlaveFdClosed \/ SlaveFdTimeout \/ SendTrySync \/ SlaveTimeout
  <2>1. ASSUME NEW t \in Threads, ServerThread(t) PROVE UNCHANGED <<attached, rstate, session>>
    BY <2>1 DEF ServerThread, DealMessage, HandleTrySync, TrySyncAddNode, TrySyncGetSession,
                CheckSessionId, ActivateSlaveBinlogSync, UpdateSyncBinlogStatus, SyncBinlogToWq
  <2>2. CASE AuxiliaryThread
    BY <2>2 DEF AuxiliaryThread, WakeUpSlaveBinlogSync, EraseWriteQueue, ConsumeWriteQueue,
                SendSlaveBinlogChips, SendKeepAlive
  <2>3. CASE UNCHANGED vars \/ ProposeLog \/ MasterTimeout \/ LinkDown \/ MasterFdClosed \/ SendBinlogSyncAck
    BY <2>3 DEF vars, ProposeLog, MasterTimeout, LinkDown, MasterFdClosed, SendBinlogSyncAck
  <2> QED BY <2>1, <2>2, <2>3 DEF Next, Network, BinlogWorker
<1> QED BY <1>1, <1>2, <1>3, <1>4, <1>5

(* The session of a new node is not asked for in the same step. *)
LEMMA OldSession ==
  ASSUME TypeOK, NumberInv, [Next]_vars, overlap' = {}, node'.exists,
         NEW s, s = node'.session, Begun(s)'
  PROVE  node.exists /\ node.session = s /\ ~NodeAdded
<1>0. NodeStep /\ RequestStep /\ (\A u \in Threads : TaskStep(u))
  BY CleanNodeSteps, RequestSteps, TaskSteps
<1> SUFFICES ASSUME NodeAdded PROVE FALSE
  BY <1>0, SessionSteps
<1>1. s = nextSession /\ node'.reader \notin Nat /\ node' # node
  BY NewNodeFields DEF NodeAdded, TypeOK
<1>2. Asked(s)'
  BY <1>1 DEF Begun, Active, Asked, Asks
<1>3. Asked(s)
  BY <1>0, <1>1, <1>2, AskedStep DEF RequestAdded
<1> QED BY <1>1, <1>3, NewNumber

(* The slave asks for the session of the first message. *)
LEMMA AskedOffer ==
  ASSUME TypeOK, NumberInv, LastInv, OrderInv, OfferInv, node.exists,
         NEW r \in Request, RequestAdded(r), r.first, r.session = node.session
  PROVE  \A s : ~Offered(s)'
<1>1. /\ slaveIn # <<>> /\ IsOffer(slaveIn[1]) /\ slaveIn' = Tail(slaveIn)
      /\ slaveIn[1].session = node.session
  BY DEF RequestAdded
<1>2. /\ Len(slaveIn) \in Nat /\ 1 \in 1..Len(slaveIn)
      /\ \A i \in 1..Len(slaveIn') : slaveIn'[i] = slaveIn[i + 1] /\ i + 1 \in 1..Len(slaveIn)
  BY <1>1, TailFacts DEF TypeOK
<1>3. ASSUME NEW i \in 1..Len(slaveIn'), IsOffer(slaveIn'[i]) PROVE FALSE
  <2>1. /\ i + 1 \in 1..Len(slaveIn) /\ IsOffer(slaveIn[i + 1]) /\ 1 < i + 1
    BY <1>2, <1>3
  <2>2. slaveIn[1].session < slaveIn[i + 1].session /\ slaveIn[i + 1].session < nextSession
    BY <1>1, <1>2, <2>1 DEF OrderInv, NumberInv
  <2>3. slaveIn[i + 1] \in Response
    BY <2>1, ElementOfSeq DEF TypeOK
  <2>4. slaveIn[i + 1].session \in Nat /\ node.session \in Nat
    BY <2>3 DEF Response, TypeOK, SlaveNode
  <2> QED BY <1>1, <2>2, <2>4 DEF LastInv
<1> QED BY <1>3 DEF Offered, IsOffer

(* A session that was asked for is the only one that the slave knows. *)
LEMMA BegunStep ==
  ASSUME TypeOK, NumberInv, ConnInv, OfferInv, LastInv, OrderInv, BegunInv, [Next]_vars, overlap' = {}
  PROVE  BegunInv'
<1>0. NodeStep /\ RequestStep /\ InStep /\ (\A u \in Threads : TaskStep(u))
  BY CleanNodeSteps, RequestSteps, InSteps, TaskSteps
<1> SUFFICES ASSUME node'.exists, NEW s, s = node'.session, Begun(s)'
             PROVE  /\ \A x : ~Offered(x)'
                    /\ attached' \/ rstate' = "kConnected" => session' = s
  BY DEF BegunInv, Begun, Asked, Asks, Active, Offered, IsOffer
<1>1. node.exists /\ node.session = s /\ ~NodeAdded
  BY OldSession
<1>2. CASE Begun(s)
  <2>1. /\ \A x : ~Offered(x)
        /\ attached \/ rstate = "kConnected" => session = s
    BY <1>1, <1>2 DEF BegunInv
  <2>2. \A x : ~Offered(x)'
    BY <1>0, <1>1, <2>1, OfferedStep DEF IsNewOffer
  <2>3. ~Connects
    BY <2>1 DEF Connects, Offered
  <2>4. ~MetaSync
    <3>1. CanWrite
      BY <1>1, <1>2 DEF ConnInv, Begun
    <3> QED BY <3>1 DEF CanWrite, MetaSync
  <2> QED BY <2>1, <2>2, <2>3, <2>4, SlaveSteps
<1>3. CASE ~Begun(s)
  <2>1. Asked(s)'
    <3>1. ~Active(s)'
      BY <1>0, <1>3, ActiveStep DEF Begun, Asked
    <3> QED BY <3>1 DEF Begun
  <2>2. PICK r \in Request : RequestAdded(r) /\ r.first /\ r.session = s
    BY <1>0, <1>3, <2>1, AskedStep DEF Begun
  <2>3. session' = s
    BY <2>2 DEF RequestAdded
  <2> QED BY <1>1, <2>2, <2>3, AskedOffer
<1> QED BY <1>2, <1>3

(* Nothing is on its way for a node that is not active. *)
LEMMA ChipStep ==
  ASSUME TypeOK, ShapeInv, NumberInv, StartInv, AskInv, ChipInv, [Next]_vars, overlap' = {}
  PROVE  ChipInv'
<1>0. NodeStep /\ InStep
  BY CleanNodeSteps, InSteps
<1> SUFFICES ASSUME node'.exists, NEW s, s = node'.session, ~Active(s)'
             PROVE  NotRead(s)'
  BY DEF ChipInv, NotRead, NotSent, NotTaken, Carries, Active
<1>1. NotRead(s)
  <2>1. CASE NodeAdded
    <3>1. s = nextSession
      BY <2>1, NewNodeFields DEF NodeAdded, TypeOK
    <3> QED BY <3>1, NewNotRead
  <2>2. CASE node.exists /\ node.session = s
    <3>1. ~Active(s)
      <4>1. ~NodeRemoved
        BY NewNodeFields DEF NodeRemoved
      <4> QED BY <1>0, <4>1, ActiveSteps
    <3> QED BY <2>2, <3>1 DEF ChipInv
  <2> QED BY <1>0, <2>1, <2>2, SessionSteps
<1>2. NotSent(s)' /\ NotTaken(s)' /\ ~Carries(wq, s)'
  BY <1>0, <1>1, NotSentStep, NotTakenStep, NotQueuedStep DEF NotRead
<1> QED BY <1>2 DEF NotRead

-----------------------------------------------------------------------------
(* Acknowledgements and their sessions *)

(* An active node stays active as long as it exists. *)
LEMMA StaysActive ==
  ASSUME TypeOK, StartInv, AskInv, NodeStep, node'.exists, NEW s, Active(s)
  PROVE  Active(s)'
<1>1. ~NodeRemoved
  BY NewNodeFields DEF NodeRemoved
<1> QED BY <1>1, ActiveSteps

(* The records of a message are written in the session that is active. *)
LEMMA DueInvStep ==
  ASSUME TypeOK, TypeOK', NumberInv, StartInv, AskInv, HeadInv, LastInv, ChipInv, DueInv,
         [Next]_vars, overlap' = {}
  PROVE  DueInv'
<1>0. NodeStep /\ InStep
  BY CleanNodeSteps, InSteps
<1>a. /\ session \in Nat /\ nextSession \in Nat /\ node.session \in Nat /\ nextSession' \in Nat
      /\ nextSession <= nextSession' /\ session' \in Nat
  <2>1. session \in Nat /\ session' \in Nat /\ node.session \in Nat
    BY DEF TypeOK, SlaveNode
  <2> QED BY <2>1, NumbersGrow
<1> SUFFICES ASSUME AckDue', NEW x, x = node'.session
             PROVE  /\ session' < nextSession'
                    /\ node'.exists /\ (x = 0 \/ (attached' /\ session' = x)) => Active(x)'
  BY DEF DueInv, Active
<1>1. CASE InSpent /\ 1 \in 1..Len(slaveIn) /\ Carries(slaveIn[1].chips, session)
  <2>1. rstate = "kConnected" /\ UNCHANGED <<session, attached, node>>
    BY <1>1 DEF InSpent, WriteBinlogRecord, masterVars
  <2>2. session < nextSession
    BY <2>1 DEF NumberInv
  <2>3. ASSUME node.exists, node.session = 0 \/ session = node.session PROVE Active(x)'
    <3>1. session = node.session
      BY <1>a, <2>2, <2>3 DEF LastInv
    <3>2. ~NotRead(node.session)
      BY <1>1, <3>1 DEF NotRead, NotSent
    <3>3. Active(node.session)
      BY <2>3, <3>2 DEF ChipInv
    <3> QED BY <2>1, <3>3 DEF Active
  <2> QED BY <1>a, <2>1, <2>2, <2>3
<1>2. CASE AckDue /\ slaveIn'[1] = slaveIn[1]
  <2>1. session < nextSession
    BY <1>2 DEF DueInv
  <2>2. ~Connects
    BY <1>2 DEF AckDue, Connects, IsOffer
  <2>3. /\ session' = session \/ session' = 0
        /\ attached' /\ session' # 0 => attached /\ session' = session
    BY <2>2, SlaveSteps
  <2>4. session' < nextSession'
    BY <1>a, <2>1, <2>3
  <2>5. ASSUME node'.exists, x = 0 \/ (attached' /\ session' = x) PROVE Active(x)'
    <3>1. node.exists /\ node.session = x
      <4>1. CASE NodeAdded
        <5>1. x = nextSession
          BY <4>1, NewNodeFields DEF NodeAdded, TypeOK
        <5> QED BY <1>a, <2>1, <2>3, <2>5, <5>1
      <4> QED BY <1>0, <2>5, <4>1, SessionSteps
    <3>2. x = 0 \/ (attached /\ session = x)
      BY <2>3, <2>5
    <3>3. Active(x)
      BY <1>2, <3>1, <3>2 DEF DueInv
    <3> QED BY <1>0, <2>5, <3>3, StaysActive
  <2> QED BY <2>4, <2>5
<1> QED BY <1>0, <1>1, <1>2, DueStep

(* A first request is where it was, or was sent. *)
LEMMA AskedAtStep ==
  ASSUME TypeOK, RequestStep, \A u \in Threads : TaskStep(u), NEW s, NEW x, AskedAt(s, x)'
  PROVE  AskedAt(s, x) \/ \E r \in Request : RequestAdded(r) /\ r.first /\ s = r.session /\ x = r.start
<1>0. Len(s2m) \in Nat
  BY LenProperties DEF TypeOK
<1>1. ASSUME NEW i \in 1..Len(s2m'), s2m'[i].first, s2m'[i].session = s, s2m'[i].start = x
      PROVE  AskedAt(s, x) \/ \E r \in Request : RequestAdded(r) /\ r.first /\ s = r.session /\ x = r.start
  <2>1. ASSUME NEW d \in {0, 1}, RequestsKept(d) PROVE AskedAt(s, x)
    <3>1. i + d \in 1..Len(s2m) /\ SameRequest(s2m'[i], s2m[i + d])
      BY <1>0, <2>1 DEF RequestsKept
    <3> QED BY <1>1, <3>1 DEF AskedAt, SameRequest
  <2>2. ASSUME NEW r \in Request, RequestAdded(r)
        PROVE  AskedAt(s, x) \/ (r.first /\ s = r.session /\ x = r.start)
    <3>1. CASE i \in 1..Len(s2m)
      BY <1>1, <2>2, <3>1 DEF RequestAdded, AskedAt
    <3>2. CASE i = Len(s2m) + 1
      BY <1>1, <2>2, <3>2 DEF RequestAdded
    <3> QED BY <1>0, <2>2, <3>1, <3>2 DEF RequestAdded
  <2> QED BY <2>1, <2>2 DEF RequestStep
<1>2. ASSUME NEW u \in Threads, srv'[u].pc \in {"start", "apply"}, srv'[u].req.first,
             srv'[u].req.session = s, srv'[u].req.start = x
      PROVE  AskedAt(s, x)
  <2>1. CASE TaskKept(u)
    BY <1>2, <2>1 DEF TaskKept, SameRequest, AskedAt, Asks
  <2>2. CASE srv'[u] = Idle
    BY <1>2, <2>2 DEF Idle
  <2>3. CASE s2m # <<>> /\ srv'[u] = [pc |-> "start", req |-> Head(s2m)]
    <3>1. Head(s2m) = s2m[1] /\ 1 \in 1..Len(s2m)
      BY <2>3, TailFacts DEF TypeOK
    <3> QED BY <1>2, <2>3, <3>1 DEF AskedAt
  <2> QED BY <2>1, <2>2, <2>3 DEF TaskStep
<1> QED BY <1>1, <1>2 DEF AskedAt, Asks

(* The slave's binlog does not grow between the request and its execution. *)
LEMMA PlaceStep ==
  ASSUME TypeOK, TypeOK', NumberInv, AskInv, HeadInv, BegunInv, PlaceInv, [Next]_vars, overlap' = {}
  PROVE  PlaceInv'
<1>0. NodeStep /\ RequestStep /\ InStep /\ (\A u \in Threads : TaskStep(u))
  BY CleanNodeSteps, RequestSteps, InSteps, TaskSteps
<1> SUFFICES ASSUME node'.exists, NEW s, s = node'.session, Asked(s)'
             PROVE  ~AckDue' /\ \A x : AskedAt(s, x)' => x = Len(slog')
  BY DEF PlaceInv, Asked, Asks, AskedAt
<1>1. node.exists /\ node.session = s /\ s \in Nat
  BY OldSession DEF Begun, Asked, Asks, TypeOK, SlaveNode
<1>2. CASE Asked(s)
  <2>1. ~AckDue /\ NotSent(s) /\ (rstate = "kConnected" => session = s)
    BY <1>1, <1>2 DEF PlaceInv, AskInv, NotRead, BegunInv, Begun
  <2>2. ~AckDue'
    BY <1>0, <2>1, DueStep DEF InSpent, NotSent
  <2>3. slog' = slog
    BY <2>1, SlogSteps DEF RecordWritten, InSpent, NotSent
  <2>4. ASSUME NEW x, AskedAt(s, x)' PROVE x = Len(slog')
    <3>1. CASE AskedAt(s, x)
      BY <1>1, <1>2, <2>3, <3>1 DEF PlaceInv
    <3>2. ASSUME NEW r \in Request, RequestAdded(r), r.first, x = r.start PROVE x = Len(slog')
      BY <2>3, <3>2 DEF RequestAdded
    <3> QED BY <1>0, <2>4, <3>1, <3>2, AskedAtStep
  <2> QED BY <2>2, <2>4
<1>3. CASE ~Asked(s)
  <2>1. PICK r \in Request : RequestAdded(r) /\ r.first /\ r.session = s
    BY <1>0, <1>3, AskedStep
  <2>2. slaveIn # <<>> /\ IsOffer(slaveIn[1]) /\ slog' = slog
    BY <2>1 DEF RequestAdded
  <2>3. ~AckDue'
    BY <1>0, <2>2, DueStep DEF AckDue, InSpent, IsOffer
  <2>4. ASSUME NEW x, AskedAt(s, x)' PROVE x = Len(slog')
    <3>1. ~AskedAt(s, x)
      BY <1>3 DEF AskedAt, Asked
    <3>2. PICK q \in Request : RequestAdded(q) /\ q.first /\ x = q.start
      BY <1>0, <2>4, <3>1, AskedAtStep
    <3> QED BY <3>2 DEF RequestAdded
  <2> QED BY <2>3, <2>4
<1> QED BY <1>2, <1>3

(* The slave acknowledges the records a..b of its session s. *)
AckSent(s, a, b) ==
  /\ AckDue /\ attached /\ slaveIn' = Tail(slaveIn)
  /\ s = session /\ a = slaveIn[1].begin /\ b = Len(slog)
  /\ UNCHANGED <<node, slog, session>>

(* An acknowledgement is where it was, or was sent. *)
LEMMA OutStep ==
  ASSUME TypeOK, RequestStep, \A u \in Threads : TaskStep(u), NEW s, NEW a, NEW b, Out(s, a, b)'
  PROVE  Out(s, a, b) \/ AckSent(s, a, b)
<1>0. Len(s2m) \in Nat
  BY LenProperties DEF TypeOK
<1>1. ASSUME NEW i \in 1..Len(s2m'), IsAckOf(s2m'[i], s), s2m'[i].start = a, s2m'[i].end = b
      PROVE  Out(s, a, b) \/ AckSent(s, a, b)
  <2>1. ASSUME NEW d \in {0, 1}, RequestsKept(d) PROVE Out(s, a, b)
    <3>1. i + d \in 1..Len(s2m) /\ SameRequest(s2m'[i], s2m[i + d])
      BY <1>0, <2>1 DEF RequestsKept
    <3> QED BY <1>1, <3>1 DEF Out, IsAckOf, IsAck, SameRequest
  <2>2. ASSUME NEW r \in Request, RequestAdded(r)
        PROVE  Out(s, a, b) \/ AckSent(s, a, b)
    <3>1. CASE i \in 1..Len(s2m)
      BY <1>1, <2>2, <3>1 DEF RequestAdded, Out
    <3>2. CASE i = Len(s2m) + 1
      <4>1. s2m'[i] = r /\ attached
        BY <2>2, <3>2 DEF RequestAdded
      <4>2. IsAck(r) /\ r.session = s /\ r.start = a /\ r.end = b
        BY <1>1, <4>1 DEF IsAckOf
      <4> QED BY <2>2, <4>1, <4>2 DEF RequestAdded, AckSent
    <3> QED BY <1>0, <2>2, <3>1, <3>2 DEF RequestAdded
  <2> QED BY <2>1, <2>2 DEF RequestStep
<1>2. ASSUME NEW u \in Threads, srv'[u].pc \in {"start", "apply"}, IsAckOf(srv'[u].req, s),
             srv'[u].req.start = a, srv'[u].req.end = b
      PROVE  Out(s, a, b)
  <2>1. CASE TaskKept(u)
    BY <1>2, <2>1 DEF TaskKept, SameRequest, Out, Acks, IsAckOf, IsAck
  <2>2. CASE srv'[u] = Idle
    BY <1>2, <2>2 DEF Idle
  <2>3. CASE s2m # <<>> /\ srv'[u] = [pc |-> "start", req |-> Head(s2m)]
    <3>1. Head(s2m) = s2m[1] /\ 1 \in 1..Len(s2m)
      BY <2>3, TailFacts DEF TypeOK
    <3> QED BY <1>2, <2>3, <3>1 DEF Out
  <2> QED BY <2>1, <2>2, <2>3 DEF TaskStep
<1> QED BY <1>1, <1>2 DEF Out, Acks, IsAckOf, IsAck

(* An acknowledgement of the node's session comes when that is active. *)
LEMMA OutInvStep ==
  ASSUME TypeOK, TypeOK', StartInv, AskInv, DueInv, OutInv, [Next]_vars, overlap' = {}
  PROVE  OutInv'
<1>0. NodeStep /\ RequestStep /\ (\A u \in Threads : TaskStep(u))
  BY CleanNodeSteps, RequestSteps, TaskSteps
<1>1. ASSUME NEW t \in Threads, srv'[t].pc = "apply" PROVE srv'[t].req.type = "BinlogSync"
  <2>1. TaskKept(t)
    BY <1>0, <1>1 DEF TaskStep, Idle
  <2> QED BY <1>1, <2>1 DEF TaskKept, SameRequest, OutInv
<1>2. ASSUME NEW s, NEW a, NEW b, Out(s, a, b)'
      PROVE  s < nextSession' /\ (node'.exists /\ s = node'.session => Active(s)')
  <2>a. nextSession \in Nat /\ nextSession' \in Nat /\ nextSession <= nextSession'
    BY NumbersGrow
  <2>1. CASE Out(s, a, b)
    <3>1. s \in Nat
      <4>1. \A i \in 1..Len(s2m) : s2m[i] \in Request
        BY ElementOfSeq DEF TypeOK
      <4>2. \A t \in Threads : srv[t].req \in Request
        BY DEF TypeOK, Task
      <4> QED BY <2>1, <4>1, <4>2 DEF Out, Acks, IsAckOf, Request
    <3>2. s < nextSession
      BY <2>1 DEF OutInv
    <3>3. ASSUME node'.exists, s = node'.session PROVE Active(s)'
      <4>1. CASE NodeAdded
        <5>1. s = nextSession
          BY <3>3, <4>1, NewNodeFields DEF NodeAdded, TypeOK
        <5> QED BY <2>a, <3>2, <5>1
      <4>2. CASE node.exists /\ node.session = s
        BY <1>0, <2>1, <3>3, <4>2, StaysActive DEF OutInv
      <4> QED BY <1>0, <3>3, <4>1, <4>2, SessionSteps
    <3> QED BY <2>a, <3>1, <3>2, <3>3
  <2>2. CASE AckSent(s, a, b)
    <3>1. s = session /\ node' = node /\ s < nextSession /\ s \in Nat
      BY <2>2 DEF AckSent, DueInv, TypeOK
    <3>2. node.exists /\ s = node.session => Active(s)
      BY <2>2 DEF AckSent, DueInv
    <3> QED BY <2>a, <3>1, <3>2 DEF Active
  <2> QED BY <1>0, <1>2, <2>1, <2>2, OutStep
<1> QED BY <1>1, <1>2 DEF OutInv, Out, Acks, IsAckOf, IsAck, Active

-----------------------------------------------------------------------------
(* Every record is acknowledged once *)

(* The request that a thread has after a step. *)
LEMMA AcksStep ==
  ASSUME TypeOK, NEW t \in Threads, TaskStep(t), NEW s, Acks(t, s)'
  PROVE  \/ Acks(t, s) /\ SameRequest(srv'[t].req, srv[t].req)
         \/ /\ 1 \in 1..Len(s2m) /\ srv'[t].req = s2m[1] /\ IsAckOf(s2m[1], s)
            /\ \A v \in Threads \ {t} : srv'[v] = srv[v]
            /\ \A i \in 1..Len(s2m') : s2m'[i] = s2m[i + 1] /\ i + 1 \in 1..Len(s2m) /\ i + 1 # 1
<1>0. srv'[t].pc \in {"start", "apply"} /\ IsAckOf(srv'[t].req, s)
  BY DEF Acks, IsAckOf, IsAck
<1>1. CASE TaskKept(t)
  BY <1>0, <1>1 DEF TaskKept, SameRequest, Acks, IsAckOf, IsAck
<1>2. CASE srv'[t] = Idle
  BY <1>0, <1>2 DEF Idle
<1>3. CASE /\ s2m # <<>> /\ s2m' = Tail(s2m) /\ srv'[t] = [pc |-> "start", req |-> Head(s2m)]
           /\ \A v \in Threads \ {t} : srv'[v] = srv[v]
  <2>1. /\ Head(s2m) = s2m[1] /\ 1 \in 1..Len(s2m) /\ srv'[t].req = Head(s2m)
        /\ \A i \in 1..Len(s2m') : s2m'[i] = s2m[i + 1] /\ i + 1 \in 1..Len(s2m)
    BY <1>3, TailFacts DEF TypeOK
  <2> QED BY <1>0, <1>3, <2>1
<1> QED BY <1>1, <1>2, <1>3 DEF TaskStep

(* The request at a position of the connection after a step. *)
LEMMA SentStep ==
  ASSUME TypeOK, RequestStep, NEW s, NEW i \in 1..Len(s2m'), IsAckOf(s2m'[i], s)
  PROVE  \/ \E d \in {0, 1} : RequestsKept(d) /\ i + d \in 1..Len(s2m)
                              /\ SameRequest(s2m'[i], s2m[i + d]) /\ IsAckOf(s2m[i + d], s)
         \/ \E r \in Request :
              /\ RequestAdded(r)
              /\ \/ i \in 1..Len(s2m) /\ s2m'[i] = s2m[i]
                 \/ i = Len(s2m) + 1 /\ s2m'[i] = r /\ AckSent(s, r.start, r.end)
<1>0. Len(s2m) \in Nat
  BY LenProperties DEF TypeOK
<1>1. ASSUME NEW d \in {0, 1}, RequestsKept(d)
      PROVE  i + d \in 1..Len(s2m) /\ SameRequest(s2m'[i], s2m[i + d]) /\ IsAckOf(s2m[i + d], s)
  <2>1. i + d \in 1..Len(s2m) /\ SameRequest(s2m'[i], s2m[i + d])
    BY <1>0, <1>1 DEF RequestsKept
  <2> QED BY <2>1 DEF SameRequest, IsAckOf, IsAck
<1>2. ASSUME NEW r \in Request, RequestAdded(r)
      PROVE  \/ i \in 1..Len(s2m) /\ s2m'[i] = s2m[i]
             \/ i = Len(s2m) + 1 /\ s2m'[i] = r /\ AckSent(s, r.start, r.end)
  <2>1. CASE i \in 1..Len(s2m)
    BY <1>2, <2>1 DEF RequestAdded
  <2>2. CASE i = Len(s2m) + 1
    <3>1. s2m'[i] = r /\ attached
      BY <1>2, <2>2 DEF RequestAdded
    <3>2. IsAck(r) /\ r.session = s
      BY <3>1 DEF IsAckOf
    <3> QED BY <1>2, <2>2, <3>1, <3>2 DEF RequestAdded, AckSent
  <2> QED BY <1>0, <1>2, <2>1, <2>2 DEF RequestAdded
<1> QED BY <1>1, <1>2 DEF RequestStep

(* A range that is acknowledged lies behind all others. *)
LEMMA ApartStep ==
  ASSUME TypeOK, RequestStep, \A u \in Threads : TaskStep(u), NEW s, Apart(s),
         \A a, b, c, d : AckSent(s, a, b) /\ Out(s, c, d) => d < a
  PROVE  Apart(s)'
<1>0. Len(s2m) \in Nat
  BY LenProperties DEF TypeOK
<1>b. ASSUME NEW r \in Request, AckSent(s, r.start, r.end), NEW q, Out(s, q.start, q.end)
      PROVE  Disjoint(r, q) /\ Disjoint(q, r)
  BY <1>b DEF Disjoint
<1>c. /\ \A i \in 1..Len(s2m) : IsAckOf(s2m[i], s) => Out(s, s2m[i].start, s2m[i].end)
      /\ \A t \in Threads : Acks(t, s) => Out(s, srv[t].req.start, srv[t].req.end)
  BY DEF Out
<1>d. ASSUME NEW p, NEW q, NEW u, NEW v, SameRequest(p, u), SameRequest(q, v), Disjoint(u, v)
      PROVE  Disjoint(p, q)
  BY <1>d DEF SameRequest, Disjoint
<1>s. \A q : SameRequest(q, q)
  BY DEF SameRequest
<1>1. ASSUME NEW i \in 1..Len(s2m'), NEW j \in 1..Len(s2m'), i # j, IsAckOf(s2m'[i], s), IsAckOf(s2m'[j], s)
      PROVE  Disjoint(s2m'[i], s2m'[j])
  <2>1. ASSUME NEW d \in {0, 1}, RequestsKept(d) PROVE Disjoint(s2m'[i], s2m'[j])
    <3>1. /\ i + d \in 1..Len(s2m) /\ SameRequest(s2m'[i], s2m[i + d])
          /\ j + d \in 1..Len(s2m) /\ SameRequest(s2m'[j], s2m[j + d]) /\ i + d # j + d
      BY <1>0, <1>1, <2>1 DEF RequestsKept
    <3>2. IsAckOf(s2m[i + d], s) /\ IsAckOf(s2m[j + d], s)
      BY <1>1, <3>1 DEF SameRequest, IsAckOf, IsAck
    <3>3. Disjoint(s2m[i + d], s2m[j + d])
      BY <3>1, <3>2 DEF Apart
    <3> QED BY <1>d, <3>1, <3>3
  <2>2. ASSUME NEW r \in Request, RequestAdded(r) PROVE Disjoint(s2m'[i], s2m'[j])
    <3>1. \A k \in 1..Len(s2m) : s2m'[k] = s2m[k]
      BY <2>2 DEF RequestAdded
    <3>2. s2m'[Len(s2m) + 1] = r /\ attached
      BY <2>2 DEF RequestAdded
    <3>3. \A k \in 1..Len(s2m') : k \in 1..Len(s2m) \/ k = Len(s2m) + 1
      BY <1>0, <2>2 DEF RequestAdded
    <3>4. IsAckOf(r, s) => AckSent(s, r.start, r.end)
      BY <2>2, <3>2 DEF IsAckOf, RequestAdded, AckSent
    <3>5. CASE i \in 1..Len(s2m) /\ j \in 1..Len(s2m)
      BY <1>1, <3>1, <3>5 DEF Apart
    <3>6. CASE i = Len(s2m) + 1 /\ j \in 1..Len(s2m)
      BY <1>1, <1>b, <1>c, <3>1, <3>2, <3>4, <3>6
    <3>7. CASE j = Len(s2m) + 1 /\ i \in 1..Len(s2m)
      BY <1>1, <1>b, <1>c, <3>1, <3>2, <3>4, <3>7
    <3> QED BY <1>1, <3>3, <3>5, <3>6, <3>7
  <2> QED BY <2>1, <2>2 DEF RequestStep
<1>2. ASSUME NEW i \in 1..Len(s2m'), NEW t \in Threads, IsAckOf(s2m'[i], s), Acks(t, s)'
      PROVE  Disjoint(s2m'[i], srv'[t].req)
  <2>1. CASE /\ 1 \in 1..Len(s2m) /\ srv'[t].req = s2m[1] /\ IsAckOf(s2m[1], s)
             /\ s2m'[i] = s2m[i + 1] /\ i + 1 \in 1..Len(s2m) /\ i + 1 # 1
    BY <1>2, <2>1 DEF Apart
  <2>2. CASE Acks(t, s) /\ SameRequest(srv'[t].req, srv[t].req)
    <3>1. ASSUME NEW d \in {0, 1}, i + d \in 1..Len(s2m),
                 SameRequest(s2m'[i], s2m[i + d]), IsAckOf(s2m[i + d], s)
          PROVE  Disjoint(s2m'[i], srv'[t].req)
      <4>1. Disjoint(s2m[i + d], srv[t].req)
        BY <2>2, <3>1 DEF Apart
      <4> QED BY <1>d, <2>2, <3>1, <4>1
    <3>2. CASE i \in 1..Len(s2m) /\ s2m'[i] = s2m[i]
      <4>1. Disjoint(s2m[i], srv[t].req)
        BY <1>2, <2>2, <3>2 DEF Apart
      <4> QED BY <1>d, <1>s, <2>2, <3>2, <4>1
    <3>3. ASSUME NEW r \in Request, s2m'[i] = r, AckSent(s, r.start, r.end)
          PROVE  Disjoint(s2m'[i], srv'[t].req)
      <4>1. Disjoint(r, srv[t].req)
        BY <1>b, <1>c, <2>2, <3>3
      <4> QED BY <1>d, <1>s, <2>2, <3>3, <4>1
    <3> QED BY <1>2, <3>1, <3>2, <3>3, SentStep
  <2> QED BY <1>2, <2>1, <2>2, AcksStep
<1>3. ASSUME NEW t \in Threads, NEW u \in Threads, t # u, Acks(t, s)', Acks(u, s)'
      PROVE  Disjoint(srv'[t].req, srv'[u].req)
  <2>1. ASSUME NEW v \in Threads, NEW w \in Threads, v # w, Acks(w, s)',
               1 \in 1..Len(s2m), srv'[v].req = s2m[1], IsAckOf(s2m[1], s), srv'[w] = srv[w]
        PROVE  Disjoint(srv'[v].req, srv'[w].req) /\ Disjoint(srv'[w].req, srv'[v].req)
    <3>1. Acks(w, s)
      BY <2>1 DEF Acks, IsAckOf, IsAck
    <3> QED BY <2>1, <3>1 DEF Apart, Disjoint
  <2>2. CASE /\ Acks(t, s) /\ SameRequest(srv'[t].req, srv[t].req)
             /\ Acks(u, s) /\ SameRequest(srv'[u].req, srv[u].req)
    <3>1. Disjoint(srv[t].req, srv[u].req)
      BY <1>3, <2>2 DEF Apart
    <3> QED BY <1>d, <2>2, <3>1
  <2> QED BY <1>3, <2>1, <2>2, AcksStep
<1> QED BY <1>1, <1>2, <1>3 DEF Apart, IsAckOf, IsAck, Disjoint, Acks

(* A message that nobody has opened and that the slave will write starts      *)
(* behind the slave's binlog.                                                 *)
LEMMA FreshMessage ==
  ASSUME TypeOK', StreamInv', Finishing', Untouched(slaveIn'[1])
  PROVE  slaveIn'[1].begin = Len(slog') + 1
<1>1. /\ slaveIn' # <<>> /\ slaveIn'[1].chips # <<>> /\ slaveIn'[1].begin = slaveIn'[1].chips[1].off
      /\ rstate' = "kConnected" /\ Carries(slaveIn'[1].chips, session')
  BY DEF Finishing, Untouched, Carries
<1>2. 1 \in 1..Len(slaveIn') /\ slaveIn'[1].chips \in Seq(Chip)
  <2>1. 1 \in 1..Len(slaveIn')
    BY <1>1, TailFacts DEF TypeOK
  <2>2. slaveIn'[1] \in Response
    BY <2>1, ElementOfSeq DEF TypeOK
  <2> QED BY <2>1, <2>2 DEF Response
<1>3. PICK e \in [0..Len(slaveIn') -> Nat] : Arrives(e)'
  BY <1>1 DEF StreamInv
<1>4. e[0] = Len(slog') /\ Follows(slaveIn'[1].chips, e[1 - 1], e[1], session')
  BY <1>2, <1>3 DEF Arrives
<1>5. 1 \in 1..Len(slaveIn'[1].chips)
  BY <1>1, <1>2, TailFacts
<1>6. slaveIn'[1].chips[1].off = e[1 - 1] + 1
  BY <1>1, <1>4, <1>5 DEF Follows
<1> QED BY <1>1, <1>4, <1>6

(* The offset of an item is a number. *)
LEMMA ItemOffset ==
  ASSUME TypeOK', NEW o, AckedAt(o)'
  PROVE  o \in Nat
<1>1. PICK i \in 1..Len(node'.win.items) : node'.win.items[i].off = o
  BY DEF AckedAt
<1>2. node'.win.items \in Seq(WinItem)
  BY DEF TypeOK, SlaveNode, Window
<1>3. node'.win.items[i] \in WinItem
  BY <1>2, ElementOfSeq
<1> QED BY <1>1, <1>3 DEF WinItem

(* The first message of a slave whose session is active: it is the same, or   *)
(* nobody has opened it.                                                      *)
LEMMA FinishStep ==
  ASSUME TypeOK, TypeOK', ConnInv, HeadInv, [Next]_vars, overlap' = {},
         node.exists, Active(node.session), Finishing'
  PROVE  Untouched(slaveIn'[1]) \/ (Finishing /\ slaveIn'[1].begin = slaveIn[1].begin)
<1>0. InStep /\ slaveIn' # <<>> /\ slaveIn'[1].type = "BinlogSync" /\ slaveIn'[1].begin > 0
      /\ (attached' \/ rstate' = "kConnected")
  BY InSteps DEF Finishing
<1>1. CASE InSpent
  <2>1. slaveIn[1] \in Response
    BY <1>1, TailFacts, ElementOfSeq DEF InSpent, TypeOK
  <2>2. slaveIn'[1].begin = slaveIn[1].begin
    BY <1>1, <2>1 DEF InSpent, Response
  <2> QED BY <1>0, <1>1, <2>2 DEF InSpent, Finishing
<1>2. CASE slaveIn # <<>> /\ slaveIn'[1] = slaveIn[1]
  <2>1. ~Connects
    BY <1>0, <1>2 DEF Connects, IsOffer
  <2>2. ~MetaSync
    <3>1. CanWrite
      BY DEF ConnInv
    <3> QED BY <3>1 DEF CanWrite, MetaSync
  <2>3. attached \/ rstate = "kConnected"
    BY <1>0, <2>1, <2>2, SlaveSteps
  <2>4. rstate' = "kConnected" => rstate = "kConnected" /\ session' = session
    BY <2>1, ConnectedSteps
  <2>5. slaveIn[1].chips = <<>> \/ (rstate' = "kConnected" /\ slaveIn[1].chips[1].session = session')
    BY <1>2 DEF Finishing
  <2> QED BY <1>0, <1>2, <2>3, <2>4, <2>5 DEF Finishing
<1> QED BY <1>0, <1>1, <1>2, FirstMessage

(* When an acknowledgement is sent, nobody has opened the next message. *)
LEMMA SentMessage ==
  ASSUME TypeOK, HeadInv, NEW s, NEW a, NEW b, AckSent(s, a, b), slaveIn' # <<>>
  PROVE  Untouched(slaveIn'[1])
<1>1. slaveIn # <<>> /\ slaveIn' = Tail(slaveIn) /\ slaveIn \in Seq(Response)
  BY DEF AckSent, AckDue, TypeOK
<1>2. 1 \in 1..Len(slaveIn')
  BY <1>1, TailFacts
<1>3. slaveIn'[1] = slaveIn[1 + 1] /\ 1 + 1 \in 2..Len(slaveIn)
  BY <1>1, <1>2, TailFacts
<1> QED BY <1>3 DEF HeadInv

(* SyncWindow::Update by thread t for the records a..b of session s. *)
Acknowledges(t, s, a, b) ==
  /\ Acks(t, s) /\ srv[t].req.start = a /\ srv[t].req.end = b
  /\ srv'[t].pc = "fill" /\ \A u \in Threads \ {t} : srv'[u] = srv[u]
  /\ s2m' = s2m
  /\ node'.acked >= node.acked
  /\ \A o : AckedAt(o)' => AckedAt(o) \/ (a <= o /\ o <= b)

(* The positions of an active window. *)
LEMMA WindowPlaces ==
  ASSUME TypeOK, StartInv, Exact(node, producer), node.reader \in Nat
  PROVE  /\ node.acked \in Nat /\ Len(node.win.items) \in Nat
         /\ DOMAIN node.win.items = 1..Len(node.win.items)
         /\ \A i \in 1..Len(node.win.items) : node.win.items[i].off = node.acked + i
<1>1. node.acked \in Nat /\ node.win.items \in Seq(WinItem)
  BY DEF TypeOK, SlaveNode, Window
<1>2. node.state = "kSlaveBinlogSync" /\ node.reader # BadReader
  BY NewNodeFields DEF StartInv
<1> QED BY <1>1, <1>2, LenProperties DEF Exact

(* Only acknowledgements of the active session change the window. *)
LEMMA UpdateFacts ==
  ASSUME TypeOK, StartInv, Exact(node, producer), OutInv, RangeInv, node.reader \in Nat, NodeUpdated
  PROVE  \E t \in Threads, a, b \in Nat : Acknowledges(t, node.session, a, b)
<1>0. /\ node.acked \in Nat /\ Len(node.win.items) \in Nat
      /\ DOMAIN node.win.items = 1..Len(node.win.items)
      /\ \A k \in 1..Len(node.win.items) : node.win.items[k].off = node.acked + k
  BY WindowPlaces
<1>1. PICK t \in Threads, i \in DOMAIN node.win.items, j \in DOMAIN node.win.items,
           p \in 0..Len(node.win.items) :
       /\ srv[t].pc = "apply" /\ ~srv[t].req.first
       /\ IsRange(node.win, srv[t].req.start, srv[t].req.end, i, j)
       /\ node' = AfterAck(node, i, j, p)
       /\ Goto(t, "fill") /\ s2m' = s2m
  BY DEF NodeUpdated
<1>2. PICK a \in Nat, b \in Nat : a = srv[t].req.start /\ b = srv[t].req.end
  BY DEF TypeOK, Task, Request
<1>3. i \in 1..Len(node.win.items) /\ j \in 1..Len(node.win.items) /\ a = node.acked + i /\ b = node.acked + j
  BY <1>0, <1>1, <1>2 DEF IsRange
<1>4. IsAck(srv[t].req)
  BY <1>0, <1>1, <1>2, <1>3 DEF IsAck, OutInv
<1>5. srv[t].req.session = node.session
  <2>1. Out(srv[t].req.session, a, b)
    BY <1>1, <1>2, <1>4 DEF Out, Acks, IsAckOf
  <2>2. srv[t].req.session # node.session => b <= node.acked
    BY <2>1 DEF RangeInv
  <2> QED BY <1>0, <1>3, <2>2
<1>6. srv'[t].pc = "fill" /\ \A u \in Threads \ {t} : srv'[u] = srv[u]
  BY <1>1 DEF Goto, TypeOK, Task
<1>a. node \in SlaveNode
  BY DEF TypeOK
<1>7. /\ node'.acked = IF p = 0 THEN node.acked ELSE node.win.items[p].off
      /\ Len(node'.win.items) = Len(node.win.items) - p
      /\ \A k \in 1..(Len(node.win.items) - p) :
           /\ node'.win.items[k].off = node.win.items[p + k].off
           /\ node'.win.items[k].acked <=> node.win.items[p + k].acked \/ p + k \in i..j
  <2> DEFINE n == AfterAck(node, i, j, p)
  <2>1. /\ n.acked = IF p = 0 THEN node.acked ELSE node.win.items[p].off
        /\ Len(n.win.items) = Len(node.win.items) - p
    BY <1>a, AckFields
  <2>2. \A k \in 1..(Len(node.win.items) - p) :
          /\ n.win.items[k].off = node.win.items[p + k].off
          /\ n.win.items[k].acked <=> node.win.items[p + k].acked \/ p + k \in i..j
    BY <1>a, AckFields
  <2>3. node' = n
    BY <1>1
  <2> HIDE DEF n
  <2> QED BY <2>1, <2>2, <2>3
<1>8. node'.acked >= node.acked
  <2>1. p \in 1..Len(node.win.items) => node.win.items[p].off = node.acked + p
    BY <1>0
  <2> QED BY <1>0, <1>7, <2>1
<1>9. ASSUME NEW o, AckedAt(o)' PROVE AckedAt(o) \/ (a <= o /\ o <= b)
  <2>1. PICK k \in 1..Len(node'.win.items) : node'.win.items[k].off = o /\ node'.win.items[k].acked
    BY <1>9 DEF AckedAt
  <2>2. k \in 1..(Len(node.win.items) - p) /\ p + k \in 1..Len(node.win.items)
    BY <1>0, <1>7, <2>1
  <2>3. node.win.items[p + k].off = o /\ (node.win.items[p + k].acked \/ p + k \in i..j)
    BY <1>7, <2>1, <2>2
  <2>4. CASE node.win.items[p + k].acked
    BY <2>2, <2>3, <2>4 DEF AckedAt
  <2>5. CASE p + k \in i..j
    <3>1. o = node.acked + (p + k)
      BY <1>0, <2>2, <2>3
    <3>2. i \in Nat /\ j \in Nat /\ p + k \in Nat /\ node.acked \in Nat
      <4>1. PICK len \in Nat : len = Len(node.win.items)
        BY <1>0
      <4>2. i \in 1..len /\ j \in 1..len /\ p + k \in 1..len
        BY <1>3, <2>2, <4>1
      <4>3. \A x \in 1..len : x \in Nat
        OBVIOUS
      <4> QED BY <1>0, <4>2, <4>3
    <3>3. PICK q \in Nat : q = p + k
      BY <3>2
    <3>4. PICK lo \in Nat, hi \in Nat, base \in Nat : lo = i /\ hi = j /\ base = node.acked
      BY <3>2
    <3>5. q \in lo..hi
      BY <2>5, <3>3, <3>4
    <3>6. a = base + lo /\ b = base + hi /\ o = base + q /\ lo <= q /\ q <= hi
      BY <1>3, <3>1, <3>3, <3>4, <3>5
    <3>7. a <= o /\ o <= b
      BY <3>6
    <3> QED BY <3>7
  <2> QED BY <2>3, <2>4, <2>5
<1>10. Acks(t, node.session)
  BY <1>1, <1>4, <1>5 DEF Acks, IsAckOf
<1> QED BY <1>1, <1>2, <1>6, <1>8, <1>9, <1>10 DEF Acknowledges

(* The window after ReadBinlogFileToWq. *)
LEMMA ReadWindow ==
  ASSUME TypeOK, NEW k \in Nat, k = ReadCount(node), k > 0, node' = AfterRead(node, k)
  PROVE  /\ Len(node.win.items) \in Nat /\ Len(node'.win.items) = Len(node.win.items) + k
         /\ node'.reader = node.reader + k
         /\ \A i \in 1..Len(node.win.items) : node'.win.items[i] = node.win.items[i]
         /\ \A i \in (Len(node.win.items) + 1)..(Len(node.win.items) + k) : ~node'.win.items[i].acked
<1>0. node \in SlaveNode /\ producer \in Nat /\ k <= ReadCount(node)
  BY DEF TypeOK
<1> DEFINE r == AfterRead(node, k)
           len == Len(node.win.items)
<1>1. len \in Nat /\ Len(r.win.items) = len + k /\ r.reader = node.reader + k
  BY <1>0, ReadFields
<1>2. \A i \in 1..len : r.win.items[i] = node.win.items[i]
  BY <1>0, ReadFields
<1>3. \A i \in (len + 1)..(len + k) : ~r.win.items[i].acked
  BY <1>0, ReadFields
<1> HIDE DEF r
<1>4. node' = r
  BY DEF r
<1> QED BY <1>1, <1>2, <1>3, <1>4

(* What an active node does in a step, with the records it has acknowledged. *)
LEMMA AckedItems ==
  ASSUME TypeOK, TypeOK', StartInv, AskInv, Exact(node, producer), OutInv, RangeInv, NodeStep,
         node.reader \in Nat, node'.reader \in Nat
  PROVE  /\ node'.session = node.session
         /\ \/ node'.acked >= node.acked /\ \A o : AckedAt(o)' => AckedAt(o)
            \/ \E t \in Threads, a, b \in Nat : Acknowledges(t, node.session, a, b)
<1>0. node \in SlaveNode /\ node.acked \in Nat /\ producer \in Nat /\ node.exists
  BY DEF TypeOK, SlaveNode, StartInv
<1>1. CASE node' = node
  BY <1>0, <1>1 DEF AckedAt
<1>2. CASE NodeRemoved
  BY <1>2, NewNodeFields DEF NodeRemoved
<1>3. CASE NodeAdded
  BY <1>0, <1>3 DEF NodeAdded
<1>4. ASSUME NEW t \in Threads, NodeStarted(t) PROVE FALSE
  BY <1>4, NoStart
<1>5. CASE NodeUpdated
  BY <1>0, <1>5, NodeFields, UpdateFacts DEF NodeUpdated
<1>6. CASE NodeRead
  <2>1. PICK k \in Nat : /\ k = ReadCount(node) /\ node'.session = node.session /\ node'.acked = node.acked
    BY <1>6, ReadFacts
  <2>2. node' = AfterRead(node, k)
    BY <1>6, <2>1 DEF NodeRead
  <2>3. CASE k = 0
    BY <1>0, <2>1, <2>2, <2>3 DEF AfterRead, AckedAt
  <2>4. CASE k > 0
    <3>1. /\ Len(node.win.items) \in Nat /\ Len(node'.win.items) = Len(node.win.items) + k
          /\ \A i \in 1..Len(node.win.items) : node'.win.items[i] = node.win.items[i]
          /\ \A i \in (Len(node.win.items) + 1)..(Len(node.win.items) + k) : ~node'.win.items[i].acked
      BY <2>1, <2>2, <2>4, ReadWindow
    <3>2. ASSUME NEW o, AckedAt(o)' PROVE AckedAt(o)
      <4>1. PICK i \in 1..Len(node'.win.items) : node'.win.items[i].off = o /\ node'.win.items[i].acked
        BY <3>2 DEF AckedAt
      <4>2. i \in 1..Len(node.win.items)
        BY <3>1, <4>1
      <4> QED BY <3>1, <4>1, <4>2 DEF AckedAt
    <3> QED BY <1>0, <2>1, <3>2
  <2> QED BY <2>3, <2>4
<1> QED BY <1>1, <1>2, <1>3, <1>4, <1>5, <1>6 DEF NodeStep, ConsumeWriteQueue, EraseWriteQueue

(* An acknowledgement covers what the slave holds. *)
LEMMA OutHeld ==
  ASSUME AckedInv, NEW s, NEW a, NEW b, Out(s, a, b)
  PROVE  a \in Nat /\ b \in Nat /\ b <= Len(slog)
<1>1. \A i \in 1..Len(s2m) : s2m[i] \in Request /\ s2m[i].end <= Len(slog)
  BY ElementOfSeq DEF AckedInv, TypeOK, HonestRequests, HonestRequest
<1>2. \A t \in Threads : srv[t].req \in Request /\ srv[t].req.end <= Len(slog)
  BY DEF AckedInv, TypeOK, Task, HonestRequests, HonestRequest
<1> QED BY <1>1, <1>2 DEF Out, Acks, IsAckOf, Request

(* The same, in the next state. *)
LEMMA OutHeldNext ==
  ASSUME AckedInv', NEW s, NEW a, NEW b, Out(s, a, b)'
  PROVE  a \in Nat /\ b \in Nat /\ b <= Len(slog')
<1>1. \A i \in 1..Len(s2m') : s2m'[i] \in Request /\ s2m'[i].end <= Len(slog')
  BY ElementOfSeq DEF AckedInv, TypeOK, HonestRequests, HonestRequest
<1>2. \A t \in Threads : srv'[t].req \in Request /\ srv'[t].req.end <= Len(slog')
  BY DEF AckedInv, TypeOK, Task, HonestRequests, HonestRequest
<1> QED BY <1>1, <1>2 DEF Out, Acks, IsAckOf, IsAck, Request

(* RangeInv for session s, in the next state. *)
Once(s) ==
  /\ Apart(s)
  /\ \A a, b, o : Out(s, a, b) /\ AckedAt(o) => o < a \/ b < o
  /\ \A x, a, b : Out(x, a, b) /\ x # s => b <= node.acked
  /\ Finishing => /\ \A a, b : Out(s, a, b) => b < slaveIn[1].begin
                  /\ \A o : AckedAt(o) => o < slaveIn[1].begin

(* A session that starts: its window is empty and nothing acknowledges it;    *)
(* what acknowledges another session ends where the window begins.            *)
LEMMA RangeStarted ==
  ASSUME AckedInv, AckedInv', AskInv, PlaceInv, OutInv, [Next]_vars, overlap' = {},
         node.reader \notin Nat, node'.reader \in Nat, NEW s, s = node'.session
  PROVE  Once(s)'
<1>0. NodeStep /\ RequestStep /\ (\A u \in Threads : TaskStep(u)) /\ TypeOK
  BY CleanNodeSteps, RequestSteps, TaskSteps DEF AckedInv
<1>1. PICK t \in Threads : NodeStarted(t) /\ srv[t].req.session = s /\ Asks(t)
  BY <1>0, ActiveStep DEF Active
<1>2. node.exists /\ node.session = s /\ slog' = slog /\ node' # node /\ srv[t].req.start \in Nat
  <2>1. node.exists /\ node.session = s /\ slog' = slog
    BY <1>1 DEF NodeStarted
  <2> QED BY <1>0, <2>1 DEF TypeOK, Task, Request
<1>3. node' = Activated(node, srv[t].req.start)
  <2>1. node' = ActivateFailed(node, srv[t].req.start) \/ node' = Activated(node, srv[t].req.start)
    BY <1>1 DEF NodeStarted
  <2>2. ActivateFailed(node, srv[t].req.start).reader = BadReader
    BY <1>0, <1>2, NodeFields DEF TypeOK
  <2> QED BY <2>1, <2>2, NewNodeFields
<1>4. srv[t].req.start = Len(slog)
  BY <1>1, <1>2 DEF PlaceInv, AskedAt, Asked
<1>5. node'.acked = Len(slog) /\ node'.win = Reset
  <2>1. Activated(node, srv[t].req.start).win = Reset
    BY <1>0 DEF Activated, TypeOK, SlaveNode
  <2> QED BY <1>0, <1>2, <1>3, <1>4, <2>1, NodeFields DEF TypeOK
<1>6. \A x, a, b : Out(x, a, b)' => Out(x, a, b)
  BY <1>0, <1>2, OutStep DEF AckSent
<1>7. ASSUME NEW a, NEW b, Out(s, a, b)' PROVE FALSE
  <2>1. Active(s)
    BY <1>2, <1>6, <1>7 DEF OutInv
  <2> QED BY <2>1 DEF Active
<1>8. \A o : ~AckedAt(o)'
  <2>1. Len(node'.win.items) = 0
    BY <1>5, EmptySeq DEF Reset
  <2> QED BY <2>1 DEF AckedAt
<1>9. Apart(s)'
  <2>1. \A i \in 1..Len(s2m') : ~IsAckOf(s2m'[i], s)
    BY <1>7 DEF Out, IsAckOf, IsAck
  <2>2. \A u \in Threads : ~Acks(u, s)'
    BY <1>7 DEF Out
  <2> QED BY <2>1, <2>2 DEF Apart, IsAckOf, IsAck
<1>10. \A x, a, b : Out(x, a, b)' => b <= node'.acked
  BY <1>5, <1>6, OutHeld
<1> QED BY <1>7, <1>8, <1>9, <1>10 DEF Once

(* A session that goes on. *)
LEMMA RangeKept ==
  ASSUME AckedInv, AckedInv', Exact(node, producer), ConnInv, StartInv, AskInv, StreamInv',
         HeadInv, BegunInv, OutInv, RangeInv, [Next]_vars, overlap' = {},
         node.reader \in Nat, node'.reader \in Nat, NEW s, s = node'.session
  PROVE  Once(s)'
<1>0. NodeStep /\ RequestStep /\ (\A u \in Threads : TaskStep(u)) /\ TypeOK /\ TypeOK'
  BY CleanNodeSteps, RequestSteps, TaskSteps DEF AckedInv
<1>1. /\ node.session = s
      /\ \/ node'.acked >= node.acked /\ \A o : AckedAt(o)' => AckedAt(o)
         \/ \E t \in Threads, a, b \in Nat : Acknowledges(t, s, a, b)
  BY <1>0, AckedItems
<1>2. Once(s)
  BY <1>1 DEF RangeInv, Once
<1>3. node.exists /\ Active(s) /\ (attached => session = s)
  BY <1>1 DEF StartInv, Active, BegunInv, Begun
<1>4. ASSUME NEW x, NEW a, NEW b, AckSent(x, a, b)
      PROVE  /\ x = s /\ Finishing /\ a = slaveIn[1].begin
             /\ slaveIn' # <<>> => Untouched(slaveIn'[1])
  BY <1>0, <1>3, <1>4, SentMessage DEF AckSent, AckDue, Finishing
<1>5. Apart(s)'
  <2>1. \A a, b, c, d : AckSent(s, a, b) /\ Out(s, c, d) => d < a
    BY <1>2, <1>4 DEF Once
  <2> QED BY <1>0, <1>2, <2>1, ApartStep DEF Once
<1>6. node'.acked >= node.acked /\ node.acked \in Nat /\ node'.acked \in Nat
  BY <1>0, <1>1 DEF Acknowledges, TypeOK, SlaveNode
<1>7. ASSUME NEW x, NEW a, NEW b, Out(x, a, b)', x # s PROVE b <= node'.acked
  <2>1. Out(x, a, b)
    BY <1>0, <1>4, <1>7, OutStep
  <2>2. b <= node.acked /\ b \in Nat
    BY <1>2, <1>7, <2>1, OutHeld DEF Once
  <2> QED BY <1>6, <2>2
<1>8. ASSUME NEW a, NEW b, NEW o, Out(s, a, b)', AckedAt(o)' PROVE o < a \/ b < o
  <2>1. CASE AckedAt(o)
    <3>1. CASE Out(s, a, b)
      BY <1>2, <2>1, <3>1 DEF Once
    <3>2. CASE AckSent(s, a, b)
      BY <1>2, <1>4, <2>1, <3>2 DEF Once
    <3> QED BY <1>0, <1>8, <3>1, <3>2, OutStep
  <2>2. CASE ~AckedAt(o)
    <3>1. PICK t \in Threads, c \in Nat, d \in Nat : Acknowledges(t, s, c, d)
      BY <1>1, <1>8, <2>2
    <3>2. /\ c <= o /\ o <= d /\ s2m' = s2m
          /\ Acks(t, s) /\ srv[t].req.start = c /\ srv[t].req.end = d
      BY <1>8, <2>2, <3>1 DEF Acknowledges
    <3>3. d < a \/ b < c
      <4>1. ASSUME NEW i \in 1..Len(s2m'), IsAckOf(s2m'[i], s), s2m'[i].start = a, s2m'[i].end = b
            PROVE  d < a \/ b < c
        BY <1>2, <3>2, <4>1 DEF Once, Apart, Disjoint
      <4>2. ASSUME NEW u \in Threads, Acks(u, s)', srv'[u].req.start = a, srv'[u].req.end = b
            PROVE  d < a \/ b < c
        <5>1. u # t
          BY <3>1, <4>2 DEF Acknowledges, Acks
        <5>2. Acks(u, s) /\ srv[u].req.start = a /\ srv[u].req.end = b
          BY <3>1, <4>2, <5>1 DEF Acknowledges, Acks, IsAckOf, IsAck
        <5> QED BY <1>2, <3>2, <5>1, <5>2 DEF Once, Apart, Disjoint
      <4> QED BY <1>8, <4>1, <4>2 DEF Out, IsAckOf, IsAck
    <3>4. a \in Nat /\ b \in Nat
      BY <1>8, OutHeldNext
    <3>5. o \in Nat
      BY <1>0, <1>8, ItemOffset
    <3> QED BY <3>2, <3>3, <3>4, <3>5
  <2> QED BY <2>1, <2>2
<1>9. ASSUME Finishing'
      PROVE  /\ \A a, b : Out(s, a, b)' => b < slaveIn'[1].begin
             /\ \A o : AckedAt(o)' => o < slaveIn'[1].begin
  <2>1. CASE Untouched(slaveIn'[1])
    <3>1. slaveIn'[1].begin = Len(slog') + 1
      BY <1>0, <1>9, <2>1, FreshMessage
    <3>2. Len(slog') \in Nat
      BY <1>0, LenProperties DEF TypeOK
    <3>3. ASSUME NEW a, NEW b, Out(s, a, b)' PROVE b < slaveIn'[1].begin
      <4>1. b \in Nat /\ b <= Len(slog')
        BY <3>3, OutHeldNext
      <4> QED BY <3>1, <3>2, <4>1
    <3>4. ASSUME NEW o, AckedAt(o)' PROVE o < slaveIn'[1].begin
      <4>1. PICK i \in 1..Len(node'.win.items) : node'.win.items[i].off = o /\ node'.win.items[i].acked
        BY <3>4 DEF AckedAt
      <4>2. o \in Nat /\ o <= Len(slog')
        BY <1>0, <3>4, <4>1, ItemOffset DEF AckedInv, Acked
      <4> QED BY <3>1, <3>2, <4>2
    <3> QED BY <3>3, <3>4
  <2>2. CASE ~Untouched(slaveIn'[1])
    <3>1. Finishing /\ slaveIn'[1].begin = slaveIn[1].begin
      BY <1>0, <1>1, <1>3, <1>9, <2>2, FinishStep
    <3>2. \A a, b : ~AckSent(s, a, b)
      BY <1>4, <1>9, <2>2 DEF Finishing
    <3>3. \A a, b : Out(s, a, b)' => b < slaveIn'[1].begin
      BY <1>0, <1>2, <3>1, <3>2, OutStep DEF Once
    <3>4. ASSUME NEW o, AckedAt(o)', ~AckedAt(o) PROVE o < slaveIn'[1].begin
      <4>1. PICK t \in Threads, c \in Nat, d \in Nat : Acknowledges(t, s, c, d)
        BY <1>1, <3>4
      <4>2. o <= d /\ Out(s, c, d)
        BY <3>4, <4>1 DEF Acknowledges, Out
      <4>3. d < slaveIn[1].begin
        BY <1>2, <3>1, <4>2 DEF Once
      <4>4. o \in Nat /\ slaveIn[1].begin \in Nat
        <5>1. slaveIn[1] \in Response
          BY <1>0, <3>1, TailFacts, ElementOfSeq DEF Finishing, TypeOK
        <5> QED BY <1>0, <3>4, <5>1, ItemOffset DEF Response
      <4> QED BY <3>1, <4>2, <4>3, <4>4
    <3> QED BY <1>2, <3>1, <3>3, <3>4 DEF Once
  <2> QED BY <2>1, <2>2
<1> QED BY <1>5, <1>7, <1>8, <1>9 DEF Once

(* Every record stays acknowledged once. *)
LEMMA RangeStep ==
  ASSUME AckedInv, AckedInv', Exact(node, producer), ConnInv, StartInv, AskInv, StreamInv',
         HeadInv, BegunInv, PlaceInv, OutInv, RangeInv, [Next]_vars, overlap' = {}
  PROVE  RangeInv'
<1> SUFFICES ASSUME node'.reader \in Nat, NEW s, s = node'.session PROVE Once(s)'
  BY DEF RangeInv, Once, Apart, Out, Acks, IsAckOf, IsAck
<1> QED BY RangeStarted, RangeKept

-----------------------------------------------------------------------------
(* total_size_ *)

(* A size below the range of size_t does not wrap around. *)
LEMMA NoWrap ==
  ASSUME NEW n \in Nat, n < SizeRange
  PROVE  n % SizeRange = n
  BY SizeRangeAssumption

(* The unacknowledged items of a window are some of its positions. *)
LEMMA UnackedFinite ==
  ASSUME NEW S, NEW items \in Seq(S)
  PROVE  /\ Len(items) \in Nat /\ IsFiniteSet(Unacked(items)) /\ Cardinality(Unacked(items)) \in Nat
         /\ Cardinality(Unacked(items)) <= Len(items)
<1>1. Len(items) \in Nat
  BY LenProperties
<1>2. IsFiniteSet(1..Len(items)) /\ Cardinality(1..Len(items)) = Len(items)
  <2>1. PICK lo \in Int, hi \in Nat : lo = 1 /\ hi = Len(items)
    BY <1>1
  <2>2. IsFiniteSet(lo..hi) /\ Cardinality(lo..hi) = IF lo > hi THEN 0 ELSE hi - lo + 1
    BY FS_Interval
  <2>3. (IF lo > hi THEN 0 ELSE hi - lo + 1) = hi
    BY <2>1
  <2> QED BY <2>1, <2>2, <2>3
<1>3. Unacked(items) \in SUBSET (1..Len(items))
  BY DEF Unacked
<1>4. IsFiniteSet(Unacked(items)) /\ Cardinality(Unacked(items)) <= Cardinality(1..Len(items))
  BY <1>2, <1>3, FS_Subset
<1> QED BY <1>1, <1>2, <1>4, FS_CardinalityType

(* k records are pushed. *)
LEMMA PushedCount ==
  ASSUME NEW S, NEW old \in Seq(S), NEW new \in Seq(S), NEW k \in Nat, Len(new) = Len(old) + k,
         \A i \in 1..Len(old) : new[i] = old[i],
         \A i \in (Len(old) + 1)..(Len(old) + k) : ~new[i].acked
  PROVE  Cardinality(Unacked(new)) = Cardinality(Unacked(old)) + k
<1>0. PICK n \in Nat : n = Len(old)
  BY LenProperties
<1>1. IsFiniteSet(Unacked(old)) /\ Cardinality(Unacked(old)) \in Nat
  BY UnackedFinite
<1> DEFINE Added == (n + 1)..(n + k)
<1>2. IsFiniteSet(Added) /\ Cardinality(Added) = k
  <2>1. PICK lo \in Int, hi \in Int : lo = n + 1 /\ hi = n + k
    OBVIOUS
  <2>2. IsFiniteSet(lo..hi) /\ Cardinality(lo..hi) = IF lo > hi THEN 0 ELSE hi - lo + 1
    BY FS_Interval
  <2>3. (IF lo > hi THEN 0 ELSE hi - lo + 1) = k
    BY <2>1
  <2> QED BY <2>1, <2>2, <2>3
<1>3. \A i \in 1..(n + k) : i \in 1..n \/ i \in Added
  OBVIOUS
<1>4. \A i \in Added : i \in 1..(n + k) /\ i \notin 1..n
  OBVIOUS
<1>5. \A i \in 1..n : i \in 1..(n + k)
  OBVIOUS
<1> HIDE DEF Added
<1>6. Unacked(new) = Unacked(old) \cup Added
  <2>1. \A i \in Added : ~new[i].acked
    BY <1>0 DEF Added
  <2> QED BY <1>0, <1>3, <1>4, <1>5, <2>1 DEF Unacked
<1>7. Unacked(old) \cap Added = {}
  BY <1>0, <1>4 DEF Unacked
<1>8. Cardinality(Unacked(new)) = Cardinality(Unacked(old)) + Cardinality(Added) - Cardinality({})
  BY <1>1, <1>2, <1>6, <1>7, FS_Union
<1> QED BY <1>1, <1>2, <1>8, FS_EmptySet

(* The positions i..j are acknowledged for the first time, and p items go. *)
LEMMA AckedCount ==
  ASSUME NEW S, NEW old \in Seq(S), NEW new \in Seq(S), NEW i \in 1..Len(old), NEW j \in 1..Len(old), i <= j,
         NEW p \in 0..Len(old), Len(new) = Len(old) - p,
         \A k \in i..j : ~old[k].acked,
         \A k \in 1..p : old[k].acked \/ k \in i..j,
         \A k \in 1..(Len(old) - p) : new[k].acked <=> old[p + k].acked \/ p + k \in i..j
  PROVE  /\ j - i + 1 <= Cardinality(Unacked(old))
         /\ Cardinality(Unacked(new)) = Cardinality(Unacked(old)) - (j - i + 1)
<1>0. PICK n \in Nat : n = Len(old)
  BY LenProperties
<1>1. IsFiniteSet(Unacked(old)) /\ Cardinality(Unacked(old)) \in Nat
  BY UnackedFinite
<1> DEFINE Rest == Unacked(old) \ (i..j)
<1>2. IsFiniteSet(i..j) /\ Cardinality(i..j) = j - i + 1 /\ j - i + 1 \in Nat
  <2>1. i \in Int /\ j \in Int
    BY <1>0
  <2>2. IsFiniteSet(i..j) /\ Cardinality(i..j) = IF i > j THEN 0 ELSE j - i + 1
    BY <2>1, FS_Interval
  <2> QED BY <2>1, <2>2
<1>3. i..j \subseteq Unacked(old)
  <2>1. \A k \in i..j : k \in 1..Len(old)
    BY <1>0
  <2> QED BY <2>1 DEF Unacked
<1>4. Unacked(old) \cap (i..j) = i..j
  BY <1>3
<1>5. IsFiniteSet(Rest) /\ Cardinality(Rest) = Cardinality(Unacked(old)) - (j - i + 1)
  <2>1. /\ IsFiniteSet(Unacked(old) \ (i..j))
        /\ Cardinality(Unacked(old) \ (i..j)) =
             Cardinality(Unacked(old)) - Cardinality(Unacked(old) \cap (i..j))
    BY <1>1, FS_Difference
  <2> QED BY <1>2, <1>4, <2>1
<1>6. Cardinality(i..j) <= Cardinality(Unacked(old))
  BY <1>1, <1>3, FS_Subset
<1>7. ASSUME NEW x \in Rest PROVE x \in (p + 1)..n
  <2>1. x \in 1..n /\ ~old[x].acked /\ x \notin i..j
    BY <1>0 DEF Unacked
  <2>2. x \notin 1..p
    BY <2>1
  <2> QED BY <1>0, <2>1, <2>2
<1>8. ASSUME NEW x \in Rest PROVE x - p \in Unacked(new)
  <2>1. x - p \in 1..(n - p) /\ p + (x - p) = x
    BY <1>0, <1>7
  <2>2. ~old[x].acked /\ x \notin i..j
    BY DEF Unacked
  <2>3. ~new[x - p].acked
    BY <1>0, <2>1, <2>2
  <2> QED BY <1>0, <2>1, <2>3 DEF Unacked
<1>9. ASSUME NEW y \in Unacked(new) PROVE p + y \in Rest /\ (p + y) - p = y
  <2>1. y \in 1..(n - p) /\ ~new[y].acked
    BY <1>0 DEF Unacked
  <2>2. ~old[p + y].acked /\ p + y \notin i..j
    BY <1>0, <2>1
  <2>3. p + y \in 1..n /\ (p + y) - p = y
    BY <1>0, <2>1
  <2> QED BY <1>0, <2>2, <2>3 DEF Unacked
<1> DEFINE shift == [x \in Rest |-> x - p]
<1>10. \A x, y \in Rest : x - p = y - p => x = y
  <2>1. \A x \in Rest : x \in Int
    BY <1>7
  <2> HIDE DEF Rest
  <2> QED BY <1>0, <2>1
<1> HIDE DEF Rest
<1>11. shift \in Injection(Rest, Unacked(new))
  <2>1. shift \in [Rest -> Unacked(new)]
    BY <1>8
  <2>2. IsInjective(shift)
    BY <1>10 DEF IsInjective
  <2> QED BY <2>1, <2>2 DEF Injection
<1>12. shift \in Surjection(Rest, Unacked(new))
  BY <1>8, <1>9 DEF Surjection
<1>13. ExistsBijection(Rest, Unacked(new))
  BY <1>11, <1>12 DEF ExistsBijection, Bijection
<1>14. Cardinality(Unacked(new)) = Cardinality(Rest)
  BY <1>5, <1>13, FS_Bijection
<1> QED BY <1>2, <1>5, <1>6, <1>14

(* What is read fits into the window. *)
LEMMA ReadRoom ==
  ASSUME producer \in Nat, NEW n \in SlaveNode, Len(n.win.items) <= WindowSize
  PROVE  ReadCount(n) + Len(n.win.items) <= WindowSize
<1>1. Len(n.win.items) \in Nat /\ n.win.total \in Nat
  BY LenProperties, SizeRangeAssumption DEF SlaveNode, Window
<1>2. WindowSize \in Nat /\ MaxTotal \in Nat
  BY ConstantsAssumption
<1>3. ReadCount(n) <= Remaining(n.win, WindowSize) /\ ReadCount(n) \in Int
  <2> DEFINE room == Remaining(n.win, WindowSize)
             size == IF n.win.total > MaxTotal THEN 0 ELSE MaxTotal + 1 - n.win.total
             left == IF n.reader \in Nat /\ n.reader <= producer THEN producer - n.reader ELSE 0
  <2>1. room \in Int /\ size \in Int /\ left \in Int
    BY <1>1, <1>2 DEF Remaining
  <2>2. ReadCount(n) = CHOOSE k \in {room, size, left} : k <= room /\ k <= size /\ k <= left
    BY DEF ReadCount
  <2> HIDE DEF room, size, left
  <2>3. \E k \in {room, size, left} : k <= room /\ k <= size /\ k <= left
    <3>1. CASE room <= size /\ room <= left
      BY <2>1, <3>1
    <3>2. CASE size <= room /\ size <= left
      BY <2>1, <3>2
    <3>3. CASE left <= room /\ left <= size
      BY <2>1, <3>3
    <3> QED BY <2>1, <3>1, <3>2, <3>3
  <2>4. ReadCount(n) \in {room, size, left} /\ ReadCount(n) <= room
    BY <2>2, <2>3
  <2> QED BY <2>1, <2>4 DEF room
<1> QED BY <1>1, <1>2, <1>3 DEF Remaining

(* ReadBinlogFileToWq adds what it reads to total_size_. *)
LEMMA SizeRead ==
  ASSUME TypeOK, TypeOK', SizeInv, NodeRead
  PROVE  SizeInv'
<1>0. node \in SlaveNode /\ producer \in Nat /\ node.win.items \in Seq(WinItem) /\ node'.win.items \in Seq(WinItem)
  BY DEF TypeOK, SlaveNode, Window
<1>1. PICK k \in Nat : k = ReadCount(node) /\ (k > 0 => node.reader \in Nat)
  BY ReadFacts
<1>2. node' = AfterRead(node, k)
  BY <1>1 DEF NodeRead
<1>3. CASE k = 0
  BY <1>2, <1>3 DEF AfterRead, SizeInv
<1>4. CASE k > 0
  <2>1. /\ Len(node.win.items) \in Nat /\ Len(node'.win.items) = Len(node.win.items) + k
        /\ node'.reader = node.reader + k
        /\ \A i \in 1..Len(node.win.items) : node'.win.items[i] = node.win.items[i]
        /\ \A i \in (Len(node.win.items) + 1)..(Len(node.win.items) + k) : ~node'.win.items[i].acked
    BY <1>1, <1>2, <1>4, ReadWindow
  <2>2. node'.win.total = (node.win.total + k) % SizeRange
    BY <1>0, <1>2, <1>4 DEF AfterRead, PushRecords, SlaveNode
  <2>4. Cardinality(Unacked(node'.win.items)) = Cardinality(Unacked(node.win.items)) + k
    BY <1>0, <2>1, PushedCount
  <2>5. Len(node'.win.items) <= WindowSize
    <3>1. k + Len(node.win.items) <= WindowSize
      BY <1>0, <1>1, ReadRoom DEF SizeInv
    <3> QED BY <2>1, <3>1
  <2>6. PICK c \in Nat : c = Cardinality(Unacked(node'.win.items)) /\ c <= Len(node'.win.items) /\ Len(node'.win.items) \in Nat
    BY <1>0, UnackedFinite
  <2>7. c % SizeRange = c
    <3>1. WindowSize \in Nat /\ SizeRange \in Nat /\ WindowSize < SizeRange
      BY ConstantsAssumption, SizeRangeAssumption
    <3> QED BY <2>5, <2>6, <3>1, NoWrap
  <2>8. node'.win.total = c
    BY <2>2, <2>4, <2>6, <2>7 DEF SizeInv
  <2>9. node'.reader \in Nat
    BY <1>1, <1>4, <2>1
  <2> QED BY <2>5, <2>6, <2>8, <2>9 DEF SizeInv
<1> QED BY <1>3, <1>4

(* Every item of an acknowledged prefix is acknowledged. *)
LEMMA PrefixIsAcked ==
  ASSUME NEW items, NEW n, IsAckedPrefix(items, n)
  PROVE  \A k \in 1..n : items[k].acked
BY DEF IsAckedPrefix

(* SyncWindow::Update subtracts what is acknowledged for the first time. *)
LEMMA SizeUpdated ==
  ASSUME TypeOK, TypeOK', StartInv, Exact(node, producer), OutInv, RangeInv, SizeInv, NodeUpdated
  PROVE  SizeInv'
<1>0. node \in SlaveNode /\ node.win.items \in Seq(WinItem) /\ node'.win.items \in Seq(WinItem)
  BY DEF TypeOK, SlaveNode, Window
<1>1. PICK t \in Threads, i \in DOMAIN node.win.items, j \in DOMAIN node.win.items,
           p \in 0..Len(node.win.items) :
       /\ srv[t].pc = "apply" /\ ~srv[t].req.first
       /\ IsRange(node.win, srv[t].req.start, srv[t].req.end, i, j)
       /\ IsAckedPrefix(Marked(node.win.items, i, j), p)
       /\ node' = AfterAck(node, i, j, p)
  BY DEF NodeUpdated
<1>2. node.reader \in Nat
  <2>1. node.win.items # <<>>
    BY <1>1
  <2> QED BY <2>1 DEF SizeInv, Reset
<1>3. /\ node.acked \in Nat /\ Len(node.win.items) \in Nat
      /\ DOMAIN node.win.items = 1..Len(node.win.items)
      /\ \A k \in 1..Len(node.win.items) : node.win.items[k].off = node.acked + k
  BY <1>2, WindowPlaces
<1>4. i \in 1..Len(node.win.items) /\ j \in 1..Len(node.win.items) /\ i <= j
  BY <1>1, <1>3 DEF IsRange
<1>5. PICK a \in Nat, b \in Nat :
        /\ a = srv[t].req.start /\ b = srv[t].req.end /\ a = node.acked + i /\ b = node.acked + j
  <2>1. srv[t].req.start \in Nat /\ srv[t].req.end \in Nat
    BY DEF TypeOK, Task, Request
  <2> QED BY <1>1, <1>3, <1>4, <2>1 DEF IsRange
<1>6. Out(node.session, a, b)
  <2>1. IsAck(srv[t].req)
    BY <1>1, <1>3, <1>4, <1>5 DEF IsAck, OutInv
  <2>2. Out(srv[t].req.session, a, b)
    BY <1>1, <1>5, <2>1 DEF Out, Acks, IsAckOf
  <2>3. srv[t].req.session # node.session => b <= node.acked
    BY <1>2, <2>2 DEF RangeInv
  <2> QED BY <1>3, <1>4, <1>5, <2>2, <2>3
<1>7. \A k \in i..j : ~node.win.items[k].acked
  <2> SUFFICES ASSUME NEW k \in i..j, node.win.items[k].acked PROVE FALSE
    OBVIOUS
  <2>1. k \in 1..Len(node.win.items) /\ node.win.items[k].off = node.acked + k
    <3>1. k \in 1..Len(node.win.items)
      BY <1>3, <1>4
    <3> QED BY <1>3, <3>1
  <2>2. AckedAt(node.acked + k)
    BY <2>1 DEF AckedAt
  <2>3. node.acked + k < a \/ b < node.acked + k
    BY <1>2, <1>6, <2>2 DEF RangeInv
  <2> QED BY <1>3, <1>4, <1>5, <2>3
<1>8. \A k \in 1..p : node.win.items[k].acked \/ k \in i..j
  <2>1. \A k \in 1..p : k \in DOMAIN node.win.items
    BY <1>3
  <2>2. \A k \in 1..p : Marked(node.win.items, i, j)[k].acked
    <3>1. IsAckedPrefix(Marked(node.win.items, i, j), p)
      BY <1>1
    <3> QED BY <3>1, PrefixIsAcked
  <2> QED BY <2>1, <2>2 DEF Marked
<1> DEFINE n == AfterAck(node, i, j, p)
<1>9. /\ Len(n.win.items) = Len(node.win.items) - p /\ n.reader = node.reader
      /\ \A k \in 1..(Len(node.win.items) - p) :
           n.win.items[k].acked <=> node.win.items[p + k].acked \/ p + k \in i..j
  <2>1. Len(n.win.items) = Len(node.win.items) - p /\ n.reader = node.reader
    BY <1>0, AckFields
  <2>2. \A k \in 1..(Len(node.win.items) - p) :
          n.win.items[k].acked <=> node.win.items[p + k].acked \/ p + k \in i..j
    BY <1>0, AckFields
  <2> QED BY <2>1, <2>2
<1>10. n.win.total = (node.win.total - (j - i + 1)) % SizeRange
  BY <1>0 DEF AfterAck, Acknowledged, SlaveNode
<1>11. node' = n
  BY <1>1
<1> HIDE DEF n
<1>a. /\ Len(node'.win.items) = Len(node.win.items) - p
      /\ \A k \in 1..(Len(node.win.items) - p) :
           node'.win.items[k].acked <=> node.win.items[p + k].acked \/ p + k \in i..j
  BY <1>9, <1>11
<1>12. /\ j - i + 1 <= Cardinality(Unacked(node.win.items))
       /\ Cardinality(Unacked(node'.win.items)) = Cardinality(Unacked(node.win.items)) - (j - i + 1)
  <2>1. PICK old \in Seq(WinItem), new \in Seq(WinItem) : old = node.win.items /\ new = node'.win.items
    BY <1>0
  <2>2. /\ i \in 1..Len(old) /\ j \in 1..Len(old) /\ i <= j /\ p \in 0..Len(old)
        /\ Len(new) = Len(old) - p
        /\ \A k \in i..j : ~old[k].acked
        /\ \A k \in 1..p : old[k].acked \/ k \in i..j
        /\ \A k \in 1..(Len(old) - p) : new[k].acked <=> old[p + k].acked \/ p + k \in i..j
    BY <1>4, <1>7, <1>8, <1>a, <2>1
  <2>3. /\ j - i + 1 <= Cardinality(Unacked(old))
        /\ Cardinality(Unacked(new)) = Cardinality(Unacked(old)) - (j - i + 1)
    BY <2>2, AckedCount
  <2> QED BY <2>1, <2>3
<1>13. PICK c \in Nat : c = Cardinality(Unacked(node'.win.items)) /\ c <= Len(node'.win.items) /\ Len(node'.win.items) \in Nat
  BY <1>0, UnackedFinite
<1>14. Len(node'.win.items) <= WindowSize /\ c < SizeRange
  <2>1. WindowSize \in Nat /\ SizeRange \in Nat /\ WindowSize < SizeRange
    BY ConstantsAssumption, SizeRangeAssumption
  <2>2. Len(node.win.items) <= WindowSize
    BY DEF SizeInv
  <2>3. PICK len \in Nat : len = Len(node.win.items)
    BY <1>3
  <2>4. p \in 0..len /\ len <= WindowSize /\ Len(node'.win.items) = len - p
    BY <1>a, <2>2, <2>3
  <2> QED BY <1>13, <2>1, <2>4
<1>15. node'.win.total = c
  <2>1. c % SizeRange = c
    BY <1>14, NoWrap
  <2>2. node.win.total = Cardinality(Unacked(node.win.items))
    BY DEF SizeInv
  <2> QED BY <1>10, <1>11, <1>12, <1>13, <2>1, <2>2
<1>16. node'.reader \in Nat
  BY <1>2, <1>9, <1>11
<1> QED BY <1>13, <1>14, <1>15, <1>16 DEF SizeInv

(* An empty window. *)
LEMMA SizeReset ==
  ASSUME node'.win = Reset
  PROVE  SizeInv'
<1>1. node'.win.items = <<>> /\ node'.win.total = 0
  BY DEF Reset
<1>2. Len(node'.win.items) = 0
  BY <1>1, EmptySeq
<1>3. Unacked(node'.win.items) = {}
  BY <1>2 DEF Unacked
<1>4. WindowSize \in Nat
  BY ConstantsAssumption
<1> QED BY <1>1, <1>2, <1>3, <1>4, FS_EmptySet DEF SizeInv

(* total_size_ stays exact. *)
LEMMA SizeStep ==
  ASSUME TypeOK, TypeOK', StartInv, AskInv, Exact(node, producer), OutInv, RangeInv, SizeInv, NodeStep
  PROVE  SizeInv'
<1>1. CASE node' = node
  BY <1>1 DEF SizeInv
<1>2. CASE NodeRemoved \/ NodeAdded
  <2>1. node'.win = Reset
    BY <1>2 DEF NodeRemoved, NodeAdded, NoSlaveNode, NewSlaveNode
  <2> QED BY <2>1, SizeReset
<1>3. ASSUME NEW t \in Threads, NodeStarted(t) PROVE SizeInv'
  <2>1. node.reader \notin Nat
    BY <1>3, NoStart
  <2>2. node.win = Reset
    BY <2>1 DEF SizeInv
  <2>3. node'.win = Reset
    BY <1>3, <2>2 DEF NodeStarted, ActivateFailed, Activated, TypeOK, SlaveNode
  <2> QED BY <2>3, SizeReset
<1>4. CASE NodeUpdated
  BY <1>4, SizeUpdated
<1>5. CASE NodeRead
  BY <1>5, SizeRead
<1> QED BY <1>1, <1>2, <1>3, <1>4, <1>5 DEF NodeStep, ConsumeWriteQueue, EraseWriteQueue

(* Nothing is acknowledged at the start. *)
LEMMA CountInit == Init => CountInv
<1> SUFFICES ASSUME Init PROVE CountInv
  OBVIOUS
<1>1. Len(slaveIn) = 0 /\ Len(s2m) = 0 /\ slaveIn = <<>>
  BY EmptySeq DEF Init
<1>2. node.exists = FALSE /\ node.reader \notin Nat /\ node.win = Reset
  BY NewNodeFields DEF Init, NoSlaveNode, NewSlaveNode
<1>3. \A t \in Threads : srv[t].pc = "idle"
  BY DEF Init, Idle
<1>4. HeadInv /\ OrderInv
  BY <1>1 DEF HeadInv, OrderInv
<1>5. LastInv /\ BegunInv /\ ChipInv /\ PlaceInv /\ RangeInv
  BY <1>2 DEF LastInv, BegunInv, ChipInv, PlaceInv, RangeInv
<1>6. DueInv
  BY <1>1 DEF DueInv, AckDue
<1>7. OutInv
  BY <1>1, <1>3 DEF OutInv, Out, Acks
<1>8. SizeInv
  <2>1. node.win.items = <<>> /\ node.win.total = 0
    BY <1>2 DEF Reset
  <2>2. Len(node.win.items) = 0
    BY <2>1, EmptySeq
  <2>3. Unacked(node.win.items) = {}
    BY <2>2 DEF Unacked
  <2>4. WindowSize \in Nat
    BY ConstantsAssumption
  <2>5. Cardinality(Unacked(node.win.items)) = 0 /\ Len(node.win.items) <= WindowSize
    BY <2>2, <2>3, <2>4, FS_EmptySet
  <2> QED BY <1>2, <2>1, <2>5 DEF SizeInv
<1> QED BY <1>4, <1>5, <1>6, <1>7, <1>8, PrefixInit DEF CountInv, AckInv

(* Every step keeps the invariant. *)
LEMMA CountInvStep == CountInv /\ [Next]_vars => CountInv'
<1> SUFFICES ASSUME CountInv, [Next]_vars PROVE CountInv'
  OBVIOUS
<1>1. PrefixInv /\ PrefixInv'
  BY PrefixInvStep DEF CountInv
<1>2. ASSUME overlap' = {} PROVE AckInv'
  <2>1. overlap = {}
    BY <1>2, OverlapSteps
  <2>2. /\ AckedInv /\ TypeOK /\ Exact(node, producer)
        /\ ShapeInv /\ NumberInv /\ ConnInv /\ StartInv /\ OfferInv /\ AskInv
    BY <1>1, <2>1 DEF PrefixInv, AckedInv, LogInv, SessionInv
  <2>3. /\ HeadInv /\ LastInv /\ OrderInv /\ BegunInv /\ ChipInv
        /\ DueInv /\ PlaceInv /\ OutInv /\ RangeInv /\ SizeInv
    BY <2>1 DEF CountInv, AckInv
  <2>4. TypeOK' /\ AckedInv' /\ StreamInv'
    BY <1>1, <1>2 DEF PrefixInv, AckedInv, LogInv
  <2>5. InStep /\ NodeStep
    BY <1>2, <2>2, InSteps, CleanNodeSteps
  <2>6. HeadInv' /\ LastInv' /\ OrderInv'
    BY <1>2, <2>2, <2>3, <2>4, <2>5, HeadStep, LastStep, OrderStep
  <2>7. BegunInv' /\ ChipInv'
    BY <1>2, <2>2, <2>3, BegunStep, ChipStep
  <2>8. DueInv' /\ PlaceInv' /\ OutInv'
    BY <1>2, <2>2, <2>3, <2>4, DueInvStep, PlaceStep, OutInvStep
  <2>9. RangeInv'
    BY <1>2, <2>2, <2>3, <2>4, RangeStep
  <2>10. SizeInv'
    BY <2>2, <2>3, <2>4, <2>5, SizeStep
  <2> QED BY <2>6, <2>7, <2>8, <2>9, <2>10 DEF AckInv
<1> QED BY <1>1, <1>2 DEF CountInv

(* The stages of a session and of its acknowledgements, in every execution. *)
THEOREM CountInvariant == Spec => []CountInv
  BY CountInit, CountInvStep, PTL DEF Spec

(* SyncWindow::Update and Push, for any number of server threads, window and  *)
(* batch sizes, lost connections, timeouts and failed reads: as long as no    *)
(* synchronisation rounds overlap, no record is acknowledged twice, and       *)
(* total_size_ is the number of records in the window that no acknowledgement *)
(* has covered.                                                               *)
THEOREM WindowSizeAlwaysExact == Spec => []WindowSizeExact
<1>1. CountInv => WindowSizeExact
  <2> SUFFICES ASSUME CountInv, overlap = {} PROVE WindowSizeExact
    BY DEF WindowSizeExact
  <2>1. DOMAIN node.win.items = 1..Len(node.win.items)
    BY LenProperties DEF CountInv, PrefixInv, AckedInv, TypeOK, SlaveNode, Window
  <2>2. node.win.total = Cardinality(Unacked(node.win.items))
    BY DEF CountInv, AckInv, SizeInv
  <2> QED BY <2>1, <2>2 DEF WindowSizeExact, Unacked
<1> QED BY <1>1, CountInvariant, PTL

=============================================================================
