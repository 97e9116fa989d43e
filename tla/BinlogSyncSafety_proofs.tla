---------------------- MODULE BinlogSyncSafety_proofs ----------------------
(***************************************************************************)
(* WindowExact and AckedBySlave hold in every execution of BinlogSync.     *)
(*                                                                         *)
(* The master's view of the slave is one record, the SlaveNode, and only   *)
(* six kinds of steps change it (NodeSteps).  Each invariant is shown for  *)
(* each of them.  WindowExact is inductive together with TypeOK.           *)
(* AckedBySlave is not: it also needs that no request on its way           *)
(* acknowledges more than the slave holds (HonestRequests) and that the    *)
(* window is ordered, so that the items before the end of an acknowledged  *)
(* range lie before the end too (Ordered).                                 *)
(***************************************************************************)
EXTENDS BinlogSync_proofs

(* A request acknowledges, or asks to start from, what the slave holds. *)
HonestRequest(req) ==
  /\ req.end <= Len(slog)
  /\ req.first => req.start <= Len(slog)

HonestRequests ==
  /\ \A i \in 1..Len(s2m) : HonestRequest(s2m[i])
  /\ \A t \in Threads : HonestRequest(srv[t].req)

(* The invariants as predicates of a node. *)
Ordered(n) ==
  /\ \A i, j \in 1..Len(n.win.items) : i <= j => n.win.items[i].off <= n.win.items[j].off
  /\ n.reader \in Nat => \A i \in 1..Len(n.win.items) : n.win.items[i].off <= n.reader

Acked(n, held) ==
  /\ n.acked <= held
  /\ \A i \in 1..Len(n.win.items) : n.win.items[i].acked => n.win.items[i].off <= held

Exact(n, written) ==
  n.state = "kSlaveBinlogSync" /\ n.reader # BadReader =>
    /\ \A i \in 1..Len(n.win.items) : n.win.items[i].off = n.acked + i
    /\ n.sent = n.acked + Len(n.win.items)
    /\ n.reader = n.sent
    /\ n.sent <= written
    /\ n.win.items # <<>> => ~n.win.items[1].acked

AckedInv == TypeOK /\ Ordered(node) /\ Acked(node, Len(slog)) /\ HonestRequests

-----------------------------------------------------------------------------
(* The steps of the node *)

Emptied == node' = NoSlaveNode \/ \E s \in Nat : node' = NewSlaveNode(s)

Failed ==
  \E t \in Threads :
    /\ srv[t].req.first
    /\ node' = ActivateFailed(node, srv[t].req.start)

Renamed == \E s \in Nat : node' = [node EXCEPT !.session = s]

Restarted ==
  \E t \in Threads :
    /\ srv[t].req.first
    /\ srv[t].req.start <= producer
    /\ node' = Activated(node, srv[t].req.start)

Updated ==
  \E t \in Threads, i, j \in DOMAIN node.win.items, p \in 0..Len(node.win.items) :
    /\ IsRange(node.win, srv[t].req.start, srv[t].req.end, i, j)
    /\ IsAckedPrefix(Marked(node.win.items, i, j), p)
    /\ node' = AfterAck(node, i, j, p)

Extended == \E k \in Nat : k <= ReadCount(node) /\ node' = AfterRead(node, k)

(* A read that fails has read fewer records than ReadCount. *)
LEMMA FailedReadCount ==
  ASSUME producer \in Nat, node \in SlaveNode, NEW k \in 0..WindowSize, FailedRead(k)
  PROVE  k \in Nat /\ k <= ReadCount(node) /\ node' = AfterRead(node, k)
  BY ReadCountFacts, ConstantTypes DEF FailedRead

(* Both ways a read of the binlog ends append to the window. *)
LEMMA ReadExtends ==
  ASSUME producer \in Nat, node \in SlaveNode
  PROVE  /\ ReadBinlogFileToWq => Extended
         /\ \A k \in 0..WindowSize : FailedRead(k) => Extended
<1>1. ReadCount(node) \in Nat /\ ReadCount(node) <= ReadCount(node)
  BY ReadCountFacts
<1>2. ReadBinlogFileToWq => Extended
  BY <1>1 DEF ReadBinlogFileToWq, Extended
<1>3. \A k \in 0..WindowSize : FailedRead(k) => Extended
  BY FailedReadCount DEF Extended
<1> QED BY <1>2, <1>3

(* The steps that change the master's node of the slave. *)
LEMMA NodeSteps ==
  ASSUME TypeOK, [Next]_vars
  PROVE  \/ node' = node
         \/ /\ producer' = producer /\ slog' = slog
            /\ Emptied \/ Renamed \/ Failed \/ Restarted \/ Updated \/ Extended
<1> USE DEF masterVars, auxVars, netVars, slaveVars, ghostVars
<1>1. CASE UNCHANGED vars
  BY <1>1 DEF vars
<1>2. CASE ProposeLog
  BY <1>2 DEF ProposeLog
<1>3. ASSUME NEW t \in Threads, ServerThread(t)
      PROVE  \/ node' = node
             \/ /\ producer' = producer /\ slog' = slog
                /\ Emptied \/ Renamed \/ Failed \/ Restarted \/ Updated \/ Extended
  <2>1. CASE DealMessage(t)
    BY <2>1 DEF DealMessage
  <2>2. CASE HandleTrySync(t) \/ TrySyncGetSession(t) \/ CheckSessionId(t)
    BY <2>2 DEF HandleTrySync, TrySyncGetSession, CheckSessionId
  <2>3. CASE TrySyncAddNode(t)
    <3>1. nextSession \in Nat
      BY DEF TypeOK
    <3> QED BY <2>3, <3>1 DEF TrySyncAddNode, Emptied, Renamed
  <2>4. CASE ActivateSlaveBinlogSync(t)
    BY <2>4 DEF ActivateSlaveBinlogSync, Failed, Restarted
  <2>5. CASE UpdateSyncBinlogStatus(t)
    BY <2>5 DEF UpdateSyncBinlogStatus, Updated
  <2>6. CASE SyncBinlogToWq(t)
    <3>1. \/ node' = node
          \/ ReadBinlogFileToWq
          \/ \E k \in 0..WindowSize : FailedRead(k)
      BY <2>6 DEF SyncBinlogToWq
    <3>2. producer' = producer /\ slog' = slog
      BY <2>6 DEF SyncBinlogToWq
    <3> QED BY <3>1, <3>2, ReadExtends DEF TypeOK
  <2> QED BY <1>3, <2>1, <2>2, <2>3, <2>4, <2>5, <2>6 DEF ServerThread
<1>4. CASE AuxiliaryThread
  <2>1. CASE WakeUpSlaveBinlogSync
    <3>0. producer' = producer /\ slog' = slog
      BY <2>1 DEF WakeUpSlaveBinlogSync
    <3>1. CASE ReadBinlogFileToWq
      BY <3>0, <3>1, ReadExtends DEF TypeOK
    <3>2. CASE node' = NoSlaveNode
      BY <3>0, <3>2 DEF Emptied
    <3> QED BY <2>1, <3>1, <3>2 DEF WakeUpSlaveBinlogSync
  <2>2. CASE ConsumeWriteQueue \/ SendSlaveBinlogChips \/ EraseWriteQueue \/ SendKeepAlive
    BY <2>2 DEF ConsumeWriteQueue, SendSlaveBinlogChips, EraseWriteQueue, SendKeepAlive
  <2> QED BY <1>4, <2>1, <2>2 DEF AuxiliaryThread
<1>5. CASE MasterTimeout
  BY <1>5 DEF MasterTimeout, Emptied
<1>6. CASE Network
  BY <1>6 DEF Network, LinkDown, MasterFdClosed, SlaveFdClosed, SlaveFdTimeout, MetaSync, Emptied
<1>7. CASE SendTrySync \/ SlaveTimeout \/ BinlogWorker
  BY <1>7 DEF SendTrySync, SlaveTimeout, BinlogWorker, HandleTrySyncResponse,
              WriteBinlogRecord, SendBinlogSyncAck
<1> QED BY <1>1, <1>2, <1>3, <1>4, <1>5, <1>6, <1>7 DEF Next

(* Neither server's binlog ever shrinks. *)
LEMMA LogsGrow ==
  ASSUME TypeOK, [Next]_vars
  PROVE  /\ producer' \in Nat /\ producer <= producer'
         /\ Len(slog') \in Nat /\ Len(slog) <= Len(slog')
<1> USE DEF masterVars, auxVars, netVars, slaveVars, ghostVars
<1>1. producer \in Nat /\ slog \in Seq(Nat) /\ Len(slog) \in Nat
  BY LenProperties DEF TypeOK
<1>2. CASE ProposeLog
  BY <1>1, <1>2 DEF ProposeLog
<1>3. CASE WriteBinlogRecord
  <2>1. PICK off : slog' = slog \/ slog' = Append(slog, off)
    BY <1>3 DEF WriteBinlogRecord
  <2>2. Len(slog') = Len(slog) \/ Len(slog') = Len(slog) + 1
    BY <1>1, <2>1
  <2> QED BY <1>1, <1>3, <2>2 DEF WriteBinlogRecord
<1>4. CASE UNCHANGED <<producer, slog>>
  BY <1>1, <1>4
<1>5. ASSUME ~ProposeLog, ~WriteBinlogRecord PROVE UNCHANGED <<producer, slog>>
  BY <1>5 DEF Next, vars, ServerThread, DealMessage, HandleTrySync, TrySyncAddNode, TrySyncGetSession,
              SyncBinlogToWq,
              CheckSessionId, ActivateSlaveBinlogSync, UpdateSyncBinlogStatus, AuxiliaryThread,
              WakeUpSlaveBinlogSync, ConsumeWriteQueue, SendSlaveBinlogChips, EraseWriteQueue,
              SendKeepAlive, MasterTimeout, Network, LinkDown, MasterFdClosed, SlaveFdClosed,
              SlaveFdTimeout, MetaSync, SendTrySync, SlaveTimeout, BinlogWorker,
              HandleTrySyncResponse, SendBinlogSyncAck
<1> QED BY <1>2, <1>3, <1>4, <1>5

-----------------------------------------------------------------------------
(* The invariants of a node, operation by operation *)

(* A new or removed node has an empty window. *)
LEMMA EmptiedNode ==
  ASSUME NEW n, n = NoSlaveNode \/ \E s \in Nat : n = NewSlaveNode(s),
         NEW held \in Nat, NEW written \in Nat
  PROVE  Ordered(n) /\ Acked(n, held) /\ Exact(n, written)
<1>1. /\ n.win.items = <<>> /\ n.reader = NoReader /\ n.acked = 0
      /\ n.state = "kSlaveNotSync"
  BY ResetWindow DEF NoSlaveNode, NewSlaveNode
<1>2. Len(<<>>) = 0
  BY EmptySeq
<1> QED BY <1>1, <1>2 DEF Ordered, Acked, Exact, NoReader

(* Another session changes nothing else. *)
LEMMA RenamedNode ==
  ASSUME NEW n \in SlaveNode, NEW s \in Nat, NEW held \in Nat, NEW written \in Nat
  PROVE  LET r == [n EXCEPT !.session = s] IN
         /\ Ordered(n) => Ordered(r)
         /\ Acked(n, held) => Acked(r, held)
         /\ Exact(n, written) => Exact(r, written)
<1> DEFINE r == [n EXCEPT !.session = s]
<1>1. /\ r.win = n.win /\ r.reader = n.reader /\ r.acked = n.acked
      /\ r.sent = n.sent /\ r.state = n.state
  BY DEF SlaveNode
<1> HIDE DEF r
<1>2. /\ Ordered(n) => Ordered(r)
      /\ Acked(n, held) => Acked(r, held)
      /\ Exact(n, written) => Exact(r, written)
  BY <1>1 DEF Ordered, Acked, Exact
<1> QED BY <1>2 DEF r

(* ActivateSlaveBinlogSync whose reader cannot be opened: the old window is   *)
(* still ordered, and the offset the slave asked for is one that it holds.    *)
LEMMA FailedNode ==
  ASSUME NEW n \in SlaveNode, NEW off \in Nat, NEW held \in Nat, NEW written \in Nat,
         Ordered(n), Acked(n, held), off <= held
  PROVE  /\ Ordered(ActivateFailed(n, off))
         /\ Acked(ActivateFailed(n, off), held)
<1> DEFINE f == ActivateFailed(n, off)
<1>1. f.win = n.win /\ f.reader = BadReader /\ f.acked = off
  BY DEF ActivateFailed, SlaveNode
<1>2. BadReader \notin Nat
  BY DEF BadReader
<1> HIDE DEF f
<1>3. Ordered(f) /\ Acked(f, held)
  BY <1>1, <1>2 DEF Ordered, Acked
<1> QED BY <1>3 DEF f

(* ... and the window is exact by default: the reader is broken.              *)
LEMMA FailedNodeExact ==
  ASSUME NEW n \in SlaveNode, NEW off \in Nat, NEW written \in Nat
  PROVE  Exact(ActivateFailed(n, off), written)
<1>1. ActivateFailed(n, off).reader = BadReader
  BY DEF ActivateFailed, SlaveNode
<1> QED BY <1>1 DEF Exact

(* Activation starts an empty window at the slave's offset. *)
LEMMA ActivatedNode ==
  ASSUME NEW n \in SlaveNode, NEW off \in Nat, NEW held \in Nat, NEW written \in Nat
  PROVE  /\ Ordered(Activated(n, off))
         /\ off <= held => Acked(Activated(n, off), held)
         /\ off <= written => Exact(Activated(n, off), written)
<1> DEFINE a == Activated(n, off)
<1>1. a.win.items = <<>> /\ a.reader = off /\ a.sent = off /\ a.acked = off
  BY ResetWindow DEF Activated, SlaveNode
<1>2. Len(<<>>) = 0
  BY EmptySeq
<1> HIDE DEF a
<1>3. /\ Ordered(a) /\ (off <= held => Acked(a, held))
      /\ (off <= written => Exact(a, written))
  BY <1>1, <1>2 DEF Ordered, Acked, Exact
<1> QED BY <1>3 DEF a

(* What reading k records does to the fields of a node. *)
LEMMA ReadFields ==
  ASSUME producer \in Nat, NEW n \in SlaveNode, NEW k \in Nat, k <= ReadCount(n), k > 0
  PROVE  LET r == AfterRead(n, k)
             len == Len(n.win.items)
         IN  /\ r.state = n.state /\ r.acked = n.acked
             /\ n.reader \in Nat /\ r.reader = n.reader + k /\ r.sent = n.reader + k
             /\ r.reader <= producer
             /\ len \in Nat /\ Len(r.win.items) = len + k
             /\ \A i \in 1..len : r.win.items[i] = n.win.items[i]
             /\ \A i \in (len + 1)..(len + k) :
                  /\ r.win.items[i].off = n.reader + i - len
                  /\ ~r.win.items[i].acked
             /\ \A i \in 1..len : n.win.items[i] \in WinItem
<1> DEFINE w == PushRecords(n.win, n.reader, k)
           len == Len(n.win.items)
           r == AfterRead(n, k)
<1>1. /\ n.reader \in Nat /\ n.reader + k <= producer
      /\ r = [n EXCEPT !.win = w, !.sent = n.reader + k, !.reader = n.reader + k]
  BY AfterReadFacts
<1>2. n.win \in Window /\ n.win.items \in Seq(WinItem)
  BY DEF SlaveNode, Window
<1>3. len \in Nat /\ \A i \in 1..len : n.win.items[i] \in WinItem
  BY <1>2, LenProperties, ElementOfSeq
<1>4. /\ Len(w.items) = len + k
      /\ \A i \in 1..len : w.items[i] = n.win.items[i]
      /\ \A i \in (len + 1)..(len + k) :
           w.items[i] = [off |-> n.reader + i - len, acked |-> FALSE]
  BY <1>1, <1>2, PushedWindow
<1>5. /\ r.win = w /\ r.state = n.state /\ r.acked = n.acked
      /\ r.reader = n.reader + k /\ r.sent = n.reader + k
  <2> HIDE DEF w, r
  <2> QED BY <1>1 DEF SlaveNode
<1> HIDE DEF w, r, len
<1>6. ASSUME NEW i \in (len + 1)..(len + k)
      PROVE  w.items[i].off = n.reader + i - len /\ ~w.items[i].acked
  <2>1. w.items[i] = [off |-> n.reader + i - len, acked |-> FALSE]
    BY <1>4
  <2> QED BY <2>1
<1> QED BY <1>1, <1>3, <1>4, <1>5, <1>6 DEF r, len

(* Reading appends to the window what follows the reader. *)
LEMMA ReadNode ==
  ASSUME producer \in Nat, NEW n \in SlaveNode, NEW k \in Nat, k <= ReadCount(n)
  PROVE  /\ Ordered(n) => Ordered(AfterRead(n, k))
         /\ \A held \in Nat : Acked(n, held) => Acked(AfterRead(n, k), held)
         /\ Exact(n, producer) => Exact(AfterRead(n, k), producer)
<1>1. CASE k = 0
  BY <1>1, AfterReadFacts
<1>2. CASE k > 0
  <2> DEFINE r == AfterRead(n, k)
             len == Len(n.win.items)
  <2>1. /\ r.state = n.state /\ r.acked = n.acked
        /\ n.reader \in Nat /\ r.reader = n.reader + k /\ r.sent = n.reader + k
        /\ r.reader <= producer
        /\ len \in Nat /\ Len(r.win.items) = len + k
        /\ \A i \in 1..len : r.win.items[i] = n.win.items[i]
        /\ \A i \in (len + 1)..(len + k) : r.win.items[i].off = n.reader + i - len /\ ~r.win.items[i].acked
        /\ \A i \in 1..len : n.win.items[i] \in WinItem
    BY <1>2, ReadFields
  <2>2. \A i \in 1..len : n.win.items[i].off \in Nat
    BY <2>1 DEF WinItem
  <2>3. \A i \in 1..(len + k) : i \in 1..len \/ i \in (len + 1)..(len + k)
    BY <2>1
  <2>n. n.reader \in Nat /\ len \in Nat /\ r.reader = n.reader + k
    BY <2>1
  <2> HIDE DEF r, len
  <2>4. ASSUME Ordered(n) PROVE Ordered(r)
    <3>1. /\ \A i, j \in 1..len : i <= j => n.win.items[i].off <= n.win.items[j].off
          /\ \A i \in 1..len : n.win.items[i].off <= n.reader
      BY <2>1, <2>4 DEF Ordered, len
    <3>2. ASSUME NEW i \in 1..(len + k), NEW j \in 1..(len + k), i <= j
          PROVE  r.win.items[i].off <= r.win.items[j].off
      <4>1. CASE j \in 1..len
        <5>1. i \in 1..len
          BY <2>1, <3>2, <4>1
        <5> QED BY <2>1, <3>1, <3>2, <4>1, <5>1
      <4>2. CASE i \in 1..len /\ j \in (len + 1)..(len + k)
        <5>1. n.win.items[i].off <= n.reader /\ n.win.items[i].off \in Nat
          BY <2>2, <3>1, <4>2
        <5>2. r.win.items[j].off = n.reader + j - len /\ r.win.items[i].off = n.win.items[i].off
          BY <2>1, <4>2
        <5>3. n.reader <= n.reader + j - len
          BY <2>n, <4>2
        <5> QED BY <2>n, <5>1, <5>2, <5>3
      <4>3. CASE i \in (len + 1)..(len + k) /\ j \in (len + 1)..(len + k)
        <5>1. r.win.items[j].off = n.reader + j - len /\ r.win.items[i].off = n.reader + i - len
          BY <2>1, <4>3
        <5> QED BY <2>n, <3>2, <5>1
      <4> QED BY <2>3, <4>1, <4>2, <4>3
    <3>3. ASSUME NEW i \in 1..(len + k) PROVE r.win.items[i].off <= r.reader
      <4>1. CASE i \in 1..len
        <5>1. n.win.items[i].off <= n.reader /\ n.win.items[i].off \in Nat
          BY <2>2, <3>1, <4>1
        <5>2. r.win.items[i].off = n.win.items[i].off
          BY <2>1, <4>1
        <5> QED BY <2>n, <5>1, <5>2
      <4>2. CASE i \in (len + 1)..(len + k)
        <5>1. r.win.items[i].off = n.reader + i - len
          BY <2>1, <4>2
        <5> QED BY <2>n, <4>2, <5>1
      <4> QED BY <2>3, <4>1, <4>2
    <3> QED BY <2>1, <3>2, <3>3 DEF Ordered
  <2>5. ASSUME NEW held \in Nat, Acked(n, held) PROVE Acked(r, held)
    <3>1. ASSUME NEW i \in 1..(len + k), r.win.items[i].acked PROVE r.win.items[i].off <= held
      <4>1. i \in 1..len
        BY <2>1, <2>3, <3>1
      <4> QED BY <2>1, <2>5, <3>1, <4>1 DEF Acked, len
    <3> QED BY <2>1, <2>5, <3>1 DEF Acked
  <2>6. ASSUME Exact(n, producer), r.state = "kSlaveBinlogSync" PROVE Exact(r, producer)
    <3>1. n.reader # BadReader
      BY <2>1 DEF BadReader
    <3>2. /\ \A i \in 1..len : n.win.items[i].off = n.acked + i
          /\ n.sent = n.acked + len
          /\ n.reader = n.sent
          /\ n.win.items # <<>> => ~n.win.items[1].acked
      BY <2>1, <2>6, <3>1 DEF Exact, len
    <3>3. n.acked \in Nat
      BY DEF SlaveNode
    <3>4. ASSUME NEW i \in 1..(len + k) PROVE r.win.items[i].off = r.acked + i
      <4>1. CASE i \in 1..len
        BY <2>1, <3>2, <4>1
      <4>2. CASE i \in (len + 1)..(len + k)
        <5>1. r.win.items[i].off = n.reader + i - len
          BY <2>1, <4>2
        <5> QED BY <2>1, <3>2, <3>3, <5>1
      <4> QED BY <2>3, <4>1, <4>2
    <3>5. ~r.win.items[1].acked
      <4>1. CASE len = 0
        <5>1. 1 \in (len + 1)..(len + k)
          BY <1>2, <4>1
        <5> QED BY <2>1, <5>1
      <4>2. CASE len > 0
        <5>1. n.win.items # <<>>
          BY <4>2, EmptySeq DEF len
        <5>2. 1 \in 1..len
          BY <2>1, <4>2
        <5> QED BY <2>1, <3>2, <5>1, <5>2
      <4> QED BY <2>1, <4>1, <4>2
    <3>6. r.sent = r.acked + Len(r.win.items) /\ r.reader = r.sent /\ r.sent <= producer
      BY <2>1, <3>2, <3>3
    <3> QED BY <2>1, <3>4, <3>5, <3>6 DEF Exact
  <2>7. ASSUME Exact(n, producer) PROVE Exact(r, producer)
    <3>1. CASE r.state = "kSlaveBinlogSync"
      BY <2>6, <2>7, <3>1
    <3>2. CASE r.state # "kSlaveBinlogSync"
      BY <3>2 DEF Exact
    <3> QED BY <3>1, <3>2
  <2> QED BY <2>4, <2>5, <2>7 DEF r
<1>3. k = 0 \/ k > 0
  OBVIOUS
<1> QED BY <1>1, <1>2, <1>3

(* What an acknowledgement does to the fields of a node. *)
LEMMA AckFields ==
  ASSUME NEW n \in SlaveNode, NEW i \in DOMAIN n.win.items, NEW j \in DOMAIN n.win.items,
         NEW p \in 0..Len(n.win.items)
  PROVE  LET a == AfterAck(n, i, j, p)
             len == Len(n.win.items)
         IN  /\ a.state = n.state /\ a.reader = n.reader /\ a.sent = n.sent
             /\ a.acked = IF p = 0 THEN n.acked ELSE n.win.items[p].off
             /\ len \in Nat /\ i \in 1..len /\ j \in 1..len
             /\ \A k \in 1..len : n.win.items[k] \in WinItem
             /\ Len(a.win.items) = len - p
             /\ \A k \in 1..(len - p) :
                  /\ a.win.items[k] = Marked(n.win.items, i, j)[p + k]
                  /\ a.win.items[k].off = n.win.items[p + k].off
                  /\ a.win.items[k].acked <=> n.win.items[p + k].acked \/ p + k \in i..j
<1> DEFINE len == Len(n.win.items)
           w == Acknowledged(n.win, i, j, p)
           a == AfterAck(n, i, j, p)
           m == Marked(n.win.items, i, j)
<1>1. n.win \in Window /\ n.win.items \in Seq(WinItem)
  BY DEF SlaveNode, Window
<1>2. len \in Nat /\ i \in 1..len /\ j \in 1..len /\ \A k \in 1..len : n.win.items[k] \in WinItem
  BY <1>1, LenProperties, ElementOfSeq
<1>3. /\ Len(w.items) = len - p
      /\ \A k \in 1..(len - p) : w.items[k] = m[p + k]
  <2>1. i \in Int /\ j \in Int
    BY <1>2
  <2>2. /\ Len(w.items) = len - p
        /\ \A k \in 1..Len(w.items) : w.items[k] = m[p + k]
    BY <1>1, <2>1, AcknowledgedWindow
  <2> HIDE DEF w, m, len
  <2> QED BY <2>2
<1>4. \A k \in 1..len : m[k].off = n.win.items[k].off /\ (m[k].acked <=> n.win.items[k].acked \/ k \in i..j)
  BY <1>1, MarkedItems
<1>5. /\ a.state = n.state /\ a.reader = n.reader /\ a.sent = n.sent /\ a.win = w
      /\ a.acked = IF p = 0 THEN n.acked ELSE n.win.items[p].off
  BY DEF AfterAck, SlaveNode
<1>6. \A k \in 1..(len - p) : p + k \in 1..len
  BY <1>2
<1> HIDE DEF len, w, a, m
<1>7. ASSUME NEW k \in 1..(len - p)
      PROVE  /\ a.win.items[k] = m[p + k]
             /\ a.win.items[k].off = n.win.items[p + k].off
             /\ a.win.items[k].acked <=> n.win.items[p + k].acked \/ p + k \in i..j
  BY <1>3, <1>4, <1>5, <1>6
<1> QED BY <1>2, <1>3, <1>5, <1>7 DEF len, a, m

(* SlaveNode::Update keeps the order of the window; it acknowledges only what *)
(* was acknowledged before or lies in the range of the request.               *)
LEMMA AckNode ==
  ASSUME NEW n \in SlaveNode, NEW i \in DOMAIN n.win.items, NEW j \in DOMAIN n.win.items,
         NEW p \in 0..Len(n.win.items), NEW start, NEW end \in Nat,
         IsRange(n.win, start, end, i, j),
         IsAckedPrefix(Marked(n.win.items, i, j), p)
  PROVE  /\ Ordered(n) => Ordered(AfterAck(n, i, j, p))
         /\ \A held \in Nat : Ordered(n) /\ Acked(n, held) /\ end <= held =>
              Acked(AfterAck(n, i, j, p), held)
         /\ \A written \in Nat : Exact(n, written) => Exact(AfterAck(n, i, j, p), written)
<1> DEFINE len == Len(n.win.items)
           items == n.win.items
           m == Marked(n.win.items, i, j)
           a == AfterAck(n, i, j, p)
<1>1. /\ a.state = n.state /\ a.reader = n.reader /\ a.sent = n.sent
      /\ a.acked = IF p = 0 THEN n.acked ELSE items[p].off
      /\ len \in Nat /\ i \in 1..len /\ j \in 1..len
      /\ Len(a.win.items) = len - p
      /\ \A k \in 1..(len - p) :
           /\ a.win.items[k] = m[p + k]
           /\ a.win.items[k].off = items[p + k].off
           /\ a.win.items[k].acked <=> items[p + k].acked \/ p + k \in i..j
  BY AckFields
<1>2. \A k \in 1..len : items[k].off \in Nat
  BY AckFields DEF WinItem
<1>3. \A k \in 1..len : m[k].acked <=> items[k].acked \/ k \in i..j
  BY MarkedItems DEF SlaveNode, Window
<1>4. /\ items[j].off = end
      /\ \A k \in 1..p : m[k].acked
      /\ p < len => ~m[p + 1].acked
  <2>1. Len(m) = len
    BY MarkedItems DEF SlaveNode, Window
  <2> QED BY <2>1 DEF IsRange, IsAckedPrefix
<1>5. \A k \in 1..(len - p) : p + k \in 1..len
  BY <1>1
<1> HIDE DEF len, items, m, a
<1>6. ASSUME Ordered(n) PROVE Ordered(a)
  <2>1. /\ \A k, l \in 1..len : k <= l => items[k].off <= items[l].off
        /\ n.reader \in Nat => \A k \in 1..len : items[k].off <= n.reader
    BY <1>6 DEF Ordered, items, len
  <2>2. ASSUME NEW k \in 1..(len - p), NEW l \in 1..(len - p), k <= l
        PROVE  a.win.items[k].off <= a.win.items[l].off
    <3>1. p + k \in 1..len /\ p + l \in 1..len /\ p + k <= p + l
      BY <1>1, <1>5, <2>2
    <3> QED BY <1>1, <2>1, <3>1
  <2>3. a.reader \in Nat => \A k \in 1..(len - p) : a.win.items[k].off <= a.reader
    BY <1>1, <1>5, <2>1
  <2> QED BY <1>1, <2>2, <2>3 DEF Ordered
<1>7. ASSUME NEW held \in Nat, Ordered(n), Acked(n, held), end <= held PROVE Acked(a, held)
  <2>1. ASSUME NEW k \in 1..len, items[k].acked \/ k \in i..j PROVE items[k].off <= held
    <3>1. CASE items[k].acked
      BY <1>7, <2>1, <3>1 DEF Acked, items, len
    <3>2. CASE k \in i..j
      <4>1. items[k].off <= items[j].off
        BY <1>1, <1>7, <2>1, <3>2 DEF Ordered, items, len
      <4> QED BY <1>2, <1>4, <1>7, <2>1, <4>1
    <3> QED BY <2>1, <3>1, <3>2
  <2>2. a.acked <= held
    <3>1. CASE p = 0
      BY <1>1, <1>7, <3>1 DEF Acked
    <3>2. CASE p # 0
      <4>1. p \in 1..p /\ p \in 1..len
        BY <1>1, <3>2 DEF len
      <4>2. items[p].acked \/ p \in i..j
        BY <1>3, <1>4, <4>1
      <4> QED BY <1>1, <2>1, <3>2, <4>1, <4>2
    <3> QED BY <3>1, <3>2
  <2>3. ASSUME NEW k \in 1..(len - p), a.win.items[k].acked PROVE a.win.items[k].off <= held
    BY <1>1, <1>5, <2>1, <2>3
  <2> QED BY <1>1, <2>2, <2>3 DEF Acked
<1>8. ASSUME NEW written \in Nat, Exact(n, written) PROVE Exact(a, written)
  <2> SUFFICES ASSUME n.state = "kSlaveBinlogSync", n.reader # BadReader
               PROVE  /\ \A k \in 1..(len - p) : a.win.items[k].off = a.acked + k
                      /\ a.sent = a.acked + (len - p)
                      /\ a.reader = a.sent
                      /\ a.sent <= written
                      /\ a.win.items # <<>> => ~a.win.items[1].acked
    BY <1>1 DEF Exact
  <2>1. /\ \A k \in 1..len : items[k].off = n.acked + k
        /\ n.sent = n.acked + len
        /\ n.reader = n.sent
        /\ n.sent <= written
    BY <1>8 DEF Exact, items, len
  <2>2. n.acked \in Nat
    BY DEF SlaveNode
  <2>3. a.acked = n.acked + p
    <3>1. CASE p = 0
      BY <1>1, <2>2, <3>1
    <3>2. CASE p # 0
      <4>1. p \in 1..len
        BY <3>2 DEF len
      <4> QED BY <1>1, <2>1, <3>2, <4>1
    <3> QED BY <3>1, <3>2
  <2>4. ASSUME NEW k \in 1..(len - p) PROVE a.win.items[k].off = a.acked + k
    <3>1. p + k \in 1..len /\ a.win.items[k].off = items[p + k].off
      BY <1>1, <1>5
    <3>2. items[p + k].off = n.acked + (p + k)
      BY <2>1, <3>1
    <3> QED BY <2>2, <2>3, <3>1, <3>2
  <2>5. a.sent = a.acked + (len - p) /\ a.reader = a.sent /\ a.sent <= written
    BY <1>1, <2>1, <2>2, <2>3
  <2>6. ASSUME a.win.items # <<>> PROVE ~a.win.items[1].acked
    <3>1. CASE p < len
      <4>1. 1 \in 1..(len - p)
        BY <1>1, <3>1
      <4> QED BY <1>1, <1>4, <3>1, <4>1
    <3>2. CASE ~(p < len)
      <4>1. p = len
        BY <1>1, <3>2 DEF len
      <4>2. Len(a.win.items) = 0
        BY <1>1, <4>1
      <4>3. a.win.items \in Seq(WinItem)
        BY AfterAckType DEF a, SlaveNode, Window
      <4> QED BY <2>6, <4>2, <4>3, EmptySeq
    <3> QED BY <3>1, <3>2
  <2> QED BY <2>4, <2>5, <2>6
<1> QED BY <1>6, <1>7, <1>8 DEF a

-----------------------------------------------------------------------------
(* The window of a slave in binlog sync *)

(* The two forms of the invariant agree. *)
LEMMA WindowExactForm ==
  ASSUME TypeOK
  PROVE  WindowExact <=> Exact(node, producer)
<1>1. DOMAIN node.win.items = 1..Len(node.win.items)
  BY LenProperties DEF TypeOK, SlaveNode, Window
<1> QED BY <1>1 DEF WindowExact, Exact

(* A step keeps the node exact. *)
LEMMA ExactStep ==
  ASSUME TypeOK, [Next]_vars, Exact(node, producer)
  PROVE  Exact(node, producer)'
<1>1. node \in SlaveNode /\ producer \in Nat /\ \A t \in Threads : srv[t].req.start \in Nat /\ srv[t].req.end \in Nat
  BY DEF TypeOK, Task, Request
<1>2. CASE node' = node
  <2>1. producer' \in Nat /\ producer <= producer'
    BY LogsGrow
  <2>2. node.sent \in Nat
    BY <1>1 DEF SlaveNode
  <2> QED BY <1>1, <1>2, <2>1, <2>2 DEF Exact
<1>3. CASE producer' = producer /\ Emptied
  <2>1. Exact(node', producer)
    BY <1>1, <1>3, EmptiedNode DEF Emptied
  <2> QED BY <1>3, <2>1 DEF Exact
<1>4. CASE producer' = producer /\ Failed
  <2>1. Exact(node', producer)
    BY <1>1, <1>4, FailedNodeExact DEF Failed
  <2> QED BY <1>4, <2>1 DEF Exact
<1>5. CASE producer' = producer /\ Restarted
  <2>1. Exact(node', producer)
    BY <1>1, <1>5, ActivatedNode DEF Restarted
  <2> QED BY <1>5, <2>1 DEF Exact
<1>6. CASE producer' = producer /\ Updated
  <2>1. PICK t \in Threads, i \in DOMAIN node.win.items, j \in DOMAIN node.win.items,
             p \in 0..Len(node.win.items) :
          /\ IsRange(node.win, srv[t].req.start, srv[t].req.end, i, j)
          /\ IsAckedPrefix(Marked(node.win.items, i, j), p)
          /\ node' = AfterAck(node, i, j, p)
    BY <1>6 DEF Updated
  <2>2. Exact(node', producer)
    BY <1>1, <2>1, AckNode
  <2> QED BY <1>6, <2>2 DEF Exact
<1>7. CASE producer' = producer /\ Extended
  <2>1. Exact(node', producer)
    BY <1>1, <1>7, ReadNode DEF Extended
  <2> QED BY <1>7, <2>1 DEF Exact
<1>8. CASE producer' = producer /\ Renamed
  <2>1. Exact(node', producer)
    BY <1>1, <1>8, RenamedNode DEF Renamed
  <2> QED BY <1>8, <2>1 DEF Exact
<1> QED BY <1>2, <1>3, <1>4, <1>5, <1>6, <1>7, <1>8, NodeSteps

(* SyncWindow and SlaveNode: whatever threads, sessions, lost connections,    *)
(* timeouts and failed reads come between, the window of a slave in binlog    *)
(* sync is exactly the records between its acknowledged and its sent offset.  *)
THEOREM WindowAlwaysExact == Spec => []WindowExact
<1>1. Init => Exact(node, producer)
  BY EmptiedNode DEF Init
<1>2. TypeOK /\ Exact(node, producer) /\ [Next]_vars => Exact(node, producer)'
  BY ExactStep
<1>3. TypeOK /\ Exact(node, producer) => WindowExact
  BY WindowExactForm
<1> QED BY <1>1, <1>2, <1>3, TypeCorrect, PTL DEF Spec

-----------------------------------------------------------------------------
(* What the master takes for acknowledged *)

(* The new request of a step, if any, and the old ones are honest. *)
LEMMA HonestAppend ==
  ASSUME s2m \in Seq(Request), NEW req \in Request, SendRequest(req),
         \A i \in 1..Len(s2m) : s2m[i].end <= Len(slog) /\ (s2m[i].first => s2m[i].start <= Len(slog)),
         req.end <= Len(slog) /\ (req.first => req.start <= Len(slog))
  PROVE  \A i \in 1..Len(s2m') :
           s2m'[i].end <= Len(slog) /\ (s2m'[i].first => s2m'[i].start <= Len(slog))
<1>1. CASE s2m' = s2m
  BY <1>1
<1>2. CASE s2m' = Append(s2m, req)
  <2>1. Len(s2m) \in Nat /\ Len(s2m') = Len(s2m) + 1
    BY <1>2, LenProperties
  <2>2. ASSUME NEW i \in 1..Len(s2m') PROVE s2m'[i] = req \/ (i \in 1..Len(s2m) /\ s2m'[i] = s2m[i])
    BY <1>2, <2>1
  <2> QED BY <2>2
<1> QED BY <1>1, <1>2 DEF SendRequest

(* The requests stay honest: the slave acknowledges its own producer offset, *)
(* and requests are only moved, lost or marked as not live after that.       *)
LEMMA HonestStep ==
  ASSUME TypeOK, [Next]_vars, HonestRequests
  PROVE  HonestRequests'
<1> USE DEF masterVars, auxVars, netVars, slaveVars, ghostVars
<1> DEFINE Fine(r) == r.end <= Len(slog) /\ (r.first => r.start <= Len(slog))
           AllFine == /\ \A i \in 1..Len(s2m') : Fine(s2m'[i])
                      /\ \A t \in Threads : Fine(srv'[t].req)
<1>0. /\ \A i \in 1..Len(s2m) : Fine(s2m[i])
      /\ \A t \in Threads : Fine(srv[t].req)
  BY DEF HonestRequests, HonestRequest
<1>1. Len(slog) \in Nat /\ Len(slog') \in Nat /\ Len(slog) <= Len(slog')
  BY LogsGrow, LenProperties DEF TypeOK
<1>2. s2m \in Seq(Request) /\ srv \in [Threads -> Task] /\ slog \in Seq(Nat)
  BY DEF TypeOK
<1>3. ASSUME UNCHANGED <<s2m, srv>> PROVE AllFine
  BY <1>0, <1>3
<1>4. Fine(NoRequest)
  BY <1>1 DEF NoRequest
<1>5. ASSUME NEW t \in Threads, ServerThread(t) PROVE AllFine
  <2>1. CASE DealMessage(t)
    <3>1. s2m # <<>> /\ s2m' = Tail(s2m) /\ srv' = [srv EXCEPT ![t] = [pc |-> "start", req |-> Head(s2m)]]
      BY <2>1 DEF DealMessage
    <3>2. /\ Len(s2m) \in Nat /\ Len(s2m) > 0 /\ Len(s2m') = Len(s2m) - 1
          /\ \A i \in 1..Len(s2m') : s2m'[i] = s2m[i + 1]
          /\ Head(s2m) = s2m[1]
      BY <1>2, <3>1, HeadTailProperties, EmptySeq, LenProperties
    <3>3. \A i \in 1..Len(s2m') : Fine(s2m'[i])
      <4>1. \A i \in 1..Len(s2m') : i + 1 \in 1..Len(s2m)
        BY <3>2
      <4> QED BY <1>0, <3>2, <4>1
    <3>4. Fine(Head(s2m))
      <4>1. 1 \in 1..Len(s2m)
        BY <3>2
      <4> QED BY <1>0, <3>2, <4>1
    <3>5. \A u \in Threads : Fine(srv'[u].req)
      <4> HIDE DEF Fine
      <4> QED BY <1>0, <1>2, <3>1, <3>4
    <3> QED BY <3>3, <3>5
  <2>2. CASE (Done(t) \/ \E pc : Goto(t, pc)) /\ UNCHANGED s2m
    <3>1. \A u \in Threads : srv'[u].req = srv[u].req \/ srv'[u].req = NoRequest
      BY <1>2, <2>2 DEF Done, Goto, Idle, Task
    <3>2. \A u \in Threads : Fine(srv'[u].req)
      <4> HIDE DEF Fine
      <4> QED BY <1>0, <1>4, <3>1
    <3> QED BY <1>0, <2>2, <3>2
  <2>3. ~DealMessage(t) => (Done(t) \/ \E pc : Goto(t, pc)) /\ UNCHANGED s2m
    BY <1>5 DEF ServerThread, HandleTrySync, TrySyncAddNode, TrySyncGetSession, CheckSessionId,
                ActivateSlaveBinlogSync, UpdateSyncBinlogStatus, SyncBinlogToWq
  <2> QED BY <2>1, <2>2, <2>3
<1>6. ASSUME LinkDown PROVE AllFine
  <2>1. PICK k \in 0..Len(s2m) : s2m' = SubSeq(s2m, 1, k)
    BY <1>6 DEF LinkDown
  <2>2. Len(s2m') = k /\ \A i \in 1..k : s2m'[i] = s2m[i] /\ i \in 1..Len(s2m)
    BY <1>2, <2>1, PrefixType
  <2>3. srv' = srv
    BY <1>6 DEF LinkDown
  <2> QED BY <1>0, <2>2, <2>3
<1>7. ASSUME MasterFdClosed PROVE AllFine
  <2>1. /\ s2m' = [i \in DOMAIN s2m |-> [s2m[i] EXCEPT !.live = FALSE]]
        /\ srv' = [t \in Threads |-> [srv[t] EXCEPT !.req.live = FALSE]]
    BY <1>7 DEF MasterFdClosed
  <2>2. Len(s2m) \in Nat /\ DOMAIN s2m = 1..Len(s2m) /\ \A i \in 1..Len(s2m) : s2m[i] \in Request
    BY <1>2, LenProperties, ElementOfSeq
  <2>3. Len(s2m') = Len(s2m)
    BY <2>1, <2>2
  <2>4. ASSUME NEW i \in 1..Len(s2m)
        PROVE  /\ s2m'[i].end = s2m[i].end /\ s2m'[i].start = s2m[i].start
               /\ s2m'[i].first = s2m[i].first
    BY <2>1, <2>2 DEF Request
  <2>5. ASSUME NEW t \in Threads
        PROVE  /\ srv'[t].req.end = srv[t].req.end /\ srv'[t].req.start = srv[t].req.start
               /\ srv'[t].req.first = srv[t].req.first
    BY <1>2, <2>1 DEF Task, Request
  <2> QED BY <1>0, <2>3, <2>4, <2>5
<1>8. ASSUME SendTrySync PROVE AllFine
  <2> DEFINE r == [NoRequest EXCEPT !.start = Len(slog), !.end = Len(slog), !.live = TRUE]
  <2>1. r \in Request /\ Fine(r)
    <3>1. r \in Request
      BY <1>1, MessageTypes DEF Request
    <3>2. r.end = Len(slog) /\ r.start = Len(slog)
      BY DEF NoRequest
    <3> HIDE DEF r
    <3> QED BY <1>1, <3>1, <3>2
  <2>2. SendRequest(r) /\ srv' = srv
    BY <1>8 DEF SendTrySync
  <2> HIDE DEF r
  <2>3. \A i \in 1..Len(s2m') : Fine(s2m'[i])
    BY <1>0, <1>2, <2>1, <2>2, HonestAppend
  <2> QED BY <1>0, <2>2, <2>3
<1>9. ASSUME HandleTrySyncResponse PROVE AllFine
  <2> DEFINE r == BinlogSyncRequest(session', Len(slog), Len(slog), TRUE)
  <2>1. CASE SendRequest(r)
    <3>1. session' \in Nat
      BY TypeSlave, <1>9 DEF TypeOK, BinlogWorker
    <3>2. r \in Request /\ Fine(r)
      <4>1. r \in Request
        BY <1>1, <3>1, MessageTypes
      <4>2. r.end = Len(slog) /\ r.start = Len(slog)
        BY DEF BinlogSyncRequest
      <4> HIDE DEF r
      <4> QED BY <1>1, <4>1, <4>2
    <3>3. srv' = srv
      BY <1>9 DEF HandleTrySyncResponse
    <3> HIDE DEF r
    <3>4. \A i \in 1..Len(s2m') : Fine(s2m'[i])
      BY <1>0, <1>2, <2>1, <3>2, HonestAppend
    <3> QED BY <1>0, <3>3, <3>4
  <2>2. CASE UNCHANGED <<s2m, srv>>
    BY <1>0, <2>2
  <2> QED BY <1>9, <2>1, <2>2 DEF HandleTrySyncResponse
<1>10. ASSUME SendBinlogSyncAck PROVE AllFine
  <2> DEFINE begin == Head(slaveIn).begin
             r == BinlogSyncRequest(session, begin, IF begin = 0 THEN 0 ELSE Len(slog), FALSE)
  <2>1. begin \in Nat /\ session \in Nat
    <3>1. Head(slaveIn) \in Response
      BY <1>10, HeadTailProperties DEF TypeOK, SendBinlogSyncAck
    <3> QED BY <3>1 DEF TypeOK, Response
  <2>2. r \in Request /\ Fine(r)
    <3> HIDE DEF begin
    <3>1. (IF begin = 0 THEN 0 ELSE Len(slog)) \in Nat
      BY <1>1
    <3>2. r \in Request
      BY <2>1, <3>1, MessageTypes
    <3>3. r.end = (IF begin = 0 THEN 0 ELSE Len(slog)) /\ r.first = FALSE
      BY DEF BinlogSyncRequest
    <3> HIDE DEF r
    <3> QED BY <1>1, <3>2, <3>3
  <2>3. SendRequest(r) /\ srv' = srv
    BY <1>10 DEF SendBinlogSyncAck
  <2> HIDE DEF r
  <2>4. \A i \in 1..Len(s2m') : Fine(s2m'[i])
    BY <1>0, <1>2, <2>2, <2>3, HonestAppend
  <2> QED BY <1>0, <2>3, <2>4
<1>11. UNCHANGED <<s2m, srv>> \/ AllFine
  BY <1>5, <1>6, <1>7, <1>8, <1>9, <1>10
     DEF Next, vars, ProposeLog, AuxiliaryThread, WakeUpSlaveBinlogSync, ConsumeWriteQueue,
         SendSlaveBinlogChips, EraseWriteQueue, SendKeepAlive, MasterTimeout, Network,
         SlaveFdClosed, SlaveFdTimeout, MetaSync, SlaveTimeout, BinlogWorker, WriteBinlogRecord
<1>12. AllFine
  BY <1>3, <1>11
<1>13. TypeOK'
  BY TypeCorrectStep
<1>14. /\ \A i \in 1..Len(s2m') : s2m'[i].end \in Nat /\ s2m'[i].start \in Nat
       /\ \A t \in Threads : srv'[t].req.end \in Nat /\ srv'[t].req.start \in Nat
  <2>1. \A i \in 1..Len(s2m') : s2m'[i] \in Request
    BY <1>13, ElementOfSeq DEF TypeOK
  <2>2. \A t \in Threads : srv'[t].req \in Request
    BY <1>13 DEF TypeOK, Task
  <2> QED BY <2>1, <2>2 DEF Request
<1> QED BY <1>1, <1>12, <1>14 DEF HonestRequests, HonestRequest

(* A step keeps the node ordered and acknowledged only as far as the slave goes. *)
LEMMA AckedStep ==
  ASSUME AckedInv, [Next]_vars
  PROVE  Ordered(node') /\ Acked(node', Len(slog'))
<1>1. /\ node \in SlaveNode /\ producer \in Nat
      /\ Ordered(node) /\ Acked(node, Len(slog))
  BY DEF AckedInv, TypeOK
<1>2. ASSUME NEW t \in Threads
      PROVE  /\ srv[t].req.start \in Nat /\ srv[t].req.end \in Nat
             /\ srv[t].req.end <= Len(slog)
             /\ srv[t].req.first => srv[t].req.start <= Len(slog)
  BY DEF AckedInv, TypeOK, Task, Request, HonestRequests, HonestRequest
<1>3. Len(slog) \in Nat /\ Len(slog') \in Nat /\ Len(slog) <= Len(slog')
  BY LogsGrow, LenProperties DEF AckedInv, TypeOK
<1>4. CASE node' = node
  <2>1. \A i \in 1..Len(node.win.items) : node.win.items[i].off \in Nat
    <3>1. \A i \in 1..Len(node.win.items) : node.win.items[i] \in WinItem
      BY <1>1, ElementOfSeq DEF SlaveNode, Window
    <3> QED BY <3>1 DEF WinItem
  <2>2. node.acked \in Nat
    BY <1>1 DEF SlaveNode
  <2>3. Acked(node, Len(slog'))
    BY <1>1, <1>3, <2>1, <2>2 DEF Acked
  <2> QED BY <1>1, <1>4, <2>3
<1>5. ASSUME Emptied PROVE Ordered(node') /\ Acked(node', Len(slog))
  BY <1>1, <1>3, <1>5, EmptiedNode DEF Emptied
<1>6. ASSUME Failed PROVE Ordered(node') /\ Acked(node', Len(slog))
  BY <1>1, <1>2, <1>3, <1>6, FailedNode DEF Failed
<1>7. ASSUME Restarted PROVE Ordered(node') /\ Acked(node', Len(slog))
  BY <1>1, <1>2, <1>3, <1>7, ActivatedNode DEF Restarted
<1>8. ASSUME Updated PROVE Ordered(node') /\ Acked(node', Len(slog))
  <2>1. PICK t \in Threads, i \in DOMAIN node.win.items, j \in DOMAIN node.win.items,
             p \in 0..Len(node.win.items) :
          /\ IsRange(node.win, srv[t].req.start, srv[t].req.end, i, j)
          /\ IsAckedPrefix(Marked(node.win.items, i, j), p)
          /\ node' = AfterAck(node, i, j, p)
    BY <1>8 DEF Updated
  <2> QED BY <1>1, <1>2, <1>3, <2>1, AckNode
<1>9. ASSUME Extended PROVE Ordered(node') /\ Acked(node', Len(slog))
  BY <1>1, <1>3, <1>9, ReadNode DEF Extended
<1>10. ASSUME Renamed PROVE Ordered(node') /\ Acked(node', Len(slog))
  BY <1>1, <1>3, <1>10, RenamedNode DEF Renamed
<1> QED BY <1>4, <1>5, <1>6, <1>7, <1>8, <1>9, <1>10, NodeSteps DEF AckedInv

(* The invariant holds at the start and is kept by every step. *)
LEMMA AckedInit == Init => AckedInv
<1> SUFFICES ASSUME Init PROVE AckedInv
  OBVIOUS
<1>1. TypeOK
  BY TypeInit
<1>2. Len(slog) = 0 /\ Len(s2m) = 0
  BY EmptySeq DEF Init
<1>3. Ordered(node) /\ Acked(node, Len(slog))
  BY <1>2, EmptiedNode DEF Init
<1>4. HonestRequests
  BY <1>2 DEF Init, HonestRequests, HonestRequest, Idle, NoRequest
<1> QED BY <1>1, <1>3, <1>4 DEF AckedInv

LEMMA AckedInvStep == AckedInv /\ [Next]_vars => AckedInv'
<1> SUFFICES ASSUME AckedInv, [Next]_vars PROVE AckedInv'
  OBVIOUS
<1>1. TypeOK' /\ HonestRequests'
  BY TypeCorrectStep, HonestStep DEF AckedInv
<1>2. Ordered(node') /\ Acked(node', Len(slog'))
  BY AckedStep
<1> QED BY <1>1, <1>2 DEF AckedInv, Ordered, Acked

(* SlaveNode::Update and SyncWindow::Update: in every execution, whatever     *)
(* messages are lost or delayed, sessions reused or requests handled out of   *)
(* order, the master takes for acknowledged only what the slave's binlog has. *)
THEOREM AckedAlwaysHeld == Spec => []AckedBySlave
<1>1. AckedInv => AckedBySlave
  <2> SUFFICES ASSUME AckedInv PROVE AckedBySlave
    OBVIOUS
  <2>1. DOMAIN node.win.items = 1..Len(node.win.items)
    BY LenProperties DEF AckedInv, TypeOK, SlaveNode, Window
  <2> QED BY <2>1 DEF AckedInv, AckedBySlave, Acked
<1> QED BY <1>1, AckedInit, AckedInvStep, PTL DEF Spec

=============================================================================
