----------------------------- MODULE BinlogSync -----------------------------
(***************************************************************************)
(* Incremental (binlog) replication of one database from a master to one   *)
(* slave.                                                                  *)
(*                                                                         *)
(* The master appends records to its binlog; for a registered slave it     *)
(* keeps a SlaveNode with a send window, fills a write queue from the      *)
(* binlog file, and the auxiliary thread ships the queue in batches over   *)
(* the connection.  The slave's binlog worker appends the records to its   *)
(* own binlog and acknowledges ranges; a pool of server threads on the     *)
(* master handles the requests of the slave.  The session is set up by     *)
(* MetaSync, TrySync and a first BinlogSync request.                       *)
(*                                                                         *)
(* A binlog offset is the number of records before it: record i of the     *)
(* master is the number i, and `slog` lists the records the slave holds.   *)
(* Both servers roll files at the same offsets, so file numbers are left   *)
(* out.  All records have the same size.                                   *)
(***************************************************************************)
EXTENDS Integers, Sequences, FiniteSets, SyncWindow

CONSTANTS
  Threads,      \* threads of the master's server pool (PIKA_REPL_SERVER_TP_SIZE)
  WindowSize,   \* conf sync-window-size
  MaxTotal,     \* bytes a window may hold before reading stops (PIKA_MAX_CONN_RBUF_HB * 2)
  BatchNum,     \* kBinlogSendBatchNum
  PacketNum,    \* kBinlogSendPacketNum
  MaxLog,       \* bound: records the clients write
  MaxSession,   \* bound: sessions the master generates
  Faults,       \* kinds of failures that happen
  MaxFaults     \* bound: failures

FaultKinds == {"link", "masterTimeout", "slaveTimeout", "read"}

ASSUME ConstantsAssumption ==
  /\ Threads # {}
  /\ {WindowSize, BatchNum, PacketNum} \subseteq Nat \ {0}
  /\ {MaxTotal, MaxLog, MaxSession, MaxFaults} \subseteq Nat
  /\ MaxTotal + 1 < SizeRange /\ WindowSize < SizeRange
  /\ Faults \subseteq FaultKinds

VARIABLES
  producer,     \* master: producer offset of its binlog
  node,         \* master: the SlaveNode of the slave
  nextSession,  \* master: SyncMasterDB::session_id_
  wq,           \* master: write queue of the slave
  outbox,       \* auxiliary thread: batches taken from wq and not yet sent
  sendFailed,   \* auxiliary thread: some batch could not be sent
  srv,          \* server pool: the task each thread is working on
  link,         \* the TCP connection of the slave is up
  closing,      \* NotifyClose was called on the connection
  mslave,       \* master: the slave is in PikaServer::slaves_
  mconn,        \* master: the entry of client_conn_map_ for the slave
  s2m,          \* requests not yet taken by a server thread
  slaveIn,      \* responses on their way to, or queued at, the binlog worker
  metaDone,     \* slave: PikaServer::repl_state_ is PIKA_REPL_META_SYNC_DONE
  attached,     \* slave: SyncSlaveDB::m_info_ names the master
  rstate,       \* slave: SyncSlaveDB::repl_state_
  session,      \* slave: SyncSlaveDB::MasterSessionId
  slog,         \* slave: records of its binlog
  overlap,      \* history: how two synchronisation rounds came to overlap
  faults        \* number of failures so far

masterVars == <<producer, node, nextSession, wq>>
auxVars    == <<outbox, sendFailed>>
netVars    == <<link, closing, mslave, mconn>>
slaveVars  == <<metaDone, attached, rstate, session, slog>>
ghostVars  == <<overlap, faults>>
vars == <<masterVars, auxVars, srv, netVars, s2m, slaveIn, slaveVars, ghostVars>>

-----------------------------------------------------------------------------
(* Types *)

ReplState == {"kNoConnect", "kTryConnect", "kWaitReply", "kConnected", "kError"}
SlaveState == {"kSlaveNotSync", "kSlaveBinlogSync"}

NoReader == -1    \* SlaveNode::binlog_reader is null
BadReader == -2   \* its Seek failed

SlaveNode ==
  [exists: BOOLEAN, session: Nat, state: SlaveState, win: Window,
   sent: Nat, acked: Nat, reader: Nat \cup {NoReader, BadReader}]

(* A record on its way to the slave; off = 0 is an empty keepalive record. *)
Chip == [off: Nat, session: Nat]

(* TrySync: start is the slave's offset.  BinlogSync: an acknowledged range, *)
(* or with `first` the offset to start from.  `live`: the connection that    *)
(* carried the request is still open on the master.                          *)
Request ==
  [type: {"TrySync", "BinlogSync"}, first: BOOLEAN, session: Nat,
   start: Nat, end: Nat, live: BOOLEAN]

(* TrySync: code and session.  BinlogSync: the records not yet processed and *)
(* the offset of the first record that is not a keepalive.                   *)
Response ==
  [type: {"TrySync", "BinlogSync"}, code: {"kOk", "kSyncPointLarger", "kError"},
   session: Nat, begin: Nat, chips: Seq(Chip)]

NoRequest == [type |-> "TrySync", first |-> FALSE, session |-> 0,
              start |-> 0, end |-> 0, live |-> FALSE]
Task == [pc: {"idle", "start", "add", "session", "apply", "fill"}, req: Request]
Idle == [pc |-> "idle", req |-> NoRequest]

NewSlaveNode(s) ==
  [exists |-> TRUE, session |-> s, state |-> "kSlaveNotSync", win |-> Reset,
   sent |-> 0, acked |-> 0, reader |-> NoReader]
NoSlaveNode == [NewSlaveNode(0) EXCEPT !.exists = FALSE]

TypeOK ==
  /\ producer \in Nat
  /\ node \in SlaveNode
  /\ nextSession \in Nat
  /\ wq \in Seq(Chip)
  /\ outbox \in Seq(Seq(Chip) \ {<<>>})
  /\ sendFailed \in BOOLEAN
  /\ srv \in [Threads -> Task]
  /\ link \in BOOLEAN
  /\ closing \in BOOLEAN
  /\ mslave \in BOOLEAN
  /\ mconn \in {"none", "cur", "old"}
  /\ s2m \in Seq(Request)
  /\ slaveIn \in Seq(Response)
  /\ metaDone \in BOOLEAN
  /\ attached \in BOOLEAN
  /\ rstate \in ReplState
  /\ session \in Nat
  /\ slog \in Seq(Nat)
  /\ overlap \subseteq {"reuse", "race", "toctou", "lostread"}
  /\ faults \in Nat

Init ==
  /\ producer = 0 /\ node = NoSlaveNode /\ nextSession = 0 /\ wq = <<>>
  /\ outbox = <<>> /\ sendFailed = FALSE
  /\ srv = [t \in Threads |-> Idle]
  /\ link = FALSE /\ closing = FALSE /\ mslave = FALSE /\ mconn = "none"
  /\ s2m = <<>> /\ slaveIn = <<>>
  /\ metaDone = FALSE /\ attached = FALSE /\ rstate = "kNoConnect" /\ session = 0
  /\ slog = <<>>
  /\ overlap = {} /\ faults = 0

(* One more failure of the given kind. *)
Fault(kind) == kind \in Faults /\ faults < MaxFaults /\ faults' = faults + 1

-----------------------------------------------------------------------------
(* Sending *)

(* A handler answers on the connection that carried the request. *)
Reply(req, resp) ==
  slaveIn' = IF req.live /\ link THEN Append(slaveIn, resp) ELSE slaveIn

(* Mutant of TrySyncReply: an error carries the failed session number. *)
TrySyncReplyUnset(code, s) ==
  [type |-> "TrySync", code |-> code, session |-> IF code = "kOk" THEN s ELSE -1,
   begin |-> 0, chips |-> <<>>]

TrySyncReply(code, s) ==
  [type |-> "TrySync", code |-> code, session |-> s, begin |-> 0, chips |-> <<>>]

(* conn->NotifyClose(): the network thread closes the connection later. *)
NotifyClose(req) == closing' = (closing \/ (req.live /\ link))

BinlogChips(batch) ==
  [type |-> "BinlogSync", code |-> "kOk", session |-> 0,
   begin |-> Head(batch).off, chips |-> batch]

(* PikaReplServer::Write finds a connection for the slave; what it writes is *)
(* lost when the connection is down and nobody has noticed.                  *)
CanWrite == mconn = "cur" /\ mslave
Write(resp) == slaveIn' = IF link THEN Append(slaveIn, resp) ELSE slaveIn

(* PikaReplClient::Send*: lost without a master address or connection. *)
SendRequest(req) ==
  s2m' = IF attached /\ link THEN Append(s2m, req) ELSE s2m

-----------------------------------------------------------------------------
(* Master: reading the binlog into the write queue *)

(* Records the loop of ReadBinlogFileToWq reads: the window has room, the    *)
(* outstanding size is not over its limit, and the file has records.         *)
ReadCount(n) ==
  LET room == Remaining(n.win, WindowSize)
      size == IF n.win.total > MaxTotal THEN 0 ELSE MaxTotal + 1 - n.win.total
      left == IF n.reader \in Nat /\ n.reader <= producer THEN producer - n.reader ELSE 0
  IN  CHOOSE k \in {room, size, left} : k <= room /\ k <= size /\ k <= left

AfterRead(n, k) ==
  IF k = 0 THEN n
  ELSE [n EXCEPT !.win = PushRecords(n.win, n.reader, k),
                 !.sent = n.reader + k, !.reader = n.reader + k]

(* The tasks of the k records that ReadBinlogFileToWq gives ProduceWriteQueue. *)
WriteTasks(n, k) == [i \in 1..k |-> [off |-> n.reader + i, session |-> n.session]]

(* A reader whose Seek failed fails as soon as it is asked for a record. *)
ReadBroken(n) ==
  n.reader = BadReader /\ Remaining(n.win, WindowSize) > 0 /\ n.win.total <= MaxTotal

(* ReadBinlogFileToWq fills the window and the write queue. *)
ReadBinlogFileToWq ==
  /\ ~ReadBroken(node)
  /\ node' = AfterRead(node, ReadCount(node))
  /\ wq' = wq \o WriteTasks(node, ReadCount(node))

(* ReadBinlogFileToWq that fails at its (k+1)-th record: what was read stays *)
(* in the window and is never queued.                                        *)
FailedRead(k) ==
  /\ \/ k < ReadCount(node) /\ Fault("read")
     \/ k = 0 /\ ReadBroken(node) /\ UNCHANGED faults
  /\ node' = AfterRead(node, k)

(* History: a failed read left k records unsent; a request was applied to a *)
(* node of another session than the one that was checked.                   *)
LostRead(k) == IF k > 0 THEN {"lostread"} ELSE {}
StaleTask(req) == IF req.session = node.session THEN {} ELSE {"toctou"}

-----------------------------------------------------------------------------
(* Master: clients and the server pool *)

(* ConsensusCoordinator::ProposeLog: a write command appends its record. *)
ProposeLog ==
  /\ producer < MaxLog
  /\ producer' = producer + 1
  /\ UNCHANGED <<node, nextSession, wq, auxVars, srv, netVars, s2m, slaveIn,
                 slaveVars, ghostVars>>

(* PikaReplServerConn::DealMessage: a request becomes a task of the pool. *)
DealMessage(t) ==
  /\ s2m # <<>>
  /\ srv[t].pc = "idle"
  /\ srv' = [srv EXCEPT ![t] = [pc |-> "start", req |-> Head(s2m)]]
  /\ s2m' = Tail(s2m)
  /\ UNCHANGED <<masterVars, auxVars, netVars, slaveIn, slaveVars, ghostVars>>

Done(t) == srv' = [srv EXCEPT ![t] = Idle]
Goto(t, pc) == srv' = [srv EXCEPT ![t].pc = pc]

(* TrySyncOffsetCheck: the slave is not ahead of the master.  Every record    *)
(* boundary is a start point, and no file is purged.                          *)
TrySyncOffsetCheck(req) == req.start <= producer

(* HandleTrySyncRequest: a slave that is ahead is refused; otherwise          *)
(* CheckSlaveNodeExist chooses a branch of TrySyncUpdateSlaveNode.            *)
HandleTrySync(t) ==
  LET req == srv[t].req IN
  /\ srv[t].pc = "start" /\ req.type = "TrySync"
  /\ \/ /\ ~TrySyncOffsetCheck(req)
        /\ Reply(req, TrySyncReply("kSyncPointLarger", 0))
        /\ Done(t)
     \/ /\ TrySyncOffsetCheck(req)
        /\ Goto(t, IF node.exists THEN "session" ELSE "add")
        /\ UNCHANGED slaveIn
  /\ UNCHANGED <<masterVars, auxVars, netVars, s2m, slaveVars, ghostVars>>

(* The branch for an unknown slave: it gets a new session and a node, or, when *)
(* another thread was faster, the node there is gets the new session; the      *)
(* connection is recorded.  At its bound GenSessionId fails.                   *)
TrySyncAddNode(t) ==
  LET req == srv[t].req IN
  /\ srv[t].pc = "add"
  /\ \/ /\ nextSession = MaxSession
        /\ Reply(req, TrySyncReply("kError", 0))
        /\ UNCHANGED <<node, nextSession, mconn, overlap>>
     \/ /\ nextSession < MaxSession
        /\ nextSession' = nextSession + 1
        /\ node' = IF node.exists THEN [node EXCEPT !.session = nextSession]
                   ELSE NewSlaveNode(nextSession)
        /\ mconn' = IF req.live THEN "cur" ELSE "old"
        /\ Reply(req, TrySyncReply("kOk", nextSession))
        /\ overlap' = IF node.exists THEN overlap \cup {"race"} ELSE overlap
  /\ Done(t)
  /\ UNCHANGED <<producer, wq, auxVars, link, closing, mslave, s2m, slaveVars, faults>>

(* The branch for a slave that is already known: the reply carries the      *)
(* session that is in use.                                                  *)
TrySyncGetSession(t) ==
  /\ srv[t].pc = "session"
  /\ \/ /\ node.exists
        /\ Reply(srv[t].req, TrySyncReply("kOk", node.session))
        /\ overlap' = overlap \cup {"reuse"}
     \/ /\ ~node.exists
        /\ Reply(srv[t].req, TrySyncReply("kError", 0))
        /\ UNCHANGED overlap
  /\ Done(t)
  /\ UNCHANGED <<masterVars, auxVars, netVars, s2m, slaveVars, faults>>

(* HandleBinlogSyncRequest up to SetLastRecvTime: a request of another *)
(* session is ignored.                                                 *)
CheckSessionId(t) ==
  LET req == srv[t].req IN
  /\ srv[t].pc = "start" /\ req.type = "BinlogSync"
  /\ IF node.exists /\ node.session = req.session THEN Goto(t, "apply") ELSE Done(t)
  /\ UNCHANGED <<masterVars, auxVars, netVars, s2m, slaveIn, slaveVars, ghostVars>>

(* Mutant of Activated: the window is not reset. *)
ActivatedKeepingWindow(n, off) ==
  [n EXCEPT !.state = "kSlaveBinlogSync", !.sent = off, !.acked = off, !.reader = off]

(* SlaveNode after the locked part of ActivateSlaveBinlogSync. *)
Activated(n, off) ==
  [n EXCEPT !.state = "kSlaveBinlogSync", !.sent = off, !.acked = off,
            !.reader = off, !.win = Reset]

(* ... when InitBinlogFileReader fails: the window keeps its items. *)
ActivateFailed(n, off) ==
  [n EXCEPT !.state = "kSlaveBinlogSync", !.sent = off, !.acked = off,
            !.reader = BadReader]

(* The first BinlogSync request: ActivateSlaveBinlogSync drops the write    *)
(* queue and places the reader at the slave's offset.  The node may be       *)
(* another one than CheckSessionId saw.                                      *)
ActivateSlaveBinlogSync(t) ==
  LET req == srv[t].req IN
  /\ srv[t].pc = "apply" /\ req.first
  /\ \/ /\ ~node.exists
        /\ NotifyClose(req)
        /\ Done(t)
        /\ UNCHANGED <<node, wq, overlap, faults>>
     \/ /\ node.exists
        /\ \/ req.start > producer /\ UNCHANGED faults
           \/ Fault("read")
        /\ node' = ActivateFailed(node, req.start)
        /\ overlap' = overlap \cup StaleTask(req)
        /\ NotifyClose(req)
        /\ Done(t)
        /\ UNCHANGED wq
     \/ /\ node.exists /\ req.start <= producer
        /\ node' = Activated(node, req.start)
        /\ wq' = <<>>
        /\ overlap' = overlap \cup StaleTask(req)
        /\ Goto(t, "fill")
        /\ UNCHANGED <<closing, faults>>
  /\ UNCHANGED <<producer, nextSession, auxVars, link, mslave, mconn, s2m, slaveIn, slaveVars>>

(* SlaveNode::Update for window positions i..j when n items are popped. *)
AfterAck(nd, i, j, n) ==
  [nd EXCEPT !.win = Acknowledged(nd.win, i, j, n),
             !.acked = IF n = 0 THEN nd.acked ELSE nd.win.items[n].off]

(* A later BinlogSync request: a zero range is a ping, any other range is     *)
(* acknowledged in the window (UpdateSyncBinlogStatus); a range that is not   *)
(* in the window, or a node that is gone, closes the connection.  Whether a   *)
(* ping meets the end of the node depends on when SetLastRecvTime looked.     *)
UpdateSyncBinlogStatus(t) ==
  LET req == srv[t].req IN
  /\ srv[t].pc = "apply" /\ ~req.first
  /\ \/ /\ req.start = 0 /\ req.end = 0
        /\ UNCHANGED closing \/ (~node.exists /\ NotifyClose(req))
        /\ Done(t)
        /\ UNCHANGED node
     \/ /\ ~(req.start = 0 /\ req.end = 0)
        /\ \/ ~node.exists
           \/ node.state # "kSlaveBinlogSync"
           \/ ~RangeFound(node.win, req.start, req.end)
        /\ NotifyClose(req)
        /\ Done(t)
        /\ UNCHANGED node
     \/ /\ node.exists /\ node.state = "kSlaveBinlogSync"
        /\ \E i, j \in DOMAIN node.win.items, n \in 0..Len(node.win.items) :
             /\ IsRange(node.win, req.start, req.end, i, j)
             /\ IsAckedPrefix(Marked(node.win.items, i, j), n)
             /\ node' = AfterAck(node, i, j, n)
        /\ Goto(t, "fill")
        /\ UNCHANGED closing
  /\ UNCHANGED <<producer, nextSession, wq, auxVars, link, mslave, mconn, s2m, slaveIn,
                 slaveVars, ghostVars>>

(* SyncBinlogToWq, after an activation or an acknowledgement: whatever node  *)
(* there is now is filled up.                                                *)
SyncBinlogToWq(t) ==
  LET req == srv[t].req IN
  /\ srv[t].pc = "fill"
  /\ Done(t)
  /\ \/ /\ ~node.exists
        /\ NotifyClose(req)
        /\ UNCHANGED <<node, wq, overlap, faults>>
     \/ /\ node.exists
        /\ ReadBinlogFileToWq
        /\ overlap' = overlap \cup StaleTask(req)
        /\ UNCHANGED <<closing, faults>>
     \/ /\ node.exists
        /\ \E k \in 0..WindowSize :
             /\ FailedRead(k)
             /\ overlap' = overlap \cup StaleTask(req) \cup LostRead(k)
        /\ NotifyClose(req)
        /\ UNCHANGED wq
  /\ UNCHANGED <<producer, nextSession, auxVars, link, mslave, mconn, s2m, slaveIn, slaveVars>>

-----------------------------------------------------------------------------
(* Master: the auxiliary thread, one pass of its loop after the other *)

AuxAtLoop == outbox = <<>> /\ ~sendFailed

(* WakeUpSlaveBinlogSync: a slave that has acknowledged everything is sent *)
(* what was written since.                                                 *)
WakeUpSlaveBinlogSync ==
  /\ AuxAtLoop
  /\ node.exists /\ node.sent = node.acked
  /\ \/ /\ ReadCount(node) > 0
        /\ ReadBinlogFileToWq
        /\ UNCHANGED ghostVars
     \/ /\ \/ ReadBroken(node) /\ UNCHANGED faults
           \/ ReadCount(node) > 0 /\ Fault("read")
        /\ node' = NoSlaveNode
        /\ UNCHANGED <<wq, overlap>>
  /\ UNCHANGED <<producer, nextSession, auxVars, srv, netVars, s2m, slaveIn, slaveVars>>

(* The locked part of ConsumeWriteQueue takes c batches. *)
IsBatchCount(c) ==
  /\ (c - 1) * BatchNum < Len(wq)
  /\ c = PacketNum \/ Len(wq) <= c * BatchNum

BatchEnd(b) == IF b * BatchNum > Len(wq) THEN Len(wq) ELSE b * BatchNum

(* ConsumeWriteQueue: batches leave the queue under the lock ... *)
ConsumeWriteQueue ==
  /\ AuxAtLoop
  /\ wq # <<>>
  /\ \E c \in 1..PacketNum :
       /\ IsBatchCount(c)
       /\ outbox' = [b \in 1..c |-> SubSeq(wq, (b - 1) * BatchNum + 1, BatchEnd(b))]
       /\ wq' = SubSeq(wq, BatchEnd(c) + 1, Len(wq))
  /\ UNCHANGED <<producer, node, nextSession, sendFailed, srv, netVars, s2m, slaveIn,
                 slaveVars, ghostVars>>

(* ... and are sent one by one after it is released ... *)
SendSlaveBinlogChips ==
  /\ outbox # <<>>
  /\ outbox' = Tail(outbox)
  /\ IF CanWrite
     THEN Write(BinlogChips(Head(outbox))) /\ UNCHANGED sendFailed
     ELSE sendFailed' = TRUE /\ UNCHANGED slaveIn
  /\ UNCHANGED <<masterVars, srv, netVars, s2m, slaveVars, ghostVars>>

(* ... and when one could not be sent, the whole queue of the slave goes. *)
EraseWriteQueue ==
  /\ outbox = <<>> /\ sendFailed
  /\ wq' = <<>>
  /\ sendFailed' = FALSE
  /\ UNCHANGED <<producer, node, nextSession, outbox, srv, netVars, s2m, slaveIn,
                 slaveVars, ghostVars>>

IsPing(resp) == resp.type = "BinlogSync" /\ resp.begin = 0
IsPong(req) == req.type = "BinlogSync" /\ ~req.first /\ req.end = 0

(* Bound: one keepalive exchange at a time. *)
PingUnderWay ==
  \/ \E i \in DOMAIN slaveIn : IsPing(slaveIn[i])
  \/ \E i \in DOMAIN s2m : IsPong(s2m[i])
  \/ \E t \in Threads : srv[t].pc # "idle" /\ IsPong(srv[t].req)

PingsFlow == node.exists /\ node.sent = node.acked /\ CanWrite

(* SyncMasterDB::CheckSyncTimeout: an idle slave is sent a keepalive record. *)
SendKeepAlive ==
  /\ AuxAtLoop
  /\ PingsFlow
  /\ ~PingUnderWay
  /\ Write(BinlogChips(<<[off |-> 0, session |-> node.session]>>))
  /\ UNCHANGED <<masterVars, auxVars, srv, netVars, s2m, slaveVars, ghostVars>>

(* No message is anywhere between the two servers, except for keepalives the *)
(* slave has not looked at; and none at all.                                 *)
OnlyPingsInTransit ==
  /\ s2m = <<>> /\ wq = <<>> /\ AuxAtLoop
  /\ \A t \in Threads : srv[t].pc = "idle"
  /\ \A i \in DOMAIN slaveIn : IsPing(slaveIn[i]) /\ slaveIn[i].chips # <<>>
NothingInTransit == OnlyPingsInTransit /\ slaveIn = <<>>

(* SyncMasterDB::CheckSyncTimeout: a slave that was not heard of for         *)
(* kRecvKeepAliveTimeout is removed.  Without a failure this happens only to *)
(* a slave that will not answer.                                             *)
MasterTimeout ==
  /\ AuxAtLoop
  /\ node.exists
  /\ \/ /\ OnlyPingsInTransit
        /\ ~(PingsFlow /\ link /\ rstate = "kConnected" /\ session = node.session)
        /\ UNCHANGED faults
     \/ Fault("masterTimeout")
  /\ node' = NoSlaveNode
  /\ wq' = <<>>
  /\ UNCHANGED <<producer, nextSession, auxVars, srv, netVars, s2m, slaveIn, slaveVars, overlap>>

-----------------------------------------------------------------------------
(* The connection *)

(* The connection goes down.  Responses the slave has not dispatched and     *)
(* requests the master has not read are lost.                                *)
LinkDown ==
  /\ link
  /\ \/ closing /\ UNCHANGED faults
     \/ Fault("link")
  /\ link' = FALSE
  /\ closing' = FALSE
  /\ \E k \in 0..Len(slaveIn) : slaveIn' = SubSeq(slaveIn, 1, k)
  /\ \E k \in 0..Len(s2m) : s2m' = SubSeq(s2m, 1, k)
  /\ UNCHANGED <<masterVars, auxVars, srv, mslave, mconn, slaveVars, overlap>>

(* ReplServerHandle::FdClosedHandle: DeleteSlave removes the node and its    *)
(* queue, RemoveClientConn the entry of the connection map.                  *)
MasterFdClosed ==
  /\ ~link /\ mslave
  /\ mslave' = FALSE
  /\ mconn' = IF mconn = "cur" THEN "none" ELSE mconn
  /\ node' = NoSlaveNode
  /\ wq' = <<>>
  /\ s2m' = [i \in DOMAIN s2m |-> [s2m[i] EXCEPT !.live = FALSE]]
  /\ srv' = [t \in Threads |-> [srv[t] EXCEPT !.req.live = FALSE]]
  /\ UNCHANGED <<producer, nextSession, auxVars, link, closing, slaveIn, slaveVars, ghostVars>>

(* Mutant of Deactivate: the database keeps its replication state. *)
DeactivateKeepingState ==
  /\ metaDone' = FALSE
  /\ attached' = FALSE
  /\ session' = 0
  /\ UNCHANGED rstate

(* SyncSlaveDB::Deactivate through PikaServer::ResetMetaSyncStatus. *)
Deactivate ==
  /\ metaDone' = FALSE
  /\ attached' = FALSE
  /\ session' = 0
  /\ rstate' = "kNoConnect"

(* ReplClientHandle::FdClosedHandle. *)
SlaveFdClosed ==
  /\ ~link /\ metaDone
  /\ Deactivate
  /\ UNCHANGED <<masterVars, auxVars, srv, netVars, s2m, slaveIn, slog, ghostVars>>

(* ReplClientHandle::FdTimeoutHandle: the client closes a connection that *)
(* carried nothing for its keepalive time.                                *)
SlaveFdTimeout ==
  /\ link /\ metaDone
  /\ NothingInTransit
  /\ ~PingsFlow /\ ~node.exists
  /\ rstate \notin {"kTryConnect", "kConnected"}
  /\ link' = FALSE /\ closing' = FALSE
  /\ Deactivate
  /\ UNCHANGED <<masterVars, auxVars, srv, mslave, mconn, s2m, slaveIn, slog, ghostVars>>

(* The MetaSync exchange on a new connection: TryAddSlave succeeds once the  *)
(* old connection is gone, and PrepareDBTrySync activates a database that is *)
(* not connected.                                                            *)
MetaSync ==
  /\ ~metaDone /\ ~link /\ ~mslave
  /\ link' = TRUE
  /\ mslave' = TRUE
  /\ mconn' = "cur"
  /\ metaDone' = TRUE
  /\ IF rstate = "kNoConnect"
     THEN attached' = TRUE /\ session' = 0 /\ rstate' = "kTryConnect"
     ELSE UNCHANGED <<attached, session, rstate>>
  /\ UNCHANGED <<masterVars, auxVars, srv, closing, s2m, slaveIn, slog, ghostVars>>

-----------------------------------------------------------------------------
(* Slave *)

(* RunSyncSlaveDBStateMachine in kTryConnect: SendTrySyncRequest. *)
SendTrySync ==
  /\ metaDone /\ rstate = "kTryConnect"
  /\ SendRequest([NoRequest EXCEPT !.start = Len(slog), !.end = Len(slog), !.live = TRUE])
  /\ rstate' = "kWaitReply"
  /\ UNCHANGED <<masterVars, auxVars, srv, netVars, slaveIn, metaDone, attached, session,
                 slog, ghostVars>>

(* SyncSlaveDB::CheckSyncTimeout: nothing came from the master for           *)
(* kRecvKeepAliveTimeout.                                                    *)
SlaveTimeout ==
  /\ rstate = "kConnected"
  /\ \/ /\ NothingInTransit
        /\ ~(PingsFlow /\ link)
        /\ UNCHANGED faults
     \/ Fault("slaveTimeout")
  /\ rstate' = "kTryConnect"
  /\ UNCHANGED <<masterVars, auxVars, srv, netVars, s2m, slaveIn, metaDone, attached, session,
                 slog, overlap>>

BinlogSyncRequest(s, start, end, first) ==
  [type |-> "BinlogSync", first |-> first, session |-> s, start |-> start, end |-> end,
   live |-> TRUE]

(* HandleTrySyncResponse, run by the binlog worker of the database. *)
HandleTrySyncResponse ==
  /\ slaveIn # <<>> /\ Head(slaveIn).type = "TrySync"
  /\ slaveIn' = Tail(slaveIn)
  /\ \/ /\ Head(slaveIn).code = "kOk"
        /\ session' = Head(slaveIn).session
        /\ SendRequest(BinlogSyncRequest(session', Len(slog), Len(slog), TRUE))
        /\ rstate' = "kConnected"
     \/ /\ Head(slaveIn).code # "kOk"
        /\ rstate' = "kError"
        /\ UNCHANGED <<session, s2m>>
  /\ UNCHANGED <<masterVars, auxVars, srv, netVars, metaDone, attached, slog, ghostVars>>

(* Mutant of OfMySession: the session of a record is not compared. *)
OfAnySession(chip) == chip \in Chip

(* The session check of HandleBGWorkerWriteBinlog. *)
OfMySession(chip) == chip.session = session

(* HandleBGWorkerWriteBinlog, one record: the rest of the message is dropped  *)
(* unless the database is connected with the session of the record; otherwise *)
(* ProcessLeaderLog appends the record.                                       *)
WriteBinlogRecord ==
  /\ slaveIn # <<>> /\ Head(slaveIn).type = "BinlogSync" /\ Head(slaveIn).chips # <<>>
  /\ LET chip == Head(Head(slaveIn).chips)
         rest == [Head(slaveIn) EXCEPT !.chips = Tail(@)]
     IN  \/ /\ rstate # "kConnected"
            /\ slaveIn' = Tail(slaveIn)
            /\ UNCHANGED <<rstate, slog>>
         \/ /\ rstate = "kConnected" /\ ~OfMySession(chip)
            /\ slaveIn' = Tail(slaveIn)
            /\ rstate' = "kTryConnect"
            /\ UNCHANGED slog
         \/ /\ rstate = "kConnected" /\ OfMySession(chip)
            /\ slaveIn' = <<rest>> \o Tail(slaveIn)
            /\ slog' = IF chip.off = 0 THEN slog ELSE Append(slog, chip.off)
            /\ UNCHANGED rstate
  /\ UNCHANGED <<masterVars, auxVars, srv, netVars, s2m, metaDone, attached, session, ghostVars>>

(* The end of HandleBGWorkerWriteBinlog: acknowledge from the first record of *)
(* the message to the slave's own producer offset, or answer a keepalive.     *)
SendBinlogSyncAck ==
  /\ slaveIn # <<>> /\ Head(slaveIn).type = "BinlogSync" /\ Head(slaveIn).chips = <<>>
  /\ slaveIn' = Tail(slaveIn)
  /\ LET begin == Head(slaveIn).begin
     IN  SendRequest(BinlogSyncRequest(session, begin, IF begin = 0 THEN 0 ELSE Len(slog), FALSE))
  /\ UNCHANGED <<masterVars, auxVars, srv, netVars, slaveVars, ghostVars>>

-----------------------------------------------------------------------------
(* Specification *)

ServerThread(t) ==
  \/ DealMessage(t)
  \/ HandleTrySync(t)
  \/ TrySyncAddNode(t)
  \/ TrySyncGetSession(t)
  \/ CheckSessionId(t)
  \/ ActivateSlaveBinlogSync(t)
  \/ UpdateSyncBinlogStatus(t)
  \/ SyncBinlogToWq(t)

AuxiliaryThread ==
  \/ WakeUpSlaveBinlogSync
  \/ ConsumeWriteQueue
  \/ SendSlaveBinlogChips
  \/ EraseWriteQueue
  \/ SendKeepAlive

BinlogWorker ==
  \/ HandleTrySyncResponse
  \/ WriteBinlogRecord
  \/ SendBinlogSyncAck

Network == LinkDown \/ MasterFdClosed \/ SlaveFdClosed \/ SlaveFdTimeout \/ MetaSync

Next ==
  \/ ProposeLog
  \/ \E t \in Threads : ServerThread(t)
  \/ AuxiliaryThread
  \/ MasterTimeout
  \/ Network
  \/ SendTrySync
  \/ SlaveTimeout
  \/ BinlogWorker

Spec == Init /\ [][Next]_vars

(* Fairness.  The threads of the two servers keep running: every server      *)
(* thread works on its tasks, every pass of the auxiliary thread's loop does  *)
(* all of its jobs, the worker empties its queue, the network threads notice  *)
(* closed connections and the slave's auxiliary thread retries.  A timeout    *)
(* that nothing would prevent fires.  Clients and failures are not fair.      *)
Fairness ==
  /\ \A t \in Threads : WF_vars(ServerThread(t))
  /\ WF_vars(WakeUpSlaveBinlogSync)
  /\ WF_vars(ConsumeWriteQueue)
  /\ WF_vars(SendSlaveBinlogChips)
  /\ WF_vars(EraseWriteQueue)
  /\ WF_vars(SendKeepAlive)
  /\ WF_vars(MasterTimeout /\ UNCHANGED faults)
  /\ WF_vars(LinkDown /\ UNCHANGED faults)
  /\ WF_vars(MasterFdClosed)
  /\ WF_vars(SlaveFdClosed)
  /\ WF_vars(SlaveFdTimeout)
  /\ WF_vars(MetaSync)
  /\ WF_vars(SendTrySync)
  /\ WF_vars(SlaveTimeout /\ UNCHANGED faults)
  /\ WF_vars(BinlogWorker)

FairSpec == Spec /\ Fairness

-----------------------------------------------------------------------------
(* Safety *)

(* SyncWindow and SlaveNode: while a slave is in binlog sync, its window is  *)
(* exactly the records after acked_offset up to sent_offset, in order and    *)
(* without a gap; its head is not acknowledged; the reader stands at the end. *)
WindowExact ==
  node.state = "kSlaveBinlogSync" /\ node.reader # BadReader =>
    LET items == node.win.items IN
    /\ \A i \in DOMAIN items : items[i].off = node.acked + i
    /\ node.sent = node.acked + Len(items)
    /\ node.reader = node.sent
    /\ node.sent <= producer
    /\ items # <<>> => ~items[1].acked

(* SyncWindow::Update and Push: unless synchronisation rounds overlap,        *)
(* total_size_ counts the records no acknowledgement has covered, so that the *)
(* limit of ReadBinlogFileToWq never stops a reader that has room.            *)
WindowSizeExact ==
  overlap = {} =>
    node.win.total = Cardinality({i \in DOMAIN node.win.items : ~node.win.items[i].acked})

(* GetSafetyPurgeBinlog and BinlogCloudPurge keep the files from acked_offset *)
(* on: the master never takes for acknowledged what the slave's binlog does   *)
(* not hold, whatever messages, sessions or threads were in between.          *)
AckedBySlave ==
  /\ node.acked <= Len(slog)
  /\ \A i \in DOMAIN node.win.items :
       node.win.items[i].acked => node.win.items[i].off <= Len(slog)

IsPrefixOfMaster == Len(slog) <= producer /\ \A i \in DOMAIN slog : slog[i] = i

(* HandleBGWorkerWriteBinlog and ProcessLeaderLog: unless synchronisation     *)
(* rounds overlap, the slave's binlog is a prefix of the master's: nothing is *)
(* lost, repeated or reordered.                                               *)
LogPrefix == overlap = {} => IsPrefixOfMaster

(* The slave's binlog as a copy of the master's. *)
Replicated ==
  INSTANCE ReplicatedLog WITH log <- producer, copy <- slog, broken <- overlap # {}

(* HandleBGWorkerWriteBinlog and ProcessLeaderLog: every step of the whole    *)
(* system either leaves the slave's binlog alone or appends exactly the next  *)
(* record of the master, until synchronisation rounds overlap.                *)
ImplementsReplicatedLog == Replicated!Safe

(* PikaAuxiliaryThread::ThreadMain and CheckSyncTimeout: every record the     *)
(* clients write reaches the slave, through lost connections and timeouts on  *)
(* either side, unless synchronisation rounds overlap.                        *)
EveryRecordReplicated == \A k \in 1..MaxLog : Replicated!CaughtUp(k)

(* ProcessLeaderLog (src/pika_consensus.cc:340), "precheck if prev_offset     *)
(* match && drop this log if this log exist": the slave's binlog is a prefix  *)
(* of the master's whatever happened.                                         *)
LogPrefixAlways == IsPrefixOfMaster

=============================================================================
