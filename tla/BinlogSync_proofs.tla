------------------------- MODULE BinlogSync_proofs -------------------------
(***************************************************************************)
(* What the operations of the send window return, and type correctness of   *)
(* BinlogSync, for any number of server threads, any window and batch       *)
(* sizes, any number of records, sessions and failures.                     *)
(***************************************************************************)
EXTENDS BinlogSync, SequenceTheorems, TLAPS

-----------------------------------------------------------------------------
(* The send window *)

(* SyncWindow::Reset gives an empty window. *)
LEMMA ResetWindow == Reset \in Window /\ Reset.items = <<>>
  BY SizeRangeAssumption DEF Reset, Window, WinItem

(* SyncWindow::Push, k times: the window keeps its items and gains k items *)
(* with the offsets that follow base, none of them acknowledged.           *)
LEMMA PushedWindow ==
  ASSUME NEW w \in Window, NEW base \in Nat, NEW k \in Nat
  PROVE  LET p == PushRecords(w, base, k) IN
         /\ p \in Window
         /\ Len(p.items) = Len(w.items) + k
         /\ \A i \in 1..Len(w.items) : p.items[i] = w.items[i]
         /\ \A i \in (Len(w.items) + 1)..(Len(w.items) + k) :
              p.items[i] = [off |-> base + i - Len(w.items), acked |-> FALSE]
<1> DEFINE new == [i \in 1..k |-> [off |-> base + i, acked |-> FALSE]]
<1>1. new \in Seq(WinItem) /\ Len(new) = k
  BY DEF WinItem
<1>2. w.items \in Seq(WinItem)
  BY DEF Window
<1>3. PushRecords(w, base, k).items = w.items \o new
  BY DEF PushRecords
<1>4. /\ w.items \o new \in Seq(WinItem)
      /\ Len(w.items \o new) = Len(w.items) + k
      /\ \A i \in 1..(Len(w.items) + k) :
           (w.items \o new)[i] = IF i <= Len(w.items) THEN w.items[i] ELSE new[i - Len(w.items)]
  <2> HIDE DEF new
  <2> QED BY <1>1, <1>2, ConcatProperties
<1>5. (w.total + k) % SizeRange \in 0..(SizeRange - 1)
  BY SizeRangeAssumption DEF Window
<1>6. PushRecords(w, base, k) \in Window
  BY <1>3, <1>4, <1>5 DEF PushRecords, Window
<1>7. Len(w.items) \in Nat
  BY <1>2, LenProperties
<1>8. ASSUME NEW i \in (Len(w.items) + 1)..(Len(w.items) + k)
      PROVE  (w.items \o new)[i] = [off |-> base + i - Len(w.items), acked |-> FALSE]
  <2>1. i \in 1..(Len(w.items) + k) /\ ~(i <= Len(w.items)) /\ i - Len(w.items) \in 1..k
    BY <1>7
  <2>2. (w.items \o new)[i] = new[i - Len(w.items)]
    BY <1>4, <2>1
  <2>3. base + (i - Len(w.items)) = base + i - Len(w.items)
    BY <1>7, <2>1
  <2> QED BY <2>1, <2>2, <2>3
<1>9. \A i \in 1..Len(w.items) : (w.items \o new)[i] = w.items[i]
  BY <1>4, <1>7
<1> QED BY <1>3, <1>4, <1>6, <1>8, <1>9

(* The marking loop of SyncWindow::Update changes no offset and marks only *)
(* the items of the range.                                                 *)
LEMMA MarkedItems ==
  ASSUME NEW items \in Seq(WinItem), NEW i, NEW j
  PROVE  /\ Marked(items, i, j) \in Seq(WinItem)
         /\ Len(Marked(items, i, j)) = Len(items)
         /\ \A k \in 1..Len(items) :
              /\ Marked(items, i, j)[k].off = items[k].off
              /\ Marked(items, i, j)[k].acked <=> items[k].acked \/ k \in i..j
<1>1. items \in [1..Len(items) -> WinItem] /\ Len(items) \in Nat /\ DOMAIN items = 1..Len(items)
  BY LenProperties
<1>2. ASSUME NEW k \in 1..Len(items)
      PROVE  /\ Marked(items, i, j)[k] \in WinItem
             /\ Marked(items, i, j)[k].off = items[k].off
             /\ Marked(items, i, j)[k].acked <=> items[k].acked \/ k \in i..j
  BY <1>1 DEF Marked, WinItem
<1>3. Marked(items, i, j) = [k \in 1..Len(items) |-> Marked(items, i, j)[k]]
  BY <1>1 DEF Marked
<1>4. Marked(items, i, j) \in [1..Len(items) -> WinItem]
  BY <1>2, <1>3
<1> QED BY <1>1, <1>2, <1>4, SeqDef

(* SyncWindow::Update leaves the items after the popped ones. *)
LEMMA AcknowledgedWindow ==
  ASSUME NEW w \in Window, NEW i \in Int, NEW j \in Int, NEW n \in 0..Len(w.items)
  PROVE  LET a == Acknowledged(w, i, j, n)
             m == Marked(w.items, i, j)
         IN  /\ a \in Window
             /\ Len(a.items) = Len(w.items) - n
             /\ \A k \in 1..Len(a.items) : a.items[k] = m[n + k]
<1> DEFINE m == Marked(w.items, i, j)
           s == SubSeq(m, n + 1, Len(w.items))
<1>1. w.items \in Seq(WinItem) /\ Len(w.items) \in Nat
  BY LenProperties DEF Window
<1>2. m \in Seq(WinItem) /\ Len(m) = Len(w.items)
  BY <1>1, MarkedItems
<1>3. \A k \in (n + 1)..Len(w.items) : m[k] \in WinItem
  BY <1>1, <1>2, ElementOfSeq
<1>4. /\ s \in Seq(WinItem)
      /\ Len(s) = IF n + 1 <= Len(w.items) THEN Len(w.items) - (n + 1) + 1 ELSE 0
      /\ \A k \in 1..(Len(w.items) - (n + 1) + 1) : s[k] = m[n + 1 + k - 1]
  <2> HIDE DEF m
  <2> QED BY <1>1, <1>3, SubSeqProperties
<1>5. Len(s) = Len(w.items) - n /\ \A k \in 1..Len(s) : s[k] = m[n + k]
  <2> HIDE DEF m, s
  <2> QED BY <1>1, <1>4
<1>6. (w.total - (j - i + 1)) % SizeRange \in 0..(SizeRange - 1)
  BY SizeRangeAssumption DEF Window
<1>7. Acknowledged(w, i, j, n) = [items |-> s, total |-> (w.total - (j - i + 1)) % SizeRange]
  BY DEF Acknowledged
<1>8. Acknowledged(w, i, j, n) \in Window
  BY <1>4, <1>6, <1>7 DEF Window
<1> QED
  <2> HIDE DEF m, s
  <2>1. Acknowledged(w, i, j, n).items = s
    BY <1>7
  <2> QED BY <1>5, <1>8, <2>1 DEF m

-----------------------------------------------------------------------------
(* The operators of the model *)

(* The assumptions on the constants, one by one. *)
LEMMA ConstantTypes ==
  /\ WindowSize \in Nat \ {0} /\ BatchNum \in Nat \ {0} /\ PacketNum \in Nat \ {0}
  /\ MaxTotal \in Nat /\ MaxLog \in Nat /\ MaxSession \in Nat /\ MaxFaults \in Nat
  /\ SizeRange \in Nat
  BY ConstantsAssumption, SizeRangeAssumption

(* ReadBinlogFileToWq reads at most what the window has room for and never *)
(* beyond the producer offset.                                             *)
LEMMA ReadCountFacts ==
  ASSUME producer \in Nat, NEW n \in SlaveNode
  PROVE  /\ ReadCount(n) \in Nat
         /\ ReadCount(n) > 0 => n.reader \in Nat /\ n.reader + ReadCount(n) <= producer
<1> DEFINE room == Remaining(n.win, WindowSize)
           size == IF n.win.total > MaxTotal THEN 0 ELSE MaxTotal + 1 - n.win.total
           left == IF n.reader \in Nat /\ n.reader <= producer THEN producer - n.reader ELSE 0
<1>1. n.win \in Window /\ n.win.items \in Seq(WinItem)
  BY DEF SlaveNode, Window
<1>2. room \in Nat
  BY <1>1, ConstantTypes, LenProperties DEF Remaining
<1>3. size \in Nat
  BY <1>1, ConstantTypes DEF Window
<1>4. left \in Nat
  BY DEF SlaveNode
<1>5. \E k \in {room, size, left} : k <= room /\ k <= size /\ k <= left
  <2> HIDE DEF room, size, left
  <2> QED BY <1>2, <1>3, <1>4
<1>6. ReadCount(n) = CHOOSE k \in {room, size, left} : k <= room /\ k <= size /\ k <= left
  BY DEF ReadCount
<1>7. ReadCount(n) \in {room, size, left} /\ ReadCount(n) <= left
  <2> HIDE DEF room, size, left
  <2> QED BY <1>5, <1>6
<1>8. ReadCount(n) \in Nat
  <2> HIDE DEF room, size, left
  <2> QED BY <1>2, <1>3, <1>4, <1>7
<1> QED BY <1>7, <1>8

(* Reading k records changes a node only when k > 0. *)
LEMMA AfterReadFacts ==
  ASSUME producer \in Nat, NEW n \in SlaveNode, NEW k \in Nat, k <= ReadCount(n)
  PROVE  /\ AfterRead(n, k) \in SlaveNode
         /\ k = 0 => AfterRead(n, k) = n
         /\ k > 0 => /\ n.reader \in Nat
                     /\ n.reader + k <= producer
                     /\ AfterRead(n, k) =
                          [n EXCEPT !.win = PushRecords(n.win, n.reader, k),
                                    !.sent = n.reader + k, !.reader = n.reader + k]
<1>1. CASE k = 0
  BY <1>1 DEF AfterRead
<1>2. CASE k > 0
  <2>1. n.reader \in Nat /\ n.reader + k <= producer
    BY <1>2, ReadCountFacts
  <2>2. PushRecords(n.win, n.reader, k) \in Window
    BY <2>1, PushedWindow DEF SlaveNode
  <2>3. AfterRead(n, k) = [n EXCEPT !.win = PushRecords(n.win, n.reader, k),
                                    !.sent = n.reader + k, !.reader = n.reader + k]
    BY <1>2 DEF AfterRead
  <2>4. AfterRead(n, k) \in SlaveNode
    <3> DEFINE r == n.reader + k
               w == PushRecords(n.win, n.reader, k)
    <3>1. r \in Nat /\ w \in Window
      BY <2>1, <2>2
    <3>2. AfterRead(n, k) = [n EXCEPT !.win = w, !.sent = r, !.reader = r]
      BY <2>3
    <3> HIDE DEF r, w
    <3> QED BY <3>1, <3>2 DEF SlaveNode
  <2> QED BY <1>2, <2>1, <2>3, <2>4
<1> QED BY <1>1, <1>2

(* The tasks for the write queue are records with an offset and a session. *)
LEMMA WriteTasksType ==
  ASSUME producer \in Nat, NEW n \in SlaveNode
  PROVE  WriteTasks(n, ReadCount(n)) \in Seq(Chip)
<1>1. ReadCount(n) \in Nat
  BY ReadCountFacts
<1>2. ASSUME NEW i \in 1..ReadCount(n)
      PROVE  [off |-> n.reader + i, session |-> n.session] \in Chip
  BY <1>1, ReadCountFacts DEF SlaveNode, Chip
<1>3. WriteTasks(n, ReadCount(n)) \in [1..ReadCount(n) -> Chip]
  BY <1>2 DEF WriteTasks
<1> QED BY <1>1, <1>3, SeqDef

(* ReadBinlogFileToWq keeps the types of the node and the write queue. *)
LEMMA ReadBinlogType ==
  ASSUME producer \in Nat, node \in SlaveNode, wq \in Seq(Chip), ReadBinlogFileToWq
  PROVE  node' \in SlaveNode /\ wq' \in Seq(Chip)
<1>1. node' \in SlaveNode
  <2>1. ReadCount(node) \in Nat /\ ReadCount(node) <= ReadCount(node)
    BY ReadCountFacts
  <2>2. AfterRead(node, ReadCount(node)) \in SlaveNode
    BY <2>1, AfterReadFacts
  <2> QED BY <2>2 DEF ReadBinlogFileToWq
<1>2. wq' \in Seq(Chip)
  BY WriteTasksType, ConcatProperties DEF ReadBinlogFileToWq
<1> QED BY <1>1, <1>2

(* A failed read keeps the type of the node. *)
LEMMA FailedReadType ==
  ASSUME producer \in Nat, node \in SlaveNode, NEW k \in Nat, FailedRead(k), faults \in Nat
  PROVE  node' \in SlaveNode /\ faults' \in Nat
<1>1. k <= ReadCount(node)
  BY ReadCountFacts DEF FailedRead
<1>2. AfterRead(node, k) \in SlaveNode
  BY <1>1, AfterReadFacts
<1> QED BY <1>2 DEF FailedRead, Fault

(* Nodes made by TrySync and by the activation of a slave. *)
LEMMA NodeTypes ==
  /\ \A s \in Nat : NewSlaveNode(s) \in SlaveNode
  /\ NoSlaveNode \in SlaveNode
  /\ \A n \in SlaveNode, off \in Nat :
       Activated(n, off) \in SlaveNode /\ ActivateFailed(n, off) \in SlaveNode
<1>1. \A s \in Nat : NewSlaveNode(s) \in SlaveNode
  BY ResetWindow DEF NewSlaveNode, SlaveNode, SlaveState
<1>2. NoSlaveNode \in SlaveNode
  <2>1. NewSlaveNode(0) \in SlaveNode
    BY <1>1
  <2> QED BY <2>1 DEF NoSlaveNode, SlaveNode
<1>3. \A n \in SlaveNode, off \in Nat : Activated(n, off) \in SlaveNode
  BY ResetWindow DEF Activated, SlaveNode, SlaveState
<1>4. \A n \in SlaveNode, off \in Nat : ActivateFailed(n, off) \in SlaveNode
  BY DEF ActivateFailed, SlaveNode, SlaveState
<1> QED BY <1>1, <1>2, <1>3, <1>4

(* A node after an acknowledgement. *)
LEMMA AfterAckType ==
  ASSUME NEW n \in SlaveNode, NEW i \in DOMAIN n.win.items, NEW j \in DOMAIN n.win.items,
         NEW p \in 0..Len(n.win.items)
  PROVE  AfterAck(n, i, j, p) \in SlaveNode
<1>1. n.win \in Window /\ n.win.items \in Seq(WinItem)
  BY DEF SlaveNode, Window
<1>2. i \in Int /\ j \in Int
  BY <1>1, LenProperties
<1>3. Acknowledged(n.win, i, j, p) \in Window
  BY <1>1, <1>2, AcknowledgedWindow
<1>4. p # 0 => n.win.items[p].off \in Nat
  <2>1. p # 0 => n.win.items[p] \in WinItem
    BY <1>1, LenProperties, ElementOfSeq
  <2> QED BY <2>1 DEF WinItem
<1> QED BY <1>3, <1>4 DEF AfterAck, SlaveNode

(* A handler's reply is a response like the others on their way. *)
LEMMA ReplyType ==
  ASSUME slaveIn \in Seq(Response), NEW req, NEW resp \in Response, Reply(req, resp)
  PROVE  slaveIn' \in Seq(Response)
  BY DEF Reply

(* PikaReplServer::Write keeps the type of the responses on their way. *)
LEMMA WriteType ==
  ASSUME slaveIn \in Seq(Response), NEW resp \in Response, Write(resp)
  PROVE  slaveIn' \in Seq(Response)
  BY DEF Write

(* A request of the slave keeps the type of the requests on their way. *)
LEMMA SendRequestType ==
  ASSUME s2m \in Seq(Request), NEW req \in Request, SendRequest(req)
  PROVE  s2m' \in Seq(Request)
  BY DEF SendRequest

(* The replies and requests the two servers build are well-formed messages. *)
LEMMA MessageTypes ==
  /\ NoRequest \in Request /\ Idle \in Task
  /\ \A s \in Nat, code \in {"kOk", "kSyncPointLarger", "kError"} : TrySyncReply(code, s) \in Response
  /\ \A s, start, end \in Nat, first \in BOOLEAN : BinlogSyncRequest(s, start, end, first) \in Request
<1>1. NoRequest \in Request
  BY DEF NoRequest, Request
<1>2. Idle \in Task
  BY <1>1 DEF Idle, Task
<1>3. \A s \in Nat, code \in {"kOk", "kSyncPointLarger", "kError"} : TrySyncReply(code, s) \in Response
  BY DEF TrySyncReply, Response
<1>4. \A s, start, end \in Nat, first \in BOOLEAN : BinlogSyncRequest(s, start, end, first) \in Request
  BY DEF BinlogSyncRequest, Request
<1> QED BY <1>1, <1>2, <1>3, <1>4

(* A batch of the write queue is sent as one message. *)
LEMMA BinlogChipsType ==
  ASSUME NEW batch \in Seq(Chip), batch # <<>>
  PROVE  BinlogChips(batch) \in Response
<1>1. Head(batch) \in Chip
  BY HeadTailProperties
<1> QED BY <1>1 DEF BinlogChips, Response, Chip

(* A server thread stays a server thread when it finishes or goes on. *)
LEMMA TaskTypes ==
  ASSUME srv \in [Threads -> Task], NEW t \in Threads
  PROVE  /\ Done(t) => srv' \in [Threads -> Task]
         /\ \A pc \in {"add", "session", "apply", "fill"} :
              Goto(t, pc) => srv' \in [Threads -> Task]
<1>1. Done(t) => srv' \in [Threads -> Task]
  BY MessageTypes DEF Done
<1>2. ASSUME NEW pc \in {"add", "session", "apply", "fill"}
      PROVE  [srv[t] EXCEPT !.pc = pc] \in Task
  BY DEF Task
<1>3. \A pc \in {"add", "session", "apply", "fill"} :
        Goto(t, pc) => srv' \in [Threads -> Task]
  BY <1>2 DEF Goto
<1> QED BY <1>1, <1>3

(* ConsumeWriteQueue: the batches are not empty, and what is left is a queue. *)
LEMMA BatchTypes ==
  ASSUME wq \in Seq(Chip), NEW c \in 1..PacketNum, IsBatchCount(c)
  PROVE  /\ [b \in 1..c |-> SubSeq(wq, (b - 1) * BatchNum + 1, BatchEnd(b))]
              \in Seq(Seq(Chip) \ {<<>>})
         /\ SubSeq(wq, BatchEnd(c) + 1, Len(wq)) \in Seq(Chip)
<1> USE ConstantTypes
<1>1. Len(wq) \in Nat /\ \A i \in 1..Len(wq) : wq[i] \in Chip
  BY LenProperties, ElementOfSeq
<1>2. ASSUME NEW b \in 1..c
      PROVE  SubSeq(wq, (b - 1) * BatchNum + 1, BatchEnd(b)) \in Seq(Chip) \ {<<>>}
  <2> DEFINE m == (b - 1) * BatchNum + 1
  <2>1. (b - 1) * BatchNum <= (c - 1) * BatchNum /\ (b - 1) * BatchNum \in Nat
    BY c \in Nat, b \in Nat
  <2>2. b * BatchNum = (b - 1) * BatchNum + BatchNum
    BY b \in Nat
  <2>3. m \in Nat /\ 1 <= m /\ m <= Len(wq) /\ b * BatchNum \in Nat /\ m <= b * BatchNum
    BY <1>1, <2>1, <2>2, c \in Nat DEF IsBatchCount
  <2>4. BatchEnd(b) \in Nat /\ m <= BatchEnd(b) /\ BatchEnd(b) <= Len(wq)
    BY <1>1, <2>3 DEF BatchEnd
  <2> HIDE DEF m
  <2>5. \A i \in m..BatchEnd(b) : wq[i] \in Chip
    BY <1>1, <2>3, <2>4
  <2>6. SubSeq(wq, m, BatchEnd(b)) \in Seq(Chip) /\ Len(SubSeq(wq, m, BatchEnd(b))) > 0
    BY <2>3, <2>4, <2>5, SubSeqProperties
  <2>7. SubSeq(wq, m, BatchEnd(b)) # <<>>
    <3>1. Len(<<>>) = 0
      BY EmptySeq
    <3>2. Len(SubSeq(wq, m, BatchEnd(b))) # 0
      BY <2>6
    <3> QED BY <3>1, <3>2, Zenon
  <2> QED BY <2>6, <2>7 DEF m
<1>3. [b \in 1..c |-> SubSeq(wq, (b - 1) * BatchNum + 1, BatchEnd(b))]
        \in [1..c -> Seq(Chip) \ {<<>>}]
  BY <1>2
<1>4. c \in Nat /\ BatchEnd(c) \in Nat
  BY <1>1 DEF BatchEnd
<1>5. \A i \in (BatchEnd(c) + 1)..Len(wq) : wq[i] \in Chip
  BY <1>1, <1>4
<1>6. SubSeq(wq, BatchEnd(c) + 1, Len(wq)) \in Seq(Chip)
  BY <1>1, <1>4, <1>5, SubSeqProperties
<1> QED BY <1>3, <1>4, <1>6, SeqDef

-----------------------------------------------------------------------------
(* Type correctness *)

(* The initial states have the types of TypeOK. *)
LEMMA TypeInit == Init => TypeOK
<1> SUFFICES ASSUME Init PROVE TypeOK
  OBVIOUS
<1>1. node \in SlaveNode /\ srv \in [Threads -> Task]
  BY NodeTypes, MessageTypes DEF Init
<1>2. wq \in Seq(Chip) /\ outbox \in Seq(Seq(Chip) \ {<<>>}) /\ s2m \in Seq(Request)
  BY EmptySeq DEF Init
<1>3. slaveIn \in Seq(Response) /\ slog \in Seq(Nat)
  BY EmptySeq DEF Init
<1>4. /\ producer \in Nat /\ nextSession \in Nat /\ session \in Nat /\ faults \in Nat
      /\ sendFailed \in BOOLEAN /\ link \in BOOLEAN /\ closing \in BOOLEAN
      /\ mslave \in BOOLEAN /\ metaDone \in BOOLEAN /\ attached \in BOOLEAN
      /\ mconn \in {"none", "cur", "old"} /\ rstate \in ReplState
      /\ overlap \subseteq {"reuse", "race", "toctou", "lostread"}
  BY DEF Init, ReplState
<1> QED BY <1>1, <1>2, <1>3, <1>4 DEF TypeOK

(* Every step of the master keeps the types. *)
LEMMA TypeMaster ==
  ASSUME TypeOK
  PROVE  /\ ProposeLog => TypeOK'
         /\ (\E t \in Threads : ServerThread(t)) => TypeOK'
<1> USE DEF masterVars, auxVars, netVars, slaveVars, ghostVars
<1>1. ASSUME ProposeLog PROVE TypeOK'
  BY <1>1 DEF TypeOK, ProposeLog
<1>2. ASSUME NEW t \in Threads, DealMessage(t) PROVE TypeOK'
  <2>1. Head(s2m) \in Request /\ Tail(s2m) \in Seq(Request)
    BY <1>2, HeadTailProperties DEF TypeOK, DealMessage
  <2>2. [pc |-> "start", req |-> Head(s2m)] \in Task
    BY <2>1 DEF Task
  <2>3. srv' \in [Threads -> Task] /\ s2m' \in Seq(Request)
    BY <1>2, <2>1, <2>2 DEF TypeOK, DealMessage
  <2> QED BY <1>2, <2>3 DEF TypeOK, DealMessage
<1>3. ASSUME NEW t \in Threads, HandleTrySync(t) PROVE TypeOK'
  <2>1. srv' \in [Threads -> Task]
    BY <1>3, TaskTypes DEF TypeOK, HandleTrySync
  <2>2. slaveIn' \in Seq(Response)
    BY <1>3, MessageTypes, ReplyType DEF TypeOK, HandleTrySync
  <2> QED BY <1>3, <2>1, <2>2 DEF TypeOK, HandleTrySync
<1>4. ASSUME NEW t \in Threads, TrySyncAddNode(t) PROVE TypeOK'
  <2>1. srv' \in [Threads -> Task]
    BY <1>4, TaskTypes DEF TypeOK, TrySyncAddNode
  <2>2. slaveIn' \in Seq(Response)
    <3>1. \A s \in Nat, code \in {"kOk", "kSyncPointLarger", "kError"} :
            Reply(srv[t].req, TrySyncReply(code, s)) => slaveIn' \in Seq(Response)
      BY MessageTypes, ReplyType DEF TypeOK
    <3> QED BY <1>4, <3>1 DEF TypeOK, TrySyncAddNode
  <2>3. node' \in SlaveNode /\ nextSession' \in Nat /\ mconn' \in {"none", "cur", "old"}
    <3>1. /\ NewSlaveNode(nextSession) \in SlaveNode
          /\ [node EXCEPT !.session = nextSession] \in SlaveNode
      BY NodeTypes DEF TypeOK, SlaveNode
    <3>2. node' \in {node, NewSlaveNode(nextSession), [node EXCEPT !.session = nextSession]}
      BY <1>4 DEF TrySyncAddNode
    <3>3. node' \in SlaveNode
      BY <3>1, <3>2 DEF TypeOK
    <3>4. nextSession' \in Nat /\ mconn' \in {"none", "cur", "old"}
      BY <1>4 DEF TypeOK, TrySyncAddNode
    <3> QED BY <3>3, <3>4
  <2> QED BY <1>4, <2>1, <2>2, <2>3 DEF TypeOK, TrySyncAddNode
<1>5. ASSUME NEW t \in Threads, TrySyncGetSession(t) PROVE TypeOK'
  <2>1. srv' \in [Threads -> Task]
    BY <1>5, TaskTypes DEF TypeOK, TrySyncGetSession
  <2>2. slaveIn' \in Seq(Response)
    <3>1. \A s \in Nat, code \in {"kOk", "kSyncPointLarger", "kError"} :
            Reply(srv[t].req, TrySyncReply(code, s)) => slaveIn' \in Seq(Response)
      BY MessageTypes, ReplyType DEF TypeOK
    <3>2. node.session \in Nat
      BY DEF TypeOK, SlaveNode
    <3> QED BY <1>5, <3>1, <3>2 DEF TrySyncGetSession
  <2> QED BY <1>5, <2>1, <2>2 DEF TypeOK, TrySyncGetSession
<1>6. ASSUME NEW t \in Threads, CheckSessionId(t) PROVE TypeOK'
  <2>1. srv' \in [Threads -> Task]
    BY <1>6, TaskTypes DEF TypeOK, CheckSessionId
  <2> QED BY <1>6, <2>1 DEF TypeOK, CheckSessionId
<1>7. ASSUME NEW t \in Threads, ActivateSlaveBinlogSync(t) PROVE TypeOK'
  <2>1. srv' \in [Threads -> Task]
    BY <1>7, TaskTypes DEF TypeOK, ActivateSlaveBinlogSync
  <2>2. srv[t].req.start \in Nat
    BY DEF TypeOK, Task, Request
  <2>3. closing' \in BOOLEAN /\ overlap' \subseteq {"reuse", "race", "toctou", "lostread"}
    BY <1>7 DEF TypeOK, ActivateSlaveBinlogSync, NotifyClose, StaleTask
  <2>4. node' \in SlaveNode /\ wq' \in Seq(Chip) /\ faults' \in Nat
    <3>1. /\ Activated(node, srv[t].req.start) \in SlaveNode
          /\ ActivateFailed(node, srv[t].req.start) \in SlaveNode
      BY <2>2, NodeTypes DEF TypeOK
    <3>2. node' \in {node, Activated(node, srv[t].req.start), ActivateFailed(node, srv[t].req.start)}
      BY <1>7 DEF ActivateSlaveBinlogSync
    <3>3. node' \in SlaveNode
      BY <3>1, <3>2 DEF TypeOK
    <3>4. wq' = wq \/ wq' = <<>>
      BY <1>7 DEF ActivateSlaveBinlogSync
    <3>5. wq' \in Seq(Chip)
      BY <3>4, EmptySeq DEF TypeOK
    <3>6. faults' \in Nat
      BY <1>7 DEF TypeOK, ActivateSlaveBinlogSync, Fault
    <3> QED BY <3>3, <3>5, <3>6
  <2> QED BY <1>7, <2>1, <2>3, <2>4 DEF TypeOK, ActivateSlaveBinlogSync
<1>8. ASSUME NEW t \in Threads, UpdateSyncBinlogStatus(t) PROVE TypeOK'
  <2>1. srv' \in [Threads -> Task]
    BY <1>8, TaskTypes DEF TypeOK, UpdateSyncBinlogStatus
  <2>2. closing' \in BOOLEAN
    BY <1>8 DEF TypeOK, UpdateSyncBinlogStatus, NotifyClose
  <2>3. node' \in SlaveNode
    <3>1. \A i, j \in DOMAIN node.win.items, n \in 0..Len(node.win.items) :
            AfterAck(node, i, j, n) \in SlaveNode
      BY AfterAckType DEF TypeOK
    <3> QED BY <1>8, <3>1 DEF TypeOK, UpdateSyncBinlogStatus
  <2> QED BY <1>8, <2>1, <2>2, <2>3 DEF TypeOK, UpdateSyncBinlogStatus
<1>9. ASSUME NEW t \in Threads, SyncBinlogToWq(t) PROVE TypeOK'
  <2>1. srv' \in [Threads -> Task]
    BY <1>9, TaskTypes DEF TypeOK, SyncBinlogToWq
  <2>2. closing' \in BOOLEAN /\ overlap' \subseteq {"reuse", "race", "toctou", "lostread"}
    BY <1>9 DEF TypeOK, SyncBinlogToWq, NotifyClose, StaleTask, LostRead
  <2>3. node' \in SlaveNode /\ wq' \in Seq(Chip) /\ faults' \in Nat
    <3>1. ReadBinlogFileToWq => node' \in SlaveNode /\ wq' \in Seq(Chip)
      BY ReadBinlogType DEF TypeOK
    <3>2. \A k \in 0..WindowSize : FailedRead(k) => node' \in SlaveNode /\ faults' \in Nat
      BY FailedReadType, ConstantTypes DEF TypeOK
    <3> QED BY <1>9, <3>1, <3>2 DEF TypeOK, SyncBinlogToWq
  <2> QED BY <1>9, <2>1, <2>2, <2>3 DEF TypeOK, SyncBinlogToWq
<1> QED BY <1>1, <1>2, <1>3, <1>4, <1>5, <1>6, <1>7, <1>8, <1>9 DEF ServerThread

(* Every step of the auxiliary thread keeps the types. *)
LEMMA TypeAuxiliary ==
  ASSUME TypeOK
  PROVE  /\ AuxiliaryThread => TypeOK'
         /\ MasterTimeout => TypeOK'
<1> USE DEF masterVars, auxVars, netVars, slaveVars, ghostVars
<1>1. ASSUME WakeUpSlaveBinlogSync PROVE TypeOK'
  <2>1. CASE ReadBinlogFileToWq /\ UNCHANGED ghostVars
    <3>1. node' \in SlaveNode /\ wq' \in Seq(Chip)
      BY <2>1, ReadBinlogType DEF TypeOK
    <3> QED BY <1>1, <2>1, <3>1 DEF TypeOK, WakeUpSlaveBinlogSync
  <2>2. CASE /\ UNCHANGED faults \/ Fault("read")
             /\ node' = NoSlaveNode
             /\ UNCHANGED <<wq, overlap>>
    <3>1. node' \in SlaveNode
      BY <2>2, NodeTypes
    <3>2. faults' \in Nat
      BY <2>2 DEF TypeOK, Fault
    <3> QED BY <1>1, <2>2, <3>1, <3>2 DEF TypeOK, WakeUpSlaveBinlogSync
  <2> QED BY <1>1, <2>1, <2>2 DEF WakeUpSlaveBinlogSync
<1>2. ASSUME ConsumeWriteQueue PROVE TypeOK'
  <2>1. outbox' \in Seq(Seq(Chip) \ {<<>>}) /\ wq' \in Seq(Chip)
    BY <1>2, BatchTypes DEF TypeOK, ConsumeWriteQueue
  <2> QED BY <1>2, <2>1 DEF TypeOK, ConsumeWriteQueue
<1>3. ASSUME SendSlaveBinlogChips PROVE TypeOK'
  <2>1. Head(outbox) \in Seq(Chip) \ {<<>>} /\ outbox' \in Seq(Seq(Chip) \ {<<>>})
    BY <1>3, HeadTailProperties DEF TypeOK, SendSlaveBinlogChips
  <2>2. BinlogChips(Head(outbox)) \in Response
    BY <2>1, BinlogChipsType
  <2>3. slaveIn' \in Seq(Response) /\ sendFailed' \in BOOLEAN
    BY <1>3, <2>2, WriteType DEF TypeOK, SendSlaveBinlogChips
  <2> QED BY <1>3, <2>1, <2>3 DEF TypeOK, SendSlaveBinlogChips
<1>4. ASSUME EraseWriteQueue PROVE TypeOK'
  <2>1. wq' \in Seq(Chip)
    BY <1>4, EmptySeq DEF EraseWriteQueue
  <2> QED BY <1>4, <2>1 DEF TypeOK, EraseWriteQueue
<1>5. ASSUME SendKeepAlive PROVE TypeOK'
  <2> DEFINE ping == [off |-> 0, session |-> node.session]
  <2>1. ping \in Chip
    BY DEF TypeOK, SlaveNode, Chip
  <2>2. <<ping>> \in Seq(Chip) /\ <<ping>> # <<>>
    BY <2>1
  <2>3. BinlogChips(<<ping>>) \in Response
    BY <2>2, BinlogChipsType
  <2>4. slaveIn' \in Seq(Response)
    BY <1>5, <2>3, WriteType DEF TypeOK, SendKeepAlive
  <2> QED BY <1>5, <2>4 DEF TypeOK, SendKeepAlive
<1>6. ASSUME MasterTimeout PROVE TypeOK'
  <2>1. node' \in SlaveNode /\ wq' \in Seq(Chip)
    BY <1>6, NodeTypes, EmptySeq DEF MasterTimeout
  <2>2. faults' \in Nat
    BY <1>6 DEF TypeOK, MasterTimeout, Fault
  <2> QED BY <1>6, <2>1, <2>2 DEF TypeOK, MasterTimeout
<1> QED BY <1>1, <1>2, <1>3, <1>4, <1>5, <1>6 DEF AuxiliaryThread

(* A prefix of a sequence, as LinkDown leaves of the messages in transit. *)
LEMMA PrefixType ==
  ASSUME NEW S, NEW s \in Seq(S), NEW k \in 0..Len(s)
  PROVE  /\ SubSeq(s, 1, k) \in Seq(S)
         /\ Len(SubSeq(s, 1, k)) = k
         /\ \A i \in 1..k : SubSeq(s, 1, k)[i] = s[i] /\ i \in 1..Len(s)
<1>1. Len(s) \in Nat /\ \A i \in 1..k : s[i] \in S /\ i \in 1..Len(s)
  BY LenProperties, ElementOfSeq
<1>2. /\ SubSeq(s, 1, k) \in Seq(S)
      /\ Len(SubSeq(s, 1, k)) = IF 1 <= k THEN k - 1 + 1 ELSE 0
      /\ \A i \in 1..(k - 1 + 1) : SubSeq(s, 1, k)[i] = s[1 + i - 1]
  BY <1>1, SubSeqProperties
<1> QED BY <1>1, <1>2

(* Every change of the connection and the MetaSync exchange keep the types. *)
LEMMA TypeNetwork ==
  ASSUME TypeOK
  PROVE  Network => TypeOK'
<1> USE DEF masterVars, auxVars, netVars, slaveVars, ghostVars
<1>1. ASSUME LinkDown PROVE TypeOK'
  <2>1. slaveIn' \in Seq(Response) /\ s2m' \in Seq(Request)
    BY <1>1, PrefixType DEF TypeOK, LinkDown
  <2>2. faults' \in Nat
    BY <1>1 DEF TypeOK, LinkDown, Fault
  <2> QED BY <1>1, <2>1, <2>2 DEF TypeOK, LinkDown
<1>2. ASSUME MasterFdClosed PROVE TypeOK'
  <2>1. node' \in SlaveNode /\ wq' \in Seq(Chip)
    BY <1>2, NodeTypes, EmptySeq DEF MasterFdClosed
  <2>2. \A r \in Request : [r EXCEPT !.live = FALSE] \in Request
    BY DEF Request
  <2>3. s2m' \in Seq(Request)
    <3>1. s2m \in [1..Len(s2m) -> Request] /\ Len(s2m) \in Nat /\ DOMAIN s2m = 1..Len(s2m)
      BY LenProperties DEF TypeOK
    <3>2. s2m' \in [1..Len(s2m) -> Request]
      BY <1>2, <2>2, <3>1 DEF MasterFdClosed
    <3> QED BY <3>1, <3>2, SeqDef
  <2>4. srv' \in [Threads -> Task]
    <3>1. ASSUME NEW x \in Task PROVE [x EXCEPT !.req.live = FALSE] \in Task
      <4>1. x.req \in Request
        BY DEF Task
      <4>2. [x.req EXCEPT !.live = FALSE] \in Request
        BY <2>2, <4>1
      <4> QED BY <4>2 DEF Task
    <3>2. srv \in [Threads -> Task]
      BY DEF TypeOK
    <3>3. srv' = [t \in Threads |-> [srv[t] EXCEPT !.req.live = FALSE]]
      BY <1>2 DEF MasterFdClosed
    <3> QED BY <3>1, <3>2, <3>3
  <2> QED BY <1>2, <2>1, <2>3, <2>4 DEF TypeOK, MasterFdClosed
<1>3. ASSUME SlaveFdClosed PROVE TypeOK'
  BY <1>3 DEF TypeOK, SlaveFdClosed, Deactivate, ReplState
<1>4. ASSUME SlaveFdTimeout PROVE TypeOK'
  BY <1>4 DEF TypeOK, SlaveFdTimeout, Deactivate, ReplState
<1>5. ASSUME MetaSync PROVE TypeOK'
  <2>1. attached' \in BOOLEAN /\ session' \in Nat /\ rstate' \in ReplState
    <3>1. CASE rstate = "kNoConnect"
      BY <1>5, <3>1 DEF MetaSync, ReplState
    <3>2. CASE rstate # "kNoConnect"
      <4>1. UNCHANGED <<attached, session, rstate>>
        BY <1>5, <3>2 DEF MetaSync
      <4> QED BY <4>1 DEF TypeOK
    <3> QED BY <3>1, <3>2
  <2> QED BY <1>5, <2>1 DEF TypeOK, MetaSync
<1> QED BY <1>1, <1>2, <1>3, <1>4, <1>5 DEF Network

(* Every step of the slave keeps the types. *)
LEMMA TypeSlave ==
  ASSUME TypeOK
  PROVE  SendTrySync \/ SlaveTimeout \/ BinlogWorker => TypeOK'
<1> USE DEF masterVars, auxVars, netVars, slaveVars, ghostVars
<1>0. Len(slog) \in Nat
  BY LenProperties DEF TypeOK
<1>1. ASSUME SendTrySync PROVE TypeOK'
  <2>1. [NoRequest EXCEPT !.start = Len(slog), !.end = Len(slog), !.live = TRUE] \in Request
    BY <1>0, MessageTypes DEF Request
  <2>2. s2m' \in Seq(Request)
    BY <1>1, <2>1, SendRequestType DEF TypeOK, SendTrySync
  <2> QED BY <1>1, <2>2 DEF TypeOK, SendTrySync, ReplState
<1>2. ASSUME SlaveTimeout PROVE TypeOK'
  <2>1. faults' \in Nat
    BY <1>2 DEF TypeOK, SlaveTimeout, Fault
  <2> QED BY <1>2, <2>1 DEF TypeOK, SlaveTimeout, ReplState
<1>3. ASSUME HandleTrySyncResponse PROVE TypeOK'
  <2>1. Head(slaveIn) \in Response /\ slaveIn' \in Seq(Response)
    BY <1>3, HeadTailProperties DEF TypeOK, HandleTrySyncResponse
  <2>2. session' \in Nat /\ rstate' \in ReplState
    BY <1>3, <2>1 DEF TypeOK, HandleTrySyncResponse, Response, ReplState
  <2>3. BinlogSyncRequest(session', Len(slog), Len(slog), TRUE) \in Request
    BY <1>0, <2>2, MessageTypes
  <2>4. s2m' \in Seq(Request)
    BY <1>3, <2>3, SendRequestType DEF TypeOK, HandleTrySyncResponse
  <2> QED BY <1>3, <2>1, <2>2, <2>4 DEF TypeOK, HandleTrySyncResponse
<1>4. ASSUME WriteBinlogRecord PROVE TypeOK'
  <2>1. Head(slaveIn) \in Response /\ Tail(slaveIn) \in Seq(Response)
    BY <1>4, HeadTailProperties DEF TypeOK, WriteBinlogRecord
  <2>2. Head(slaveIn).chips \in Seq(Chip) /\ Head(slaveIn).chips # <<>>
    BY <1>4, <2>1 DEF WriteBinlogRecord, Response
  <2>3. Head(Head(slaveIn).chips) \in Chip /\ Tail(Head(slaveIn).chips) \in Seq(Chip)
    BY <2>2, HeadTailProperties
  <2>4. [Head(slaveIn) EXCEPT !.chips = Tail(@)] \in Response
    BY <2>1, <2>3 DEF Response
  <2>5. <<[Head(slaveIn) EXCEPT !.chips = Tail(@)]>> \o Tail(slaveIn) \in Seq(Response)
    <3>1. <<[Head(slaveIn) EXCEPT !.chips = Tail(@)]>> \in Seq(Response)
      BY <2>4
    <3> QED BY <2>1, <3>1, ConcatProperties
  <2>6. slaveIn' \in Seq(Response) /\ rstate' \in ReplState
    BY <1>4, <2>1, <2>5 DEF TypeOK, WriteBinlogRecord, ReplState
  <2>7. slog' \in Seq(Nat)
    <3>1. Head(Head(slaveIn).chips).off \in Nat
      BY <2>3 DEF Chip
    <3>2. Append(slog, Head(Head(slaveIn).chips).off) \in Seq(Nat)
      BY <3>1 DEF TypeOK
    <3> QED BY <1>4, <3>2 DEF TypeOK, WriteBinlogRecord
  <2> QED BY <1>4, <2>6, <2>7 DEF TypeOK, WriteBinlogRecord
<1>5. ASSUME SendBinlogSyncAck PROVE TypeOK'
  <2>1. Head(slaveIn) \in Response /\ slaveIn' \in Seq(Response)
    BY <1>5, HeadTailProperties DEF TypeOK, SendBinlogSyncAck
  <2>2. Head(slaveIn).begin \in Nat
    BY <2>1 DEF Response
  <2>3. s2m' \in Seq(Request)
    BY <1>0, <1>5, <2>2, MessageTypes, SendRequestType DEF TypeOK, SendBinlogSyncAck
  <2> QED BY <1>5, <2>1, <2>3 DEF TypeOK, SendBinlogSyncAck
<1> QED BY <1>1, <1>2, <1>3, <1>4, <1>5 DEF BinlogWorker

(* Every step of the system, whoever takes it, keeps the types. *)
LEMMA TypeCorrectStep ==
  ASSUME TypeOK, [Next]_vars
  PROVE  TypeOK'
<1>1. CASE UNCHANGED vars
  BY <1>1 DEF TypeOK, vars, masterVars, auxVars, netVars, slaveVars, ghostVars
<1>2. CASE Next
  BY <1>2, TypeMaster, TypeAuxiliary, TypeNetwork, TypeSlave DEF Next
<1> QED BY <1>1, <1>2

(* The whole system keeps to its types: every component's variables, messages *)
(* and tasks stay well formed in all executions.                              *)
THEOREM TypeCorrect == Spec => []TypeOK
<1>1. Init => TypeOK
  BY TypeInit
<1>2. TypeOK /\ [Next]_vars => TypeOK'
  BY TypeCorrectStep
<1> QED BY <1>1, <1>2, PTL DEF Spec

=============================================================================
