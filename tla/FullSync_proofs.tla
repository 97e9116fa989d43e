--------------------------- MODULE FullSync_proofs ---------------------------
(***************************************************************************)
(* Proofs about full synchronisation: the slave's database is one complete *)
(* dump and belongs to the offset it goes on from, and the master keeps    *)
(* the binlog files a slave needs, for any files of a dump, any number of  *)
(* copying threads, saves, records and failures.                           *)
(***************************************************************************)
EXTENDS FullSync, WellFoundedInduction, FiniteSetTheorems, TLAPS

-----------------------------------------------------------------------------
(* Least elements *)

(* A set of numbers that is not empty has a least element. *)
LEMMA LeastNatural ==
  ASSUME NEW S \in SUBSET Nat, S # {}
  PROVE  \E x \in S : \A y \in S : x <= y
<1>1. IsWellFoundedOn(OpToRel(<, Nat), Nat)
  BY NatLessThanWellFounded
<1>2. PICK x \in S : \A y \in S : ~(<<y, x>> \in OpToRel(<, Nat))
  BY <1>1, WFMin
<1>3. \A y \in S : ~(y < x)
  BY <1>2 DEF OpToRel
<1> QED BY <1>3

(* The oldest of some binlog files. *)
LEMMA MinFacts ==
  ASSUME NEW S \in SUBSET Nat, S # {}
  PROVE  Min(S) \in S /\ \A y \in S : Min(S) <= y
BY LeastNatural DEF Min

(* The constants. *)
LEMMA FileFacts ==
  /\ FileOrder \in Seq(Files) /\ DOMAIN FileOrder = 1..Len(FileOrder) /\ Len(FileOrder) \in Nat
  /\ Files = {FileOrder[i] : i \in DOMAIN FileOrder}
  /\ IsFiniteSet(Files) /\ "info" \in Files /\ Data \subseteq Files /\ Files = Data \cup {"info"}
  /\ "info" \notin Data
<1>1. FileOrder \in Seq(Files) /\ Last(FileOrder) = "info" /\ Data # {}
  BY FullSyncAssumption
<1>2. Files = {FileOrder[i] : i \in DOMAIN FileOrder}
  BY DEF Files, ToSet
<1>3. DOMAIN FileOrder = 1..Len(FileOrder) /\ Len(FileOrder) \in Nat
  BY <1>1
<1>4. Files # {}
  BY <1>1 DEF Data
<1>5. Len(FileOrder) \in DOMAIN FileOrder
  BY <1>2, <1>3, <1>4
<1>6. "info" \in Files
  BY <1>1, <1>2, <1>5 DEF Last
<1>7. IsFiniteSet(Files)
  <2>1. IsFiniteSet(DOMAIN FileOrder)
    BY <1>3, FS_Interval
  <2>2. FileOrder \in Surjection(DOMAIN FileOrder, Files)
    BY <1>1, <1>2 DEF Surjection
  <2> QED BY <2>1, <2>2, FS_Surjection
<1> QED BY <1>1, <1>2, <1>3, <1>6, <1>7 DEF Data

(* The first of some files in the order of their names. *)
LEMMA FirstFacts ==
  ASSUME NEW S \in SUBSET Files, S # {}
  PROVE  First(S) \in S
<1> DEFINE I == {i \in DOMAIN FileOrder : FileOrder[i] \in S}
<1>1. I \subseteq Nat /\ I # {}
  BY FileFacts
<1>2. PICK i \in I : \A j \in I : i <= j
  BY <1>1, LeastNatural
<1>3. FileOrder[i] \in S /\ \A g \in S \ {FileOrder[i]} : Precedes(FileOrder[i], g)
  <2> SUFFICES ASSUME NEW g \in S \ {FileOrder[i]}
               PROVE  Precedes(FileOrder[i], g)
    BY <1>2
  <2>1. PICK j \in DOMAIN FileOrder : FileOrder[j] = g
    BY FileFacts
  <2>2. i < j
    BY <1>1, <1>2, <2>1
  <2> QED BY <1>2, <2>1, <2>2 DEF Precedes
<1> HIDE DEF I
<1> QED BY <1>3 DEF First

(* ThreadMain gives every file to a worker. *)
LEMMA FilesOfFacts ==
  ASSUME NEW S \in SUBSET Files
  PROVE  /\ \A w \in Workers : FilesOf(w, S) \subseteq S
         /\ \A f \in S : \E w \in Workers : f \in FilesOf(w, S)
<1>1. \A w \in Workers : FilesOf(w, S) \subseteq S
  BY DEF FilesOf
<1>2. ASSUME NEW f \in S
      PROVE  \E w \in Workers : f \in FilesOf(w, S)
  <2> DEFINE n == Cardinality({g \in S : Precedes(g, f)})
  <2>1. n \in Nat
    <3>1. IsFiniteSet({g \in S : Precedes(g, f)})
      BY FileFacts, FS_Subset
    <3> QED BY <3>1, FS_CardinalityType
  <2>2. Parallel \in Nat \ {0}
    BY FullSyncAssumption
  <2> HIDE DEF n
  <2>3. n % Parallel \in 0..(Parallel - 1)
    BY <2>1, <2>2
  <2> QED BY <2>3 DEF FilesOf, Workers, n
<1> QED BY <1>1, <1>2

-----------------------------------------------------------------------------
(* The inductive invariant *)

(* The dump belongs to the last save; its info file is written last.  The    *)
(* uuid lags behind until the info file is open.                             *)
DumpInv ==
  /\ dumpOffset = offsets[Len(offsets)]
  /\ uuid <= Len(offsets)
  /\ saver \in {"idle", "env"} =>
       /\ dump = NoFiles \/ (dump = [f \in Files |-> uuid] /\ uuid # 0)
       /\ dir => uuid = Len(offsets)
  /\ saver \in {"env", "engine"} => Len(offsets) < MaxSaves
  /\ saver = "engine" => dump = NoFiles
  /\ saver \in {"backup", "info", "uuid", "finish"} => \A f \in Data : dump[f] \in {Absent, Len(offsets)}
  /\ saver \in {"backup", "info", "uuid"} => uuid < Len(offsets)
  /\ saver \in {"backup", "info"} => dump["info"] = Absent
  /\ saver \in {"uuid", "finish"} => dump["info"] = Empty
  /\ saver = "finish" => uuid = Len(offsets)

(* The threads of the copy and who stops them. *)
ThreadInv ==
  /\ rsync = "IDLE" => thread = "none" /\ stopper = "none"
  /\ rsync = "RUNNING" => thread # "none" /\ stopper = "none"
  /\ thread = "started" /\ stopper = "none" => rsync = "RUNNING"
  /\ thread = "main" => ~exited
  /\ thread = "main" /\ rsync = "STOP" /\ stopper = "none" => errorStopped
  /\ \A w \in Workers : got[w] # NoRequest => thread = "main" /\ todo[w] # {}
  /\ aux \in {"meta", "list"} => rsync = "IDLE"
  /\ round <= uuid

(* The dump that the slave was offered is there, or about to be finished. *)
Offered ==
  /\ round = uuid /\ uuid # 0
  /\ dump["info"] = uuid \/ (saver = "finish" /\ \A f \in Data : dump[f] # Absent)

(* The state machine still waits for the copy under way. *)
Current == aux \in {"waiting", "check"} \/ (aux = "idle" /\ repl = "kWaitDBSync")

(* Every file on the list is copied or still to be copied, and the info file *)
(* is only copied when the list is complete.                                 *)
Progress ==
  /\ \A f \in listing : local[f] = round \/ \E w \in Workers : f \in todo[w]
  /\ local["info"] = round /\ round # 0 => listing = Files

(* What a copy that has ended leaves: one dump, or no info file. *)
Copied == local["info"] = Absent \/ \E n \in DOMAIN offsets : \A f \in Files : local[f] = n

(* The database is one dump, and its offset is that of the dump. *)
Matched == \E n \in DOMAIN offsets : offsets[n] = from /\ \A f \in Data : base[f] = n

(* An info file is that of a save. *)
InfoInv ==
  /\ local["info"] \in {Absent, Empty} \cup DOMAIN offsets
  /\ aux \in {"rename", "offset"} => found \in {Empty} \cup DOMAIN offsets

Sound == broken \subseteq {"purge"}

CopyInv ==
  Sound =>
    /\ thread # "none" => "info" \in listing /\ (Offered => listing = Files)
    /\ thread # "none" /\ Current => Progress
    /\ rsync = "STOP" /\ thread = "none" /\ stopper = "none" /\ Current => Copied
    /\ aux \in {"install", "rename"} => thread = "none"
    /\ aux = "install" => Copied
    /\ aux = "rename" => found \in DOMAIN offsets /\ \A f \in Data : local[f] = found
    /\ aux = "offset" => found \in DOMAIN offsets /\ \A f \in Data : base[f] = found
    /\ aux \notin {"rename", "offset"} => Matched

(* The files are those from some number up to the last; a purge goes through *)
(* them from the oldest.                                                     *)
FilesInv ==
  /\ files \subseteq 0..pro /\ \A x \in files : x..pro \subseteq files
  /\ purge.rest \subseteq files
  /\ purge.pc # "idle" => \A x \in files, y \in purge.rest : x \in purge.rest \/ y < x
  /\ purge.pc = "delete" => purge.rest # {}
  /\ "purge" \notin broken =>
       /\ pro \in files
       /\ purge.pc = "delete" => Min(purge.rest) <= pro - Remain

Asking == msg.type \in {"TrySync", "DBSync", "kOk", "kSyncPointBePurged", "DBSyncOk"}

(* One exchange at a time, for which the slave waits. *)
ExchangeInv ==
  /\ ~link => msg = NoMsg
  /\ link =>
       /\ Asking => srv = NoMsg /\ stopper # "HandleDBSyncResponse"
       /\ srv # NoMsg => stopper # "HandleDBSyncResponse"
       /\ Asking \/ srv # NoMsg \/ stopper = "HandleDBSyncResponse" => repl = "kWaitReply" /\ aux = "idle"

Retained(n) == n \in DOMAIN offsets /\ offsets[n]..pro \subseteq files

(* What a slave in full synchronisation copies, or will be offered, is kept. *)
KeptInv ==
  "purge" \notin broken /\ link =>
    /\ node = "kSlaveDbSync" /\ srv = NoMsg =>
         \/ saver \in {"env", "engine"}
         \/ Retained(Len(offsets)) /\ (saver = "idle" => uuid = Len(offsets))
    /\ node = "kSlaveDbSync" /\ repl = "kWaitDBSync" =>
         /\ aux \in {"meta", "list"} => Retained(uuid)
         /\ rsync # "IDLE" => Retained(round)
    /\ node = "kSlaveBinlogSync" => acked..pro \subseteq files

Inv == TypeOK /\ DumpInv /\ ThreadInv /\ InfoInv /\ CopyInv /\ FilesInv /\ ExchangeInv /\ KeptInv

-----------------------------------------------------------------------------
(* Types *)

(* The initial state is well typed. *)
LEMMA TypeInit == Init => TypeOK
<1> SUFFICES ASSUME Init
             PROVE  TypeOK
  OBVIOUS
<1>1. /\ MaxLog \in Nat /\ MaxFaults \in Nat /\ MaxSaves \in Nat \ {0}
  BY FullSyncAssumption
<1>2. Data \subseteq Files
  BY FileFacts
<1>3. NoMsg \in Message /\ NoPurge \in Purge /\ NoFiles \in [Files -> Content]
  BY <1>1 DEF NoMsg, Msg, Message, NoPurge, Purge, NoFiles, Content, Absent, Offset
<1>4. base \in [Data -> Content]
  BY <1>1 DEF Init, Content
<1>5. offsets \in Seq(Offset) /\ Len(offsets) = 1
  BY <1>1 DEF Init, Offset
<1>6. /\ dir \in BOOLEAN /\ link \in BOOLEAN /\ {attached, metaDone, force} \subseteq BOOLEAN
      /\ {exited, errorStopped} \subseteq BOOLEAN
  BY Zenon DEF Init
<1>7. /\ todo \in [Workers -> SUBSET Files] /\ got \in [Workers -> 0..MaxSaves \cup {NoRequest}]
  BY DEF Init
<1> QED BY <1>1, <1>2, <1>3, <1>4, <1>5, <1>6, <1>7 DEF Init, TypeOK, Offset, Content, Absent, SlaveState, ReplState

(* The master's binlog and its files. *)
LEMMA LogType ==
  ASSUME TypeOK, Write \/ PurgeStableLogs \/ PurgeCheck \/ PurgeDelete
  PROVE  TypeOK'
<1> USE DEF dumpVars, nodeVars, net, state, client, machine, database, ghost
<1>1. MaxLog \in Nat /\ MaxFaults \in Nat
  BY FullSyncAssumption
<1>2. CASE Write
  BY <1>1, <1>2 DEF Write, TypeOK, Offset
<1>3. CASE PurgeStableLogs
  <2>1. PICK to \in files \cup {-1} :
          /\ IF to = -1 THEN UNCHANGED faults ELSE Fault("purgelogsto")
          /\ purge' = [pc |-> "check", rest |-> files, to |-> to]
    BY <1>3 DEF PurgeStableLogs
  <2>2. purge' \in Purge
    BY <2>1 DEF TypeOK, Purge
  <2>3. faults' \in 0..MaxFaults
    BY <1>1, <2>1 DEF TypeOK, Fault
  <2> QED BY <1>3, <2>2, <2>3 DEF PurgeStableLogs, TypeOK
<1>4. CASE PurgeCheck
  <2>1. purge' \in Purge
    <3>1. NoPurge \in Purge
      BY DEF NoPurge, Purge
    <3> QED BY <1>4, <3>1 DEF PurgeCheck, TypeOK, Purge
  <2> QED BY <1>4, <2>1 DEF PurgeCheck, TypeOK
<1>5. CASE PurgeDelete
  <2>1. purge' \in Purge
    BY <1>5 DEF PurgeDelete, TypeOK, Purge
  <2> QED BY <1>5, <2>1 DEF PurgeDelete, TypeOK
<1> QED BY <1>2, <1>3, <1>4, <1>5

(* Saving a dump. *)
LEMMA SaverType ==
  ASSUME TypeOK, DumpInv, Saver \/ BgsaveCommand
  PROVE  TypeOK'
<1> USE DEF masterLog, nodeVars, net, state, client, machine, database, ghost
<1>1. MaxSaves \in Nat \ {0} /\ MaxFaults \in Nat
  BY FullSyncAssumption
<1>2. NoFiles \in [Files -> Content] /\ "info" \in Files /\ Data \subseteq Files
  BY <1>1, FileFacts DEF NoFiles, Content, Absent
<1>3. Empty \in Content /\ Len(offsets) \in Content /\ Len(offsets) \in 1..MaxSaves
  BY <1>1 DEF Empty, Content, TypeOK
<1>4. CASE BgsaveCommand
  BY <1>1, <1>4 DEF BgsaveCommand, BgSaveDB, Bgsaving, Fault, TypeOK
<1>5. CASE InitBgsaveEnv
  <2>1. dir' \in BOOLEAN
    BY <1>5, Zenon DEF InitBgsaveEnv
  <2> QED BY <1>2, <1>5, <2>1 DEF InitBgsaveEnv, TypeOK
<1>6. CASE InitBgsaveEngine
  <2>1. offsets' \in Seq(Offset) /\ Len(offsets') \in 1..MaxSaves
    BY <1>1, <1>6 DEF InitBgsaveEngine, TypeOK, DumpInv
  <2> QED BY <1>6, <2>1 DEF InitBgsaveEngine, TypeOK
<1>7. CASE CreateNewBackup
  <2> DEFINE left == {f \in Data : dump[f] = Absent}
  <2>1. left # {} => First(left) \in Files
    BY <1>2, FirstFacts
  <2>2. dump' \in [Files -> Content]
    BY <1>3, <1>7, <2>1 DEF CreateNewBackup, TypeOK
  <2>3. faults' \in 0..MaxFaults /\ saver' \in {"info", "backup"}
    BY <1>1, <1>7 DEF CreateNewBackup, TypeOK, Fault
  <2> QED BY <1>7, <2>2, <2>3 DEF CreateNewBackup, TypeOK
<1>8. CASE OpenInfo
  BY <1>2, <1>3, <1>8 DEF OpenInfo, TypeOK
<1>9. CASE SetUuid
  BY <1>1, <1>3, <1>9 DEF SetUuid, TypeOK
<1>10. CASE FinishBgsave
  <2>1. dir' \in BOOLEAN
    <3>1. dir' = FALSE \/ dir' = dir
      BY <1>10 DEF FinishBgsave
    <3>2. dir \in BOOLEAN
      BY DEF TypeOK
    <3> QED BY <3>1, <3>2, Zenon
  <2>2. dump' \in [Files -> Content]
    BY <1>2, <1>3, <1>10 DEF FinishBgsave, TypeOK
  <2> QED BY <1>10, <2>1, <2>2 DEF FinishBgsave, TypeOK
<1> QED BY <1>4, <1>5, <1>6, <1>7, <1>8, <1>9, <1>10 DEF Saver

(* Messages. *)
LEMMA MessageType ==
  /\ NoMsg \in Message
  /\ \A t \in {"TrySync", "DBSync", "BinlogSync", "kOk", "kSyncPointBePurged", "DBSyncOk"} :
       \A n \in Offset : Msg(t, n) \in Message /\ Msg(t, n) # NoMsg /\ Msg(t, n).type = t /\ Msg(t, n).off = n
  /\ 0 \in Offset /\ NoMsg.type = "none"
<1>1. MaxLog \in Nat
  BY FullSyncAssumption
<1> QED BY <1>1 DEF NoMsg, Msg, Message, Offset

(* The master's requests and its connection. *)
LEMMA MasterType ==
  ASSUME TypeOK, Master \/ LinkDown \/ MetaSync
  PROVE  TypeOK'
<1> USE DEF masterLog, dumpVars, nodeVars, net, state, client, machine, database, ghost
<1>1. MaxSaves \in Nat \ {0} /\ MaxFaults \in Nat
  BY FullSyncAssumption
<1>2. NoMsg \in Message /\ \A t \in {"kOk", "kSyncPointBePurged", "DBSyncOk"} : Msg(t, 0) \in Message
  BY MessageType
<1>3. CASE HandleTrySync
  BY <1>2, <1>3 DEF HandleTrySync, Send, TypeOK, SlaveState
<1>4. CASE HandleDBSync
  BY <1>2, <1>4 DEF HandleDBSync, TypeOK, SlaveState
<1>5. CASE TryDBSync
  BY <1>2, <1>5 DEF TryDBSync, BgSaveDB, Send, TypeOK
<1>6. CASE ActivateSlaveBinlogSync
  <2>1. msg.off \in Offset
    BY DEF TypeOK, Message
  <2>2. link' \in BOOLEAN
    <3>1. link' = link \/ link' = (msg.off \in files)
      BY <1>6 DEF ActivateSlaveBinlogSync
    <3>2. link \in BOOLEAN /\ (msg.off \in files) \in BOOLEAN
      BY DEF TypeOK
    <3> QED BY <3>1, <3>2, Zenon
  <2> QED BY <1>2, <1>6, <2>1, <2>2 DEF ActivateSlaveBinlogSync, TypeOK, SlaveState
<1>7. CASE MasterTimeout
  BY <1>1, <1>7 DEF MasterTimeout, Fault, TypeOK, SlaveState
<1>8. CASE MasterFdClosed
  BY <1>8 DEF MasterFdClosed, TypeOK, SlaveState
<1>9. CASE LinkDown
  <2>1. link' \in BOOLEAN
    BY <1>9, Zenon DEF LinkDown
  <2>2. faults' \in 0..MaxFaults
    BY <1>1, <1>9 DEF LinkDown, Fault, TypeOK
  <2> QED BY <1>2, <1>9, <2>1, <2>2 DEF LinkDown, TypeOK
<1>10. CASE MetaSync
  <2>1. link' \in BOOLEAN /\ metaDone' \in BOOLEAN /\ force' \in BOOLEAN
    BY <1>10, Zenon DEF MetaSync
  <2>2. attached' \in BOOLEAN
    <3>1. attached' = TRUE \/ attached' = attached
      BY <1>10 DEF MetaSync
    <3>2. attached \in BOOLEAN
      BY DEF TypeOK
    <3> QED BY <3>1, <3>2, Zenon
  <2>3. repl' \in ReplState
    BY <1>10 DEF MetaSync, TypeOK, ReplState
  <2> QED BY <1>10, <2>1, <2>2, <2>3 DEF MetaSync, TypeOK
<1> QED BY <1>3, <1>4, <1>5, <1>6, <1>7, <1>8, <1>9, <1>10 DEF Master

(* The slave's connection and requests. *)
LEMMA SlaveType ==
  ASSUME TypeOK, FilesInv,
         Slave \/ SendTrySync \/ SendDBSync \/ SlaveTimeout
  PROVE  TypeOK'
<1> USE DEF masterLog, dumpVars, nodeVars, net, state, client, machine, database, ghost
<1>1. MaxSaves \in Nat \ {0} /\ MaxFaults \in Nat /\ MaxLog \in Nat
  BY FullSyncAssumption
<1>2. NoMsg \in Message /\ \A t \in {"TrySync", "DBSync", "BinlogSync"} : Msg(t, soff) \in Message
  BY MessageType DEF TypeOK
<1>3. NoFiles \in [Files -> Content]
  BY <1>1 DEF NoFiles, Content, Absent
<1>4. CASE SlaveFdClosed
  <2>1. metaDone' \in BOOLEAN /\ attached' \in BOOLEAN
    BY <1>4, Zenon DEF SlaveFdClosed
  <2> QED BY <1>4, <2>1 DEF SlaveFdClosed, TypeOK, ReplState
<1>5. CASE HandleTrySyncResponse
  BY <1>2, <1>5 DEF HandleTrySyncResponse, TypeOK, ReplState
<1>6. CASE HandleDBSyncResponse
  BY <1>2, <1>6 DEF HandleDBSyncResponse, TypeOK, ReplState
<1>7. CASE StopEnd
  BY <1>7 DEF StopEnd, TypeOK, ReplState
<1>8. CASE Replicate
  <2>1. soff' \in Offset /\ acked' \in Offset
    BY <1>1, <1>8 DEF Replicate, TypeOK
  <2> QED BY <1>8, <2>1 DEF Replicate, TypeOK
<1>9. CASE SendTrySync
  BY <1>2, <1>9 DEF SendTrySync, Send, TypeOK, ReplState
<1>10. CASE SendDBSync
  BY <1>2, <1>3, <1>10 DEF SendDBSync, Send, TypeOK, ReplState
<1>11. CASE SlaveTimeout
  BY <1>1, <1>11 DEF SlaveTimeout, Fault, TypeOK, ReplState
<1> QED BY <1>4, <1>5, <1>6, <1>7, <1>8, <1>9, <1>10, <1>11 DEF Slave

(* The state machine of the slave, and a crash. *)
LEMMA MachineType ==
  ASSUME TypeOK, InfoInv, Crash \/ (Auxiliary /\ ~SendTrySync /\ ~SendDBSync /\ ~SlaveTimeout)
  PROVE  TypeOK'
<1> USE DEF masterLog, dumpVars, nodeVars, net, state, client, machine, database, ghost
<1>1. MaxSaves \in Nat \ {0} /\ MaxFaults \in Nat /\ MaxLog \in Nat
  BY FullSyncAssumption
<1>2. NoFiles \in [Files -> Content] /\ "info" \in Files /\ Data \subseteq Files /\ Absent \in Content
  BY <1>1, FileFacts DEF NoFiles, Content, Absent
<1>3. CASE WaitDBSync
  BY <1>3 DEF WaitDBSync, TypeOK
<1>4. CASE ActivateRsync
  BY <1>4 DEF ActivateRsync, TypeOK
<1>5. CASE GetBgSaveMetaData
  <2>1. FilesThere \subseteq Files
    BY <1>2 DEF FilesThere
  <2> QED BY <1>5, <2>1 DEF GetBgSaveMetaData, TypeOK
<1>6. CASE ComparisonUpdate
  <2>1. \A w \in Workers : FilesOf(w, listing) \subseteq Files
    BY FilesOfFacts DEF TypeOK
  <2>2. todo' \in [Workers -> SUBSET Files]
    BY <1>6, <2>1 DEF ComparisonUpdate
  <2>3. errorStopped' \in BOOLEAN
    BY <1>6, Zenon DEF ComparisonUpdate
  <2> QED BY <1>2, <1>6, <2>2, <2>3 DEF ComparisonUpdate, TypeOK
<1>7. CASE RsyncExited
  BY <1>7 DEF RsyncExited, TypeOK
<1>8. CASE TryUpdateMasterOffset
  BY <1>2, <1>8 DEF TryUpdateMasterOffset, TypeOK
<1>9. CASE ChangeDb
  BY <1>2, <1>9 DEF ChangeDb, TypeOK
<1>10. CASE SetProducerStatus
  <2>1. InfoOffset(found) \in Offset
    <3>1. found \in {Empty} \cup DOMAIN offsets
      BY <1>10 DEF SetProducerStatus, InfoInv
    <3>2. CASE found = Empty
      BY <1>1, <3>2 DEF InfoOffset, Offset
    <3>3. CASE found \in DOMAIN offsets /\ found # Empty
      BY <3>3 DEF InfoOffset, TypeOK
    <3> QED BY <3>1, <3>2, <3>3
  <2> QED BY <1>10, <2>1 DEF SetProducerStatus, TypeOK
<1>11. CASE MarkTryConnect
  BY <1>11 DEF MarkTryConnect, TypeOK, ReplState
<1>12. CASE Crash
  <2>1. /\ link' \in BOOLEAN /\ attached' \in BOOLEAN /\ metaDone' \in BOOLEAN
        /\ exited' \in BOOLEAN /\ errorStopped' \in BOOLEAN
    BY <1>12, Zenon DEF Crash
  <2>2. todo' \in [Workers -> SUBSET Files] /\ got' \in [Workers -> 0..MaxSaves \cup {NoRequest}]
    BY <1>12 DEF Crash
  <2>3. msg' \in Message
    BY <1>12, MessageType DEF Crash
  <2> QED BY <1>1, <1>2, <1>12, <2>1, <2>2, <2>3 DEF Crash, Fault, TypeOK, ReplState
<1> QED BY <1>3, <1>4, <1>5, <1>6, <1>7, <1>8, <1>9, <1>10, <1>11, <1>12 DEF Auxiliary

(* The copying threads. *)
LEMMA CopyType ==
  ASSUME TypeOK, ThreadInv, Copying
  PROVE  TypeOK'
<1> USE DEF masterLog, dumpVars, nodeVars, net, state, client, machine, database, ghost
<1>1. MaxSaves \in Nat \ {0}
  BY FullSyncAssumption
<1>2. NoFiles \in [Files -> Content] /\ Absent \in Content /\ Empty \in Content
  BY <1>1 DEF NoFiles, Content, Absent, Empty
<1>3. CASE ThreadMain
  <2>1. exited' \in BOOLEAN
    BY <1>3, Zenon DEF ThreadMain
  <2> QED BY <1>3, <2>1 DEF ThreadMain, TypeOK
<1>4. CASE ThreadEnd
  <2>1. exited' \in BOOLEAN
    BY <1>4, Zenon DEF ThreadEnd
  <2>2. local' \in [Files -> Content]
    BY <1>2, <1>4 DEF ThreadEnd, CleanUp, TypeOK
  <2> QED BY <1>4, <2>1, <2>2 DEF ThreadEnd, TypeOK
<1>5. ASSUME NEW w \in Workers, FileUuid(w) PROVE TypeOK'
  <2>1. local' \in [Files -> Content] /\ got' \in [Workers -> 0..MaxSaves \cup {NoRequest}]
    BY <1>2, <1>5 DEF FileUuid, TypeOK
  <2> QED BY <1>5, <2>1 DEF FileUuid, TypeOK
<1>6. ASSUME NEW w \in Workers, CopyFile(w) PROVE TypeOK'
  <2>1. todo[w] # {} /\ todo[w] \subseteq Files
    BY <1>6 DEF CopyFile, ThreadInv, TypeOK
  <2>2. First(todo[w]) \in Files
    BY <2>1, FirstFacts
  <2>3. dump[First(todo[w])] \in Content
    BY <2>2 DEF TypeOK
  <2>4. local' \in [Files -> Content]
    BY <1>2, <1>6, <2>3 DEF CopyFile, TypeOK
  <2>5. todo' \in [Workers -> SUBSET Files] /\ got' \in [Workers -> 0..MaxSaves \cup {NoRequest}]
    BY <1>6 DEF CopyFile, TypeOK
  <2>6. errorStopped' \in BOOLEAN
    <3>1. errorStopped' = TRUE \/ errorStopped' = errorStopped
      BY <1>6 DEF CopyFile
    <3>2. errorStopped \in BOOLEAN
      BY DEF TypeOK
    <3> QED BY <3>1, <3>2, Zenon
  <2>7. rsync' \in {"IDLE", "RUNNING", "STOP"}
    BY <1>6 DEF CopyFile, TypeOK
  <2>8. broken' \subseteq {"stale", "stopped", "crash", "purge"}
    BY <1>6 DEF CopyFile, TypeOK
  <2> QED BY <1>6, <2>4, <2>5, <2>6, <2>7, <2>8 DEF CopyFile, TypeOK
<1> QED BY <1>3, <1>4, <1>5, <1>6 DEF Copying

(* Every step keeps the types. *)
LEMMA TypeStep ==
  ASSUME TypeOK, DumpInv, ThreadInv, InfoInv, FilesInv, Next
  PROVE  TypeOK'
<1>1. CASE Write \/ Purging
  BY <1>1, LogType DEF Purging
<1>2. CASE BgsaveCommand \/ Saver
  BY <1>2, SaverType
<1>3. CASE Master \/ LinkDown \/ MetaSync
  BY <1>3, MasterType
<1>4. CASE Slave
  BY <1>4, SlaveType
<1>5. CASE Auxiliary \/ Crash
  BY <1>5, SlaveType, MachineType
<1>6. CASE Copying
  BY <1>6, CopyType
<1> QED BY <1>1, <1>2, <1>3, <1>4, <1>5, <1>6 DEF Next

-----------------------------------------------------------------------------
(* The dump *)

(* Who changes what belongs to the dump. *)
LEMMA DumpUnchanged ==
  ASSUME Next, ~Saver, ~BgsaveCommand, ~TryDBSync
  PROVE  UNCHANGED dumpVars
<1>1. Write \/ Purging => UNCHANGED dumpVars
  BY DEF Write, Purging, PurgeStableLogs, PurgeCheck, PurgeDelete
<1>2. HandleTrySync \/ HandleDBSync \/ ActivateSlaveBinlogSync \/ MasterTimeout \/ MasterFdClosed => UNCHANGED dumpVars
  BY DEF HandleTrySync, HandleDBSync, ActivateSlaveBinlogSync, MasterTimeout, MasterFdClosed
<1>3. LinkDown \/ MetaSync \/ Slave \/ Crash => UNCHANGED dumpVars
  BY DEF LinkDown, MetaSync, Slave, SlaveFdClosed, HandleTrySyncResponse, HandleDBSyncResponse, StopEnd,
         Replicate, Crash
<1>4. Auxiliary => UNCHANGED dumpVars
  BY DEF Auxiliary, SendTrySync, SendDBSync, SlaveTimeout, WaitDBSync, ActivateRsync, GetBgSaveMetaData,
         ComparisonUpdate, RsyncExited, TryUpdateMasterOffset, ChangeDb, SetProducerStatus, MarkTryConnect
<1>5. Copying => UNCHANGED dumpVars
  BY DEF Copying, ThreadMain, ThreadEnd, FileUuid, CopyFile
<1> QED BY <1>1, <1>2, <1>3, <1>4, <1>5 DEF Next, Master

(* The steps of a save, and the step that starts one, keep the dump in order. *)
LEMMA DumpStep ==
  ASSUME TypeOK, DumpInv, Next
  PROVE  DumpInv'
<1>1. MaxSaves \in Nat \ {0} /\ offsets \in Seq(Offset) /\ Len(offsets) \in 1..MaxSaves /\ uuid \in Nat
      /\ dump \in [Files -> Content]
  BY FullSyncAssumption DEF TypeOK
<1>2. "info" \in Files /\ Data \subseteq Files /\ "info" \notin Data /\ Files = Data \cup {"info"}
  BY FileFacts
<1>3. CASE BgsaveCommand \/ TryDBSync
  <2>1. UNCHANGED <<offsets, dump, dir, dumpOffset, uuid>>
    BY <1>3 DEF BgsaveCommand, TryDBSync
  <2>2. saver' = saver \/ (saver = "idle" /\ saver' = "env" /\ Len(offsets) < MaxSaves)
    BY <1>3 DEF BgsaveCommand, TryDBSync, BgSaveDB, Bgsaving
  <2> QED BY <2>1, <2>2 DEF DumpInv
<1>4. CASE InitBgsaveEnv
  BY <1>4 DEF InitBgsaveEnv, DumpInv
<1>5. CASE InitBgsaveEngine
  <2>1. /\ offsets' = Append(offsets, pro) /\ dumpOffset' = pro /\ saver' = "backup" /\ dump' = NoFiles
        /\ uuid' = uuid
    BY <1>5 DEF InitBgsaveEngine, DumpInv
  <2>2. Len(offsets') = Len(offsets) + 1 /\ offsets'[Len(offsets')] = pro
    BY <1>1, <2>1
  <2>3. \A f \in Files : dump'[f] = Absent
    BY <2>1 DEF NoFiles
  <2> QED BY <1>1, <1>2, <2>1, <2>2, <2>3 DEF DumpInv
<1>6. CASE CreateNewBackup
  <2>1. /\ saver = "backup" /\ UNCHANGED <<offsets, dir, dumpOffset, uuid>> /\ saver' \in {"info", "backup"}
    BY <1>6 DEF CreateNewBackup
  <2>2. dump' = dump \/ \E f \in Data : dump' = [dump EXCEPT ![f] = Len(offsets)]
    <3> DEFINE left == {f \in Data : dump[f] = Absent}
    <3>1. left # {} => First(left) \in left
      BY <1>2, FirstFacts
    <3>2. dump' = dump \/ (left # {} /\ dump' = [dump EXCEPT ![First(left)] = Len(offsets)])
      BY <1>6 DEF CreateNewBackup
    <3> QED BY <3>1, <3>2
  <2>3. dump'["info"] = Absent /\ \A f \in Data : dump'[f] \in {Absent, Len(offsets)}
    BY <1>1, <1>2, <2>1, <2>2 DEF DumpInv
  <2> QED BY <2>1, <2>3 DEF DumpInv
<1>7. CASE OpenInfo
  <2>1. /\ saver = "info" /\ UNCHANGED <<offsets, dir, dumpOffset, uuid>> /\ saver' = "uuid"
        /\ dump' = [dump EXCEPT !["info"] = Empty]
    BY <1>7 DEF OpenInfo
  <2>2. dump'["info"] = Empty /\ \A f \in Data : dump'[f] = dump[f]
    BY <1>1, <1>2, <2>1
  <2> QED BY <2>1, <2>2 DEF DumpInv
<1>8. CASE SetUuid
  BY <1>1, <1>8 DEF SetUuid, DumpInv
<1>9. CASE FinishBgsave
  <2>1. saver = "finish" /\ UNCHANGED <<offsets, dumpOffset, uuid>> /\ saver' = "idle" /\ uuid = Len(offsets)
    BY <1>9 DEF FinishBgsave, DumpInv
  <2>2. CASE \E f \in Data : dump[f] = Absent
    <3>1. dump' = NoFiles
      BY <1>9, <2>2 DEF FinishBgsave
    <3> QED BY <2>1, <3>1 DEF DumpInv
  <2>3. CASE ~(\E f \in Data : dump[f] = Absent)
    <3>1. dump' = [dump EXCEPT !["info"] = Len(offsets)]
      BY <1>9, <2>3 DEF FinishBgsave
    <3>2. \A f \in Data : dump[f] = Len(offsets)
      BY <2>1, <2>3 DEF DumpInv
    <3>3. dump' = [f \in Files |-> uuid]
      BY <1>1, <1>2, <2>1, <3>1, <3>2
    <3> QED BY <1>1, <2>1, <3>3 DEF DumpInv
  <2> QED BY <2>2, <2>3
<1>10. CASE UNCHANGED dumpVars
  BY <1>10 DEF DumpInv, dumpVars
<1> QED BY <1>3, <1>4, <1>5, <1>6, <1>7, <1>8, <1>9, <1>10, DumpUnchanged DEF Saver

-----------------------------------------------------------------------------
(* The threads of the copy *)

(* The steps of the master and of the connection leave the copying alone. *)
LEMMA ClientUnchanged ==
  ASSUME Write \/ Purging \/ BgsaveCommand \/ Saver \/ Master \/ LinkDown \/ MetaSync
  PROVE  UNCHANGED <<client, machine, local, database>>
<1>1. Write \/ Purging \/ BgsaveCommand => UNCHANGED <<client, machine, local, database>>
  BY DEF Write, Purging, PurgeStableLogs, PurgeCheck, PurgeDelete, BgsaveCommand
<1>2. Saver => UNCHANGED <<client, machine, local, database>>
  BY DEF Saver, InitBgsaveEnv, InitBgsaveEngine, CreateNewBackup, OpenInfo, SetUuid, FinishBgsave
<1>3. Master => UNCHANGED <<client, machine, local, database>>
  BY DEF Master, HandleTrySync, HandleDBSync, TryDBSync, ActivateSlaveBinlogSync, MasterTimeout, MasterFdClosed
<1>4. LinkDown \/ MetaSync => UNCHANGED <<client, machine, local, database>>
  BY DEF LinkDown, MetaSync
<1> QED BY <1>1, <1>2, <1>3, <1>4

(* The uuid never goes back. *)
LEMMA UuidGrows ==
  ASSUME TypeOK, DumpInv, Next
  PROVE  uuid <= uuid' /\ Len(offsets) <= Len(offsets') /\ uuid' \in Nat /\ uuid \in Nat /\ round \in Nat
<1>1. uuid \in Nat /\ Len(offsets) \in Nat /\ offsets \in Seq(Offset) /\ round \in Nat
  BY FullSyncAssumption DEF TypeOK
<1>2. CASE BgsaveCommand \/ TryDBSync
  BY <1>1, <1>2 DEF BgsaveCommand, TryDBSync
<1>3. CASE Saver
  BY <1>1, <1>3 DEF Saver, InitBgsaveEnv, InitBgsaveEngine, CreateNewBackup, OpenInfo, SetUuid, FinishBgsave, DumpInv
<1>4. CASE UNCHANGED dumpVars
  BY <1>1, <1>4 DEF dumpVars
<1> QED BY <1>2, <1>3, <1>4, DumpUnchanged

(* A thread that is stopped or that fails leaves the client as Stop and the  *)
(* next copy expect it.                                                      *)
LEMMA ThreadStep ==
  ASSUME TypeOK, DumpInv, ThreadInv, Next
  PROVE  ThreadInv'
<1>1. uuid <= uuid' /\ uuid' \in Nat /\ uuid \in Nat /\ round \in Nat
  BY UuidGrows
<1>2. CASE Write \/ Purging \/ BgsaveCommand \/ Saver \/ Master \/ LinkDown \/ MetaSync
  <2>1. UNCHANGED <<client, aux>>
    BY <1>2, ClientUnchanged DEF machine
  <2> QED BY <1>1, <2>1 DEF ThreadInv, client
<1>3. CASE SendTrySync \/ SendDBSync \/ SlaveTimeout \/ MarkTryConnect \/ HandleTrySyncResponse \/ Replicate
  <2>1. UNCHANGED client /\ (aux' = aux \/ aux' = "idle")
    BY <1>3 DEF SendTrySync, SendDBSync, SlaveTimeout, MarkTryConnect, HandleTrySyncResponse, Replicate, machine
  <2> QED BY <1>1, <2>1 DEF ThreadInv, client
<1>4. CASE WaitDBSync \/ RsyncExited \/ TryUpdateMasterOffset \/ ChangeDb \/ SetProducerStatus
  <2>1. UNCHANGED client /\ aux' \notin {"meta", "list"}
    BY <1>4 DEF WaitDBSync, RsyncExited, TryUpdateMasterOffset, ChangeDb, SetProducerStatus
  <2> QED BY <1>1, <2>1 DEF ThreadInv, client
<1>5. CASE ActivateRsync \/ GetBgSaveMetaData
  <2>1. UNCHANGED client /\ (aux' \in {"meta", "list"} => rsync = "IDLE")
    BY <1>5 DEF ActivateRsync, GetBgSaveMetaData, ThreadInv
  <2> QED BY <1>1, <2>1 DEF ThreadInv, client
<1>6. CASE SlaveFdClosed
  BY <1>1, <1>6 DEF SlaveFdClosed, ThreadInv, machine
<1>7. CASE HandleDBSyncResponse
  BY <1>1, <1>7 DEF HandleDBSyncResponse, ThreadInv, machine
<1>8. CASE StopEnd
  BY <1>1, <1>8 DEF StopEnd, ThreadInv, machine
<1>9. CASE ComparisonUpdate
  <2>1. round' = uuid /\ uuid' = uuid /\ aux' = "check" /\ rsync' = "RUNNING" /\ thread' = "started"
        /\ UNCHANGED <<exited, got, stopper>> /\ rsync = "IDLE"
    BY <1>9 DEF ComparisonUpdate, ThreadInv, dumpVars
  <2>2. stopper = "none" /\ thread = "none" /\ \A w \in Workers : got[w] = NoRequest
    BY <2>1 DEF ThreadInv
  <2> QED BY <1>1, <2>1, <2>2 DEF ThreadInv
<1>10. CASE ThreadMain
  <2>1. /\ thread = "started" /\ thread' = "main" /\ exited' = FALSE
        /\ UNCHANGED <<rsync, errorStopped, round, todo, got, stopper, aux>>
    BY <1>10 DEF ThreadMain, machine
  <2> QED BY <1>1, <2>1 DEF ThreadInv
<1>11. CASE ThreadEnd
  <2>1. /\ thread' = "none" /\ rsync' = "STOP" /\ rsync # "IDLE"
        /\ UNCHANGED <<errorStopped, round, todo, got, stopper, aux>>
        /\ \A w \in Workers : got[w] = NoRequest
    BY <1>11 DEF ThreadEnd, machine, ThreadInv, Finished
  <2> QED BY <1>1, <2>1 DEF ThreadInv
<1>12. ASSUME NEW w \in Workers, FileUuid(w)
       PROVE  ThreadInv'
  <2>1. /\ thread = "main" /\ todo[w] # {} /\ got' = [got EXCEPT ![w] = uuid]
        /\ UNCHANGED <<rsync, thread, exited, errorStopped, round, todo, stopper, aux>>
    BY <1>12 DEF FileUuid, machine
  <2>2. \A v \in Workers : got'[v] # NoRequest => thread' = "main" /\ todo'[v] # {}
    BY <2>1 DEF ThreadInv, TypeOK
  <2> QED BY <1>1, <2>1, <2>2 DEF ThreadInv
<1>13. ASSUME NEW w \in Workers, CopyFile(w)
       PROVE  ThreadInv'
  <2>1. /\ got[w] # NoRequest /\ got' = [got EXCEPT ![w] = NoRequest]
        /\ UNCHANGED <<thread, exited, round, stopper, aux>>
        /\ \/ UNCHANGED <<rsync, errorStopped>>
           \/ rsync' = "STOP" /\ errorStopped' = TRUE
        /\ todo' = todo \/ todo' = [todo EXCEPT ![w] = @ \ {First(todo[w])}]
    BY <1>13 DEF CopyFile, machine
  <2>2. thread = "main" /\ rsync # "IDLE"
    BY <2>1 DEF ThreadInv
  <2>3. \A v \in Workers : got'[v] # NoRequest => thread' = "main" /\ todo'[v] # {}
    BY <2>1 DEF ThreadInv, TypeOK
  <2>4. aux' \in {"meta", "list"} => rsync' = "IDLE"
    BY <2>1, <2>2 DEF ThreadInv
  <2> QED BY <1>1, <2>1, <2>2, <2>3, <2>4 DEF ThreadInv
<1>14. CASE Crash
  BY <1>1, <1>14 DEF Crash, ThreadInv
<1> QED BY <1>2, <1>3, <1>4, <1>5, <1>6, <1>7, <1>8, <1>9, <1>10, <1>11, <1>12, <1>13, <1>14
       DEF Next, Slave, Auxiliary, Copying

-----------------------------------------------------------------------------
(* Info files *)

(* The info file of the dump is not there, empty, or that of a save. *)
LEMMA DumpInfo ==
  ASSUME TypeOK, DumpInv
  PROVE  dump["info"] \in {Absent, Empty} \cup DOMAIN offsets
<1>1. "info" \in Files /\ Len(offsets) \in Nat /\ uuid \in Nat /\ DOMAIN offsets = 1..Len(offsets)
  BY FullSyncAssumption, FileFacts DEF TypeOK
<1>2. dump = NoFiles => dump["info"] = Absent
  BY <1>1 DEF NoFiles
<1>3. dump = [f \in Files |-> uuid] => dump["info"] = uuid
  BY <1>1
<1>4. saver \in {"idle", "env", "engine", "backup", "info", "uuid", "finish"}
  BY DEF TypeOK
<1>5. CASE saver \in {"idle", "env", "engine"}
  <2>1. dump["info"] = Absent \/ (dump["info"] = uuid /\ uuid # 0)
    BY <1>2, <1>3, <1>5, Zenon DEF DumpInv
  <2>2. uuid <= Len(offsets)
    BY DEF DumpInv
  <2> QED BY <1>1, <2>1, <2>2
<1>6. CASE saver \in {"backup", "info", "uuid", "finish"}
  BY <1>6 DEF DumpInv
<1> QED BY <1>4, <1>5, <1>6

(* A save is never forgotten. *)
LEMMA SavesGrow ==
  ASSUME TypeOK, Next
  PROVE  DOMAIN offsets \subseteq DOMAIN offsets' /\ \A n \in DOMAIN offsets : offsets'[n] = offsets[n]
<1>1. offsets \in Seq(Offset) /\ pro \in Offset
  BY DEF TypeOK
<1>2. offsets' = offsets \/ offsets' = Append(offsets, pro)
  <2>1. CASE BgsaveCommand \/ TryDBSync
    BY <2>1 DEF BgsaveCommand, TryDBSync
  <2>2. CASE Saver
    BY <2>2 DEF Saver, InitBgsaveEnv, InitBgsaveEngine, CreateNewBackup, OpenInfo, SetUuid, FinishBgsave
  <2>3. CASE UNCHANGED dumpVars
    BY <2>3 DEF dumpVars
  <2> QED BY <2>1, <2>2, <2>3, DumpUnchanged
<1> QED BY <1>1, <1>2

(* What the slave reads in an info file is the offset of a save, or nothing. *)
LEMMA InfoStep ==
  ASSUME TypeOK, DumpInv, ThreadInv, InfoInv, Next
  PROVE  InfoInv'
<1>1. DOMAIN offsets \subseteq DOMAIN offsets'
  BY SavesGrow
<1>2. "info" \in Files /\ "info" \notin Data /\ local \in [Files -> Content]
  BY FileFacts DEF TypeOK
<1>3. NoFiles["info"] = Absent
  BY <1>2 DEF NoFiles
<1>4. CASE UNCHANGED local /\ UNCHANGED found /\ (aux' = aux \/ aux' \notin {"rename", "offset"})
  BY <1>1, <1>4 DEF InfoInv
<1>5. CASE Write \/ Purging \/ BgsaveCommand \/ Saver \/ Master \/ LinkDown \/ MetaSync
  <2>1. UNCHANGED <<local, found, aux>>
    BY <1>5, ClientUnchanged DEF machine
  <2> QED BY <1>4, <2>1
<1>6. CASE \/ SendTrySync \/ SlaveTimeout \/ MarkTryConnect \/ Slave
           \/ WaitDBSync \/ RsyncExited \/ ActivateRsync \/ GetBgSaveMetaData \/ ThreadMain
  <2>1. UNCHANGED <<local, found>> /\ (aux' = aux \/ aux' \notin {"rename", "offset"})
    BY <1>6 DEF SendTrySync, SlaveTimeout, MarkTryConnect, Slave, HandleTrySyncResponse, Replicate, WaitDBSync,
                RsyncExited, ActivateRsync, GetBgSaveMetaData, ThreadMain, SlaveFdClosed, HandleDBSyncResponse,
                StopEnd, machine
  <2> QED BY <1>4, <2>1
<1>7. CASE SendDBSync \/ ComparisonUpdate
  <2>1. local' = NoFiles /\ found' = found /\ (aux' = aux \/ aux' \notin {"rename", "offset"})
    BY <1>7 DEF SendDBSync, ComparisonUpdate, machine
  <2> QED BY <1>1, <1>3, <2>1 DEF InfoInv
<1>8. CASE TryUpdateMasterOffset
  <2>1. CASE local["info"] = Absent
    BY <1>1, <1>8, <2>1 DEF TryUpdateMasterOffset, InfoInv
  <2>2. CASE local["info"] # Absent
    <3>1. found' = local["info"] /\ local' = [local EXCEPT !["info"] = Absent]
      BY <1>8, <2>2 DEF TryUpdateMasterOffset
    <3>2. local'["info"] = Absent
      BY <1>2, <3>1
    <3> QED BY <1>1, <2>2, <3>1, <3>2 DEF InfoInv
  <2> QED BY <2>1, <2>2
<1>9. CASE ChangeDb
  BY <1>1, <1>3, <1>9 DEF ChangeDb, InfoInv
<1>10. CASE SetProducerStatus
  BY <1>1, <1>10 DEF SetProducerStatus, InfoInv
<1>11. CASE ThreadEnd
  <2>1. (local' = NoFiles \/ local' = local) /\ UNCHANGED machine
    BY <1>11 DEF ThreadEnd, CleanUp
  <2> QED BY <1>1, <1>3, <2>1 DEF InfoInv, machine
<1>12. ASSUME NEW w \in Workers, FileUuid(w) \/ CopyFile(w)
       PROVE  InfoInv'
  <2>1. UNCHANGED machine
    BY <1>12 DEF FileUuid, CopyFile
  <2>2. \/ local' = local
        \/ \E f \in Files, c \in {Absent, Empty} : local' = [local EXCEPT ![f] = c]
        \/ \E f \in Files : local' = [local EXCEPT ![f] = dump[f]]
    <3>1. todo[w] # {} /\ todo[w] \in SUBSET Files
      BY <1>12 DEF FileUuid, CopyFile, ThreadInv, TypeOK
    <3>2. First(todo[w]) \in Files
      BY <3>1, FirstFacts
    <3> QED BY <1>12, <3>2 DEF FileUuid, CopyFile
  <2>3. local'["info"] \in {Absent, Empty, local["info"], dump["info"]}
    BY <1>2, <2>2
  <2>4. local'["info"] \in {Absent, Empty} \cup DOMAIN offsets
    BY <2>3, DumpInfo DEF InfoInv
  <2> QED BY <1>1, <2>1, <2>4 DEF InfoInv, machine
<1>13. CASE Crash
  BY <1>1, <1>13 DEF Crash, InfoInv
<1> QED BY <1>5, <1>6, <1>7, <1>8, <1>9, <1>10, <1>11, <1>12, <1>13 DEF Next, Auxiliary, Copying

-----------------------------------------------------------------------------
(* The binlog files *)

(* What is spoilt stays so, and who changes the binlog. *)
LEMMA LogUnchanged ==
  ASSUME Next
  PROVE  broken \subseteq broken' /\ (Write \/ Purging \/ UNCHANGED masterLog)
<1>1. Write \/ Purging => broken \subseteq broken'
  BY DEF Write, Purging, PurgeStableLogs, PurgeCheck, PurgeDelete, ghost
<1>2. BgsaveCommand \/ Saver => UNCHANGED masterLog /\ broken' = broken
  BY DEF BgsaveCommand, Saver, InitBgsaveEnv, InitBgsaveEngine, CreateNewBackup, OpenInfo, SetUuid, FinishBgsave,
         ghost
<1>3. Master => UNCHANGED masterLog /\ broken \subseteq broken'
  BY DEF Master, HandleTrySync, HandleDBSync, TryDBSync, ActivateSlaveBinlogSync, MasterTimeout, MasterFdClosed, ghost
<1>4. LinkDown \/ MetaSync \/ Slave \/ Crash => UNCHANGED masterLog /\ broken \subseteq broken'
  BY DEF LinkDown, MetaSync, Slave, SlaveFdClosed, HandleTrySyncResponse, HandleDBSyncResponse, StopEnd,
         Replicate, Crash, ghost
<1>5. Auxiliary => UNCHANGED masterLog /\ broken \subseteq broken'
  BY DEF Auxiliary, SendTrySync, SendDBSync, SlaveTimeout, WaitDBSync, ActivateRsync, GetBgSaveMetaData,
         ComparisonUpdate, RsyncExited, TryUpdateMasterOffset, ChangeDb, SetProducerStatus, MarkTryConnect, ghost
<1>6. Copying => UNCHANGED masterLog /\ broken \subseteq broken'
  BY DEF Copying, ThreadMain, ThreadEnd, FileUuid, CopyFile, ghost
<1> QED BY <1>1, <1>2, <1>3, <1>4, <1>5, <1>6 DEF Next

(* The file that a purge deletes is the oldest. *)
LEMMA OldestFacts ==
  ASSUME TypeOK, FilesInv, purge.pc # "idle", purge.rest # {}
  PROVE  /\ Min(purge.rest) \in purge.rest /\ Min(purge.rest) \in files /\ Min(purge.rest) \in Nat
         /\ \A x \in files : x \in Nat /\ Min(purge.rest) <= x
<1>1. MaxLog \in Nat /\ pro \in Nat
  BY FullSyncAssumption DEF TypeOK, Offset
<1>2. purge.rest \subseteq Nat /\ \A x \in files : x \in Nat
  <2>1. files \subseteq 0..pro /\ purge.rest \subseteq files
    BY DEF FilesInv
  <2>2. 0..pro \subseteq Nat
    BY <1>1
  <2> QED BY <2>1, <2>2, Zenon
<1>3. Min(purge.rest) \in purge.rest /\ \A y \in purge.rest : Min(purge.rest) <= y
  BY <1>2, MinFacts, Zenon
<1> HIDE DEF Min
<1> QED BY <1>1, <1>2, <1>3 DEF FilesInv

(* Writing and purging leave the newest files. *)
LEMMA FilesStep ==
  ASSUME TypeOK, FilesInv, Next
  PROVE  FilesInv'
<1>1. pro \in Nat /\ Remain \in Nat \ {0} /\ \A x \in files : x \in 0..pro /\ x \in Nat
  BY FullSyncAssumption DEF TypeOK, Offset, FilesInv
<1>2. CASE Write
  <2>1. pro' = pro + 1 /\ files' = files \cup {pro + 1} /\ purge' = purge /\ broken' = broken
    BY <1>2 DEF Write, ghost
  <2>2. files' \subseteq 0..pro' /\ \A x \in files' : x..pro' \subseteq files'
    <3>1. \A x \in files : x..pro \subseteq files
      BY DEF FilesInv
    <3>2. \A x \in files' : x..pro' \subseteq files'
      <4> SUFFICES ASSUME NEW x \in files', NEW z \in x..pro'
                   PROVE  z \in files'
        OBVIOUS
      <4>1. CASE z = pro + 1
        BY <2>1, <4>1
      <4>2. CASE z # pro + 1
        BY <1>1, <2>1, <3>1, <4>2
      <4> QED BY <4>1, <4>2
    <3>3. files' \subseteq 0..pro'
      BY <1>1, <2>1
    <3> QED BY <3>2, <3>3
  <2>3. \A x \in files', y \in purge'.rest : purge'.pc # "idle" => x \in purge'.rest \/ y < x
    <3>1. purge.rest \subseteq files
      BY DEF FilesInv
    <3>2. \A x \in files, y \in purge.rest : purge.pc # "idle" => x \in purge.rest \/ y < x
      BY DEF FilesInv
    <3> QED BY <1>1, <2>1, <3>1, <3>2
  <2>4. "purge" \notin broken' => pro' \in files' /\ (purge'.pc = "delete" => Min(purge'.rest) <= pro' - Remain)
    <3> SUFFICES ASSUME "purge" \notin broken, purge.pc = "delete"
                 PROVE  Min(purge.rest) <= (pro + 1) - Remain
      <4>1. pro' \in files' /\ purge'.pc = purge.pc /\ Min(purge'.rest) = Min(purge.rest)
        BY <2>1
      <4> QED BY <2>1, <4>1
    <3>1. Min(purge.rest) <= pro - Remain /\ purge.rest # {}
      BY DEF FilesInv
    <3>2. Min(purge.rest) \in Nat
      BY <3>1, OldestFacts
    <3> HIDE DEF Min
    <3> QED BY <1>1, <3>1, <3>2
  <2> QED BY <2>1, <2>2, <2>3, <2>4 DEF FilesInv
<1>3. CASE PurgeStableLogs
  <2>1. UNCHANGED <<pro, files, broken>> /\ purge'.pc = "check" /\ purge'.rest = files
    BY <1>3 DEF PurgeStableLogs
  <2> QED BY <2>1 DEF FilesInv
<1>4. CASE PurgeCheck
  <2>1. UNCHANGED <<pro, files>> /\ purge.pc = "check" /\ broken \subseteq broken'
    BY <1>4 DEF PurgeCheck
  <2>2. CASE /\ purge.rest # {} /\ purge' = [purge EXCEPT !.pc = "delete"]
             /\ broken' = IF Min(purge.rest) <= pro - Remain THEN broken ELSE broken \cup {"purge"}
    <3>1. purge'.rest = purge.rest /\ purge'.pc = "delete"
      BY <2>2 DEF TypeOK, Purge
    <3>2. "purge" \notin broken' => Min(purge.rest) <= pro - Remain
      BY <2>2
    <3> HIDE DEF Min
    <3> QED BY <2>1, <2>2, <3>1, <3>2 DEF FilesInv
  <2>3. CASE purge' = NoPurge
    BY <2>1, <2>3 DEF NoPurge, FilesInv
  <2> QED BY <1>4, <2>2, <2>3 DEF PurgeCheck
<1>5. CASE PurgeDelete
  <2> DEFINE oldest == Min(purge.rest)
  <2>1. /\ pro' = pro /\ files' = files \ {oldest} /\ broken \subseteq broken' /\ purge.pc = "delete"
        /\ purge'.pc = "check" /\ purge'.rest = purge.rest \ {oldest}
    BY <1>5 DEF PurgeDelete, TypeOK, Purge
  <2>2. oldest \in purge.rest /\ oldest \in files /\ oldest \in Nat /\ \A x \in files : x \in Nat /\ oldest <= x
    BY <2>1, OldestFacts DEF FilesInv
  <2> HIDE DEF oldest
  <2>3. files' \subseteq 0..pro' /\ \A x \in files' : x..pro' \subseteq files'
    <3> SUFFICES ASSUME NEW x \in files', NEW z \in x..pro'
                 PROVE  z \in files'
      BY <2>1 DEF FilesInv
    <3>1. z \in files
      BY <2>1 DEF FilesInv
    <3>2. oldest < x
      BY <2>1, <2>2
    <3> QED BY <1>1, <2>1, <2>2, <3>1, <3>2
  <2>4. "purge" \notin broken' => pro' \in files'
    <3>1. "purge" \notin broken' => oldest <= pro - Remain /\ pro \in files
      BY <2>1 DEF FilesInv, oldest
    <3> QED BY <1>1, <2>1, <2>2, <3>1
  <2> QED BY <2>1, <2>3, <2>4 DEF FilesInv
<1>6. CASE UNCHANGED masterLog /\ broken \subseteq broken'
  BY <1>6 DEF masterLog, FilesInv
<1> QED BY <1>2, <1>3, <1>4, <1>5, <1>6, LogUnchanged DEF Purging

-----------------------------------------------------------------------------
(* Requests and replies *)

(* The slave waits for every request it has sent and for every reply, and    *)
(* for the end of Stop when the reply is to a DBSync.                        *)
LEMMA ExchangeStep ==
  ASSUME TypeOK, ExchangeInv, Next
  PROVE  ExchangeInv'
<1> USE DEF Asking
<1>1. /\ NoMsg.type = "none"
      /\ \A t \in {"TrySync", "DBSync", "BinlogSync", "kOk", "kSyncPointBePurged", "DBSyncOk"}, n \in Offset :
           Msg(t, n).type = t
      /\ 0 \in Offset /\ soff \in Offset
  BY MessageType DEF TypeOK
<1>2. CASE UNCHANGED <<link, msg, srv, stopper, repl, aux>>
  BY <1>2 DEF ExchangeInv
<1>3. CASE aux # "idle" /\ UNCHANGED <<link, msg, srv, stopper>>
  BY <1>3 DEF ExchangeInv
<1>4. CASE repl # "kWaitReply" /\ UNCHANGED <<link, msg, srv, stopper>>
  BY <1>4 DEF ExchangeInv
<1>5. CASE Write \/ Purging \/ BgsaveCommand \/ Saver \/ MasterTimeout \/ MasterFdClosed \/ Replicate \/ Copying
  <2>1. CASE Write \/ Purging \/ BgsaveCommand
    BY <1>2, <2>1 DEF Write, Purging, PurgeStableLogs, PurgeCheck, PurgeDelete, BgsaveCommand, nodeVars, net, state,
                      client, machine
  <2>2. CASE Saver
    BY <1>2, <2>2 DEF Saver, InitBgsaveEnv, InitBgsaveEngine, CreateNewBackup, OpenInfo, SetUuid, FinishBgsave,
                      nodeVars, net, state, client, machine
  <2>3. CASE MasterTimeout \/ MasterFdClosed \/ Replicate \/ Copying
    BY <1>2, <2>3 DEF MasterTimeout, MasterFdClosed, Replicate, Copying, ThreadMain, ThreadEnd, FileUuid, CopyFile,
                      nodeVars, net, state, client, machine
  <2> QED BY <1>5, <2>1, <2>2, <2>3
<1>6. CASE \/ ActivateRsync \/ GetBgSaveMetaData \/ ComparisonUpdate \/ RsyncExited \/ TryUpdateMasterOffset
           \/ ChangeDb \/ SetProducerStatus \/ MarkTryConnect
  BY <1>3, <1>6 DEF ActivateRsync, GetBgSaveMetaData, ComparisonUpdate, RsyncExited, TryUpdateMasterOffset,
                    ChangeDb, SetProducerStatus, MarkTryConnect, nodeVars, net, client
<1>7. CASE SlaveTimeout \/ WaitDBSync
  BY <1>4, <1>7 DEF SlaveTimeout, WaitDBSync, nodeVars, net, client
<1>8. CASE HandleTrySync
  <2>1. /\ msg.type = "TrySync" /\ UNCHANGED <<link, srv, stopper, repl, aux>>
        /\ msg' \in {Msg("kOk", 0), Msg("kSyncPointBePurged", 0), NoMsg}
        /\ ~link => msg' = NoMsg
    BY <1>8 DEF HandleTrySync, Send, state, client, machine
  <2> QED BY <1>1, <2>1 DEF ExchangeInv
<1>9. CASE HandleDBSync
  BY <1>1, <1>9 DEF HandleDBSync, ExchangeInv, state, client, machine
<1>10. CASE TryDBSync
  <2>1. /\ srv # NoMsg /\ srv' = NoMsg /\ UNCHANGED <<link, stopper, repl, aux>>
        /\ msg' = IF link THEN Msg("DBSyncOk", 0) ELSE NoMsg
    BY <1>10 DEF TryDBSync, Send, state, client, machine
  <2> QED BY <1>1, <2>1 DEF ExchangeInv
<1>11. CASE ActivateSlaveBinlogSync
  <2>1. msg.type = "BinlogSync" /\ msg' = NoMsg /\ UNCHANGED <<srv, stopper, repl, aux>>
    BY <1>11 DEF ActivateSlaveBinlogSync, state, client, machine
  <2>2. link
    BY <1>1, <2>1 DEF ExchangeInv
  <2> QED BY <1>1, <2>1, <2>2 DEF ExchangeInv
<1>12. CASE LinkDown \/ Crash
  BY <1>12 DEF LinkDown, Crash, ExchangeInv
<1>13. CASE MetaSync
  <2>1. ~link /\ srv = NoMsg /\ stopper = "none" /\ UNCHANGED <<msg, srv, stopper>> /\ link'
    BY <1>13 DEF MetaSync, nodeVars, client
  <2>2. msg = NoMsg
    BY <2>1 DEF ExchangeInv
  <2> QED BY <1>1, <2>1, <2>2 DEF ExchangeInv
<1>14. CASE SlaveFdClosed
  BY <1>14 DEF SlaveFdClosed, ExchangeInv, nodeVars, net
<1>15. CASE SendTrySync \/ SendDBSync
  <2>1. /\ aux = "idle" /\ repl \in {"kTryConnect", "kTryDBSync"} /\ repl' = "kWaitReply"
        /\ UNCHANGED <<link, srv, stopper, aux>>
        /\ msg' \in {msg, Msg("TrySync", soff), Msg("DBSync", soff), NoMsg}
        /\ ~link => msg' \in {msg, NoMsg}
    BY <1>15 DEF SendTrySync, SendDBSync, Send, nodeVars, client, machine
  <2> QED BY <1>1, <2>1 DEF ExchangeInv
<1>16. CASE HandleTrySyncResponse
  <2>1. /\ msg.type \in {"kOk", "kSyncPointBePurged"} /\ msg' \in {Msg("BinlogSync", soff), NoMsg}
        /\ UNCHANGED <<link, srv, stopper, aux>>
    BY <1>16 DEF HandleTrySyncResponse, nodeVars, client, machine
  <2>2. link
    BY <1>1, <2>1 DEF ExchangeInv
  <2> QED BY <1>1, <2>1, <2>2 DEF ExchangeInv
<1>17. CASE HandleDBSyncResponse
  <2>1. /\ msg.type = "DBSyncOk" /\ msg' = NoMsg /\ stopper = "none" /\ UNCHANGED <<link, srv, aux>>
        /\ stopper' = stopper \/ repl' = repl
    BY <1>17 DEF HandleDBSyncResponse, nodeVars, machine
  <2>2. link
    BY <1>1, <2>1 DEF ExchangeInv
  <2> QED BY <1>1, <2>1, <2>2 DEF ExchangeInv
<1>18. CASE StopEnd
  <2>1. /\ stopper' = "none" /\ UNCHANGED <<link, msg, srv, aux>>
        /\ stopper = "HandleDBSyncResponse" \/ repl' = repl
    BY <1>18 DEF StopEnd, nodeVars, net, machine
  <2> QED BY <1>1, <2>1 DEF ExchangeInv
<1> QED BY <1>5, <1>6, <1>7, <1>8, <1>9, <1>10, <1>11, <1>12, <1>13, <1>14, <1>15, <1>16, <1>17, <1>18
       DEF Next, Master, Slave, Auxiliary

-----------------------------------------------------------------------------
(* The binlog files a slave needs *)

(* Only a deletion takes files away. *)
LEMMA RetainedKept ==
  ASSUME TypeOK, Next, ~PurgeDelete
  PROVE  /\ \A n : Retained(n) => n \in DOMAIN offsets' /\ offsets'[n]..pro' \subseteq files'
         /\ \A x \in Offset : x..pro \subseteq files => x..pro' \subseteq files'
<1>1. DOMAIN offsets \subseteq DOMAIN offsets' /\ \A n \in DOMAIN offsets : offsets'[n] = offsets[n] /\ offsets[n] \in Offset
  BY SavesGrow DEF TypeOK
<1>2. \/ UNCHANGED <<pro, files>>
      \/ pro' = pro + 1 /\ files' = files \cup {pro + 1}
  BY LogUnchanged DEF Write, Purging, PurgeStableLogs, PurgeCheck, masterLog
<1>3. pro \in Nat /\ \A x \in Offset : x \in Nat
  BY FullSyncAssumption DEF TypeOK, Offset
<1>4. \A x \in Offset : x..pro \subseteq files => x..pro' \subseteq files'
  <2> SUFFICES ASSUME NEW x \in Offset, x..pro \subseteq files, NEW z \in x..pro'
               PROVE  z \in files'
    OBVIOUS
  <2>1. CASE UNCHANGED <<pro, files>>
    BY <2>1
  <2>2. CASE pro' = pro + 1 /\ files' = files \cup {pro + 1}
    BY <1>3, <2>2
  <2> QED BY <1>2, <2>1, <2>2
<1> QED BY <1>1, <1>4 DEF Retained

(* The save that is offered is kept while a node is in full synchronisation. *)
LEMMA KeptOffer ==
  ASSUME TypeOK, DumpInv, FilesInv, ExchangeInv, KeptInv, Next,
         "purge" \notin broken', link', node' = "kSlaveDbSync", srv' = NoMsg, ~PurgeDelete
  PROVE  \/ saver' \in {"env", "engine"}
         \/ Retained(Len(offsets))' /\ (saver' = "idle" => uuid' = Len(offsets'))
<1>1. "purge" \notin broken
  BY LogUnchanged
<1>2. Len(offsets) \in Nat \ {0} /\ offsets \in Seq(Offset) /\ DOMAIN offsets = 1..Len(offsets) /\ pro \in Offset
  BY FullSyncAssumption DEF TypeOK
<1>3. \A n : Retained(n) => n \in DOMAIN offsets' /\ offsets'[n]..pro' \subseteq files'
  BY RetainedKept
<1>4. CASE link /\ node = "kSlaveDbSync" /\ srv = NoMsg /\ UNCHANGED dumpVars
  BY <1>1, <1>3, <1>4 DEF KeptInv, Retained, dumpVars
<1>5. CASE Write \/ PurgeStableLogs \/ PurgeCheck
  BY <1>4, <1>5 DEF Write, PurgeStableLogs, PurgeCheck, nodeVars, net
<1>6. CASE BgsaveCommand \/ InitBgsaveEnv
  BY <1>6 DEF BgsaveCommand, InitBgsaveEnv, BgSaveDB
<1>7. CASE InitBgsaveEngine
  <2>1. offsets' = Append(offsets, pro) /\ saver' = "backup" /\ pro' = pro /\ files' = files
    BY <1>7 DEF InitBgsaveEngine, masterLog
  <2>2. Len(offsets') \in DOMAIN offsets' /\ offsets'[Len(offsets')] = pro
    BY <1>2, <2>1
  <2>3. pro..pro \subseteq files
    <3>1. pro \in files /\ pro \in Nat
      BY <1>1, FullSyncAssumption DEF FilesInv, TypeOK, Offset
    <3> QED BY <3>1
  <2> QED BY <2>1, <2>2, <2>3 DEF Retained
<1>8. CASE CreateNewBackup \/ OpenInfo \/ SetUuid \/ FinishBgsave
  <2>1. /\ link /\ node = "kSlaveDbSync" /\ srv = NoMsg /\ offsets' = offsets /\ saver \notin {"idle", "env", "engine"}
        /\ saver' = "idle" => saver = "finish" /\ uuid' = uuid
    BY <1>8 DEF CreateNewBackup, OpenInfo, SetUuid, FinishBgsave, nodeVars, net
  <2>2. Retained(Len(offsets))
    BY <1>1, <2>1 DEF KeptInv
  <2>3. saver' = "idle" => uuid' = Len(offsets')
    BY <2>1 DEF DumpInv
  <2>4. Retained(Len(offsets))'
    BY <1>3, <2>1, <2>2 DEF Retained
  <2> QED BY <2>3, <2>4
<1>9. CASE HandleTrySync
  BY <1>4, <1>9 DEF HandleTrySync
<1>10. CASE HandleDBSync
  BY <1>10, MessageType DEF HandleDBSync
<1>11. CASE TryDBSync
  <2>1. UNCHANGED <<masterLog, offsets, dumpOffset, uuid>> /\ dumpOffset = offsets[Len(offsets)]
    BY <1>11 DEF TryDBSync, DumpInv
  <2>2. dumpOffset \in files => Retained(Len(offsets))'
    <3>1. dumpOffset \in files => dumpOffset..pro \subseteq files
      BY DEF FilesInv
    <3> QED BY <1>2, <2>1, <3>1 DEF Retained, masterLog
  <2>3. CASE saver = "idle" /\ NeedBgsave(srv.off)
    BY <1>11, <2>3 DEF TryDBSync, BgSaveDB, Bgsaving
  <2>4. CASE saver = "idle" /\ ~NeedBgsave(srv.off)
    <3>1. dumpOffset \in files /\ dir /\ saver' = saver
      BY <1>11, <2>4 DEF TryDBSync, NeedBgsave
    <3> QED BY <2>1, <2>2, <2>4, <3>1 DEF DumpInv
  <2>5. CASE saver # "idle"
    <3>1. saver' = saver
      BY <1>11, <2>5 DEF TryDBSync, BgSaveDB, Bgsaving
    <3>2. saver \in {"env", "engine"} \/ dumpOffset \in files
      BY <1>11, <2>5 DEF TryDBSync
    <3> QED BY <2>2, <2>5, <3>1, <3>2
  <2> QED BY <2>3, <2>4, <2>5
<1>12. CASE ActivateSlaveBinlogSync \/ MasterTimeout \/ MasterFdClosed \/ LinkDown \/ MetaSync \/ SlaveFdClosed \/ Crash
  <2>1. CASE ActivateSlaveBinlogSync
    BY <1>4, <2>1 DEF ActivateSlaveBinlogSync
  <2>2. CASE MasterTimeout \/ MasterFdClosed \/ LinkDown \/ MetaSync \/ Crash
    BY <2>2 DEF MasterTimeout, MasterFdClosed, LinkDown, MetaSync, Crash, nodeVars
  <2>3. CASE SlaveFdClosed
    BY <2>3 DEF SlaveFdClosed, net
  <2> QED BY <1>12, <2>1, <2>2, <2>3
<1>13. CASE HandleTrySyncResponse \/ HandleDBSyncResponse \/ StopEnd \/ Replicate
  BY <1>4, <1>13 DEF HandleTrySyncResponse, HandleDBSyncResponse, StopEnd, Replicate, nodeVars, net
<1>14. CASE Auxiliary
  BY <1>4, <1>14 DEF Auxiliary, SendTrySync, SendDBSync, SlaveTimeout, WaitDBSync, ActivateRsync,
         GetBgSaveMetaData, ComparisonUpdate, RsyncExited, TryUpdateMasterOffset, ChangeDb, SetProducerStatus,
         MarkTryConnect, nodeVars, net
<1>15. CASE Copying
  BY <1>4, <1>15 DEF Copying, ThreadMain, ThreadEnd, FileUuid, CopyFile, nodeVars, net
<1> QED BY <1>5, <1>6, <1>7, <1>8, <1>9, <1>10, <1>11, <1>12, <1>13, <1>14, <1>15
       DEF Next, Purging, Saver, Master, Slave

(* The save that is copied is kept. *)
LEMMA KeptCopy ==
  ASSUME TypeOK, DumpInv, ThreadInv, FilesInv, ExchangeInv, KeptInv, Next,
         "purge" \notin broken', link', node' = "kSlaveDbSync", repl' = "kWaitDBSync", ~PurgeDelete
  PROVE  /\ aux' \in {"meta", "list"} => Retained(uuid)'
         /\ rsync' # "IDLE" => Retained(round)'
<1>1. "purge" \notin broken
  BY LogUnchanged
<1>2. \A n : Retained(n) => n \in DOMAIN offsets' /\ offsets'[n]..pro' \subseteq files'
  BY RetainedKept
<1>3. CASE /\ link /\ node = "kSlaveDbSync" /\ repl = "kWaitDBSync"
           /\ UNCHANGED <<uuid, round>>
           /\ rsync' = rsync \/ rsync # "IDLE" \/ rsync' = "IDLE"
           /\ aux' = aux \/ aux \in {"meta", "list"} \/ aux' \notin {"meta", "list"}
  BY <1>1, <1>2, <1>3 DEF KeptInv, Retained
<1>4. CASE Write \/ PurgeStableLogs \/ PurgeCheck \/ BgsaveCommand
  BY <1>3, <1>4 DEF Write, PurgeStableLogs, PurgeCheck, BgsaveCommand, nodeVars, net, state, dumpVars, client, machine
<1>5. CASE InitBgsaveEnv \/ InitBgsaveEngine \/ CreateNewBackup \/ OpenInfo \/ FinishBgsave
  BY <1>3, <1>5 DEF InitBgsaveEnv, InitBgsaveEngine, CreateNewBackup, OpenInfo, FinishBgsave, nodeVars, net, state,
                    client, machine
<1>6. CASE SetUuid
  <2>1. /\ link /\ node = "kSlaveDbSync" /\ repl = "kWaitDBSync" /\ saver = "uuid" /\ uuid' = Len(offsets)
        /\ UNCHANGED <<offsets, round, rsync>>
    BY <1>6 DEF SetUuid, nodeVars, net, state, client
  <2>2. srv = NoMsg
    BY <2>1 DEF ExchangeInv
  <2>3. Retained(Len(offsets)) /\ (rsync # "IDLE" => Retained(round))
    BY <1>1, <2>1, <2>2 DEF KeptInv
  <2> QED BY <1>2, <2>1, <2>3 DEF Retained
<1>7. CASE HandleDBSync
  <2>1. msg.type = "DBSync" /\ repl = "kWaitDBSync"
    BY <1>7 DEF HandleDBSync, state
  <2> QED BY <2>1, MessageType DEF ExchangeInv, Asking
<1>8. CASE HandleTrySync \/ TryDBSync
  BY <1>3, <1>8 DEF HandleTrySync, TryDBSync, dumpVars, state, client, machine
<1>9. CASE ActivateSlaveBinlogSync
  BY <1>3, <1>9 DEF ActivateSlaveBinlogSync, dumpVars, state, client, machine
<1>10. CASE MasterTimeout \/ MasterFdClosed \/ LinkDown \/ MetaSync \/ Crash
  BY <1>10 DEF MasterTimeout, MasterFdClosed, LinkDown, MetaSync, Crash, nodeVars
<1>11. CASE SlaveFdClosed \/ HandleTrySyncResponse \/ SendTrySync \/ SendDBSync \/ SlaveTimeout \/ MarkTryConnect
  BY <1>11 DEF SlaveFdClosed, HandleTrySyncResponse, SendTrySync, SendDBSync, SlaveTimeout, MarkTryConnect
<1>12. CASE HandleDBSyncResponse
  <2>1. msg.type = "DBSyncOk" /\ aux' = aux
    BY <1>12 DEF HandleDBSyncResponse, machine
  <2>2. repl = "kWaitReply" /\ aux = "idle"
    BY <2>1, MessageType DEF ExchangeInv, Asking
  <2>3. rsync' = "IDLE"
    BY <1>12, <2>2 DEF HandleDBSyncResponse
  <2> QED BY <2>1, <2>2, <2>3
<1>13. CASE StopEnd
  <2>1. rsync' = "IDLE" /\ aux' = aux /\ UNCHANGED <<uuid, round>> /\ link /\ node = "kSlaveDbSync"
    BY <1>13 DEF StopEnd, machine, dumpVars, nodeVars, net
  <2>2. CASE stopper = "HandleDBSyncResponse"
    BY <2>1, <2>2 DEF ExchangeInv
  <2>3. CASE stopper # "HandleDBSyncResponse"
    BY <1>3, <1>13, <2>1, <2>3 DEF StopEnd
  <2> QED BY <2>2, <2>3
<1>14. CASE Replicate \/ WaitDBSync \/ GetBgSaveMetaData \/ RsyncExited \/ TryUpdateMasterOffset \/ ChangeDb
            \/ SetProducerStatus
  BY <1>3, <1>14 DEF Replicate, WaitDBSync, GetBgSaveMetaData, RsyncExited, TryUpdateMasterOffset, ChangeDb,
                     SetProducerStatus, dumpVars, nodeVars, net, state, client, machine
<1>15. CASE ActivateRsync
  <2>1. /\ link /\ node = "kSlaveDbSync" /\ repl = "kWaitDBSync" /\ UNCHANGED <<uuid, rsync, round, offsets>>
        /\ aux' \in {"meta", "list"} => saver = "idle"
    BY <1>15 DEF ActivateRsync, Bgsaving, dumpVars, nodeVars, net, state, client
  <2>2. srv = NoMsg
    BY <2>1 DEF ExchangeInv
  <2>3. rsync # "IDLE" => Retained(round)
    BY <1>1, <2>1 DEF KeptInv
  <2>4. saver = "idle" => Retained(uuid)
    BY <1>1, <2>1, <2>2 DEF KeptInv
  <2> QED BY <1>2, <2>1, <2>3, <2>4 DEF Retained
<1>16. CASE ComparisonUpdate
  <2>1. /\ link /\ node = "kSlaveDbSync" /\ repl = "kWaitDBSync" /\ round' = uuid /\ aux = "list" /\ aux' = "check"
    BY <1>16 DEF ComparisonUpdate, nodeVars, net, state
  <2>2. Retained(uuid)
    BY <1>1, <2>1 DEF KeptInv
  <2> QED BY <1>2, <2>1, <2>2 DEF Retained
<1>17. CASE ThreadMain \/ ThreadEnd
  <2>1. UNCHANGED <<link, node, repl, uuid, round, aux>> /\ (rsync' = rsync \/ rsync # "IDLE")
    BY <1>17 DEF ThreadMain, ThreadEnd, ThreadInv, dumpVars, nodeVars, net, state, machine
  <2> QED BY <1>3, <2>1
<1>18. ASSUME NEW w \in Workers, FileUuid(w) \/ CopyFile(w)
       PROVE  /\ aux' \in {"meta", "list"} => Retained(uuid)'
              /\ rsync' # "IDLE" => Retained(round)'
  <2>1. UNCHANGED <<link, node, repl, uuid, round, aux>> /\ (rsync' = rsync \/ rsync # "IDLE")
    BY <1>18 DEF FileUuid, CopyFile, ThreadInv, dumpVars, nodeVars, net, state, machine
  <2> QED BY <1>3, <2>1
<1> QED BY <1>4, <1>5, <1>6, <1>7, <1>8, <1>9, <1>10, <1>11, <1>12, <1>13, <1>14, <1>15, <1>16, <1>17, <1>18
       DEF Next, Purging, Saver, Master, Slave, Auxiliary, Copying

(* What comes after an acknowledged offset is kept. *)
LEMMA KeptAcked ==
  ASSUME TypeOK, FilesInv, KeptInv, Next, "purge" \notin broken', link', node' = "kSlaveBinlogSync", ~PurgeDelete
  PROVE  acked'..pro' \subseteq files'
<1>1. "purge" \notin broken
  BY LogUnchanged
<1>2. \A x \in Offset : x..pro \subseteq files => x..pro' \subseteq files'
  BY RetainedKept
<1>3. CASE link /\ node = "kSlaveBinlogSync" /\ acked' = acked
  BY <1>1, <1>2, <1>3 DEF KeptInv, TypeOK
<1>4. CASE acked' \in files
  BY <1>2, <1>4 DEF FilesInv, TypeOK
<1>5. CASE Write \/ PurgeStableLogs \/ PurgeCheck \/ BgsaveCommand
  BY <1>3, <1>5 DEF Write, PurgeStableLogs, PurgeCheck, BgsaveCommand, nodeVars, net
<1>6. CASE Saver
  BY <1>3, <1>6 DEF Saver, InitBgsaveEnv, InitBgsaveEngine, CreateNewBackup, OpenInfo, SetUuid, FinishBgsave,
                    nodeVars, net
<1>7. CASE HandleTrySync \/ TryDBSync
  BY <1>3, <1>7 DEF HandleTrySync, TryDBSync
<1>8. CASE HandleDBSync \/ MasterTimeout \/ MasterFdClosed \/ LinkDown \/ MetaSync \/ Crash
  BY <1>8 DEF HandleDBSync, MasterTimeout, MasterFdClosed, LinkDown, MetaSync, Crash, nodeVars
<1>9. CASE ActivateSlaveBinlogSync
  <2>1. CASE node = "none"
    BY <1>9, <2>1 DEF ActivateSlaveBinlogSync
  <2>2. CASE node # "none"
    BY <1>4, <1>9, <2>2 DEF ActivateSlaveBinlogSync
  <2> QED BY <2>1, <2>2
<1>10. CASE Replicate
  BY <1>4, <1>10 DEF Replicate
<1>11. CASE SlaveFdClosed \/ HandleTrySyncResponse \/ HandleDBSyncResponse \/ StopEnd
  BY <1>3, <1>11 DEF SlaveFdClosed, HandleTrySyncResponse, HandleDBSyncResponse, StopEnd, nodeVars, net
<1>12. CASE Auxiliary
  BY <1>3, <1>12 DEF Auxiliary, SendTrySync, SendDBSync, SlaveTimeout, WaitDBSync, ActivateRsync,
         GetBgSaveMetaData, ComparisonUpdate, RsyncExited, TryUpdateMasterOffset, ChangeDb, SetProducerStatus,
         MarkTryConnect, nodeVars, net
<1>13. CASE Copying
  BY <1>3, <1>13 DEF Copying, ThreadMain, ThreadEnd, FileUuid, CopyFile, nodeVars, net
<1> QED BY <1>5, <1>6, <1>7, <1>8, <1>9, <1>10, <1>11, <1>12, <1>13 DEF Next, Purging, Master, Slave

(* A purge that finds the check still true when it deletes takes nothing a   *)
(* slave needs; nothing else takes files away.                               *)
LEMMA KeptStep ==
  ASSUME TypeOK, DumpInv, ThreadInv, FilesInv, ExchangeInv, KeptInv, Next
  PROVE  KeptInv'
<1> SUFFICES ASSUME "purge" \notin broken', link'
             PROVE  /\ node' = "kSlaveDbSync" /\ srv' = NoMsg =>
                         \/ saver' \in {"env", "engine"}
                         \/ Retained(Len(offsets))' /\ (saver' = "idle" => uuid' = Len(offsets'))
                    /\ node' = "kSlaveDbSync" /\ repl' = "kWaitDBSync" =>
                         /\ aux' \in {"meta", "list"} => Retained(uuid)'
                         /\ rsync' # "IDLE" => Retained(round)'
                    /\ node' = "kSlaveBinlogSync" => acked'..pro' \subseteq files'
  BY DEF KeptInv
<1>1. CASE PurgeDelete
  <2> DEFINE oldest == Min(purge.rest)
  <2>1. /\ link /\ files' = files \ {oldest} /\ UNCHANGED <<pro, node, acked>> /\ purge.pc = "delete"
        /\ broken' = IF BinlogCloudPurge(oldest) THEN broken ELSE broken \cup {"purge"}
    BY <1>1 DEF PurgeDelete, nodeVars, net
  <2>2. BinlogCloudPurge(oldest) /\ "purge" \notin broken
    BY <2>1
  <2>3. oldest \in Nat
    BY <2>1, OldestFacts DEF FilesInv
  <2> HIDE DEF oldest
  <2>4. node # "kSlaveDbSync" /\ (node = "kSlaveBinlogSync" => oldest < acked /\ acked..pro \subseteq files)
    BY <2>1, <2>2 DEF BinlogCloudPurge, KeptInv
  <2>5. acked \in Nat /\ pro \in Nat
    BY FullSyncAssumption DEF TypeOK, Offset
  <2>6. node = "kSlaveBinlogSync" => acked..pro \subseteq files \ {oldest}
    BY <2>3, <2>4, <2>5
  <2> QED BY <2>1, <2>4, <2>6
<1>2. CASE ~PurgeDelete
  BY <1>2, KeptOffer, KeptCopy, KeptAcked
<1> QED BY <1>1, <1>2

-----------------------------------------------------------------------------
(* The copy *)

(* A finished dump is all there. *)
LEMMA DumpComplete ==
  ASSUME TypeOK, DumpInv, dump["info"] \notin {Absent, Empty}
  PROVE  uuid # 0 /\ \A f \in Files : dump[f] = uuid
<1>1. "info" \in Files
  BY FileFacts
<1>2. dump # NoFiles
  BY <1>1 DEF NoFiles
<1>3. saver \in {"idle", "env"}
  BY <1>2 DEF DumpInv, TypeOK
<1>4. dump = [f \in Files |-> uuid] /\ uuid # 0
  BY <1>2, <1>3, Zenon DEF DumpInv
<1> QED BY <1>4

(* The number of a save is neither that of no file nor that of an empty one. *)
LEMMA SaveNumbers ==
  ASSUME TypeOK, DumpInv, ThreadInv
  PROVE  /\ uuid \in Nat /\ uuid # Empty /\ round \in Nat /\ round # Empty /\ Absent = 0
         /\ Empty \notin DOMAIN offsets /\ Absent \notin DOMAIN offsets
         /\ round # 0 => round \in DOMAIN offsets
<1>1. MaxSaves \in Nat /\ Len(offsets) \in 1..MaxSaves /\ DOMAIN offsets = 1..Len(offsets)
      /\ uuid \in 0..MaxSaves /\ round \in 0..MaxSaves
  BY FullSyncAssumption DEF TypeOK
<1>2. round <= uuid /\ uuid <= Len(offsets)
  BY DEF ThreadInv, DumpInv
<1> QED BY <1>1, <1>2 DEF Empty, Absent

(* A dump that is offered has no file missing. *)
LEMMA OfferedComplete ==
  ASSUME TypeOK, DumpInv, ThreadInv, uuid # 0,
         dump["info"] = uuid \/ (saver = "finish" /\ \A f \in Data : dump[f] # Absent)
  PROVE  FilesThere = Files
<1>1. \A f \in Data : dump[f] # Absent
  <2>1. CASE dump["info"] = uuid
    <3>1. \A f \in Files : dump[f] = uuid
      BY <2>1, SaveNumbers, DumpComplete
    <3> QED BY <3>1, SaveNumbers, FileFacts
  <2> QED BY <2>1
<1> QED BY <1>1, FileFacts DEF FilesThere

(* A copy under way is not offered again what it has lost. *)
LEMMA OfferedBack ==
  ASSUME TypeOK, DumpInv, ThreadInv, Next, round' = round, Offered'
  PROVE  Offered
<1>1. /\ "info" \in Files /\ "info" \notin Data /\ dump \in [Files -> Content]
      /\ uuid \in Nat /\ uuid # Empty /\ round \in Nat /\ round <= uuid /\ Absent = 0 /\ Len(offsets) \in Nat
  <2>1. "info" \in Files /\ "info" \notin Data
    BY FileFacts
  <2>2. uuid \in Nat /\ uuid # Empty /\ round \in Nat /\ Absent = 0
    BY SaveNumbers
  <2>3. round <= uuid
    BY DEF ThreadInv
  <2>4. dump \in [Files -> Content] /\ Len(offsets) \in Nat
    BY DEF TypeOK
  <2> QED BY <2>1, <2>2, <2>3, <2>4
<1>2. /\ round = uuid' /\ uuid' # 0
      /\ dump'["info"] = uuid' \/ (saver' = "finish" /\ \A f \in Data : dump'[f] # Absent)
  BY DEF Offered
<1>3. CASE BgsaveCommand \/ TryDBSync
  <2>1. UNCHANGED <<dump, uuid>> /\ (saver' = saver \/ saver' = "env")
    BY <1>3 DEF BgsaveCommand, TryDBSync, BgSaveDB
  <2> QED BY <1>2, <2>1 DEF Offered
<1>4. CASE InitBgsaveEnv \/ InitBgsaveEngine
  <2>1. uuid' = uuid /\ dump' = NoFiles /\ saver' # "finish"
    BY <1>4 DEF InitBgsaveEnv, InitBgsaveEngine, DumpInv
  <2> QED BY <1>1, <1>2, <2>1 DEF NoFiles
<1>5. CASE CreateNewBackup
  <2>1. uuid' = uuid /\ saver' \in {"info", "backup"} /\ DumpInv'
    BY <1>5, DumpStep DEF CreateNewBackup
  <2>2. dump'["info"] = Absent
    BY <2>1 DEF DumpInv
  <2> QED BY <1>1, <1>2, <2>1, <2>2
<1>6. CASE OpenInfo
  <2>1. uuid' = uuid /\ saver' = "uuid" /\ dump' = [dump EXCEPT !["info"] = Empty]
    BY <1>6 DEF OpenInfo
  <2> QED BY <1>1, <1>2, <2>1
<1>7. CASE SetUuid
  <2>1. uuid' = Len(offsets) /\ uuid < Len(offsets)
    BY <1>7 DEF SetUuid, DumpInv
  <2> QED BY <1>1, <1>2, <2>1
<1>8. CASE FinishBgsave
  <2>1. uuid' = uuid /\ saver = "finish" /\ saver' = "idle"
    BY <1>8 DEF FinishBgsave
  <2>2. CASE \E f \in Data : dump[f] = Absent
    <3>1. dump' = NoFiles
      BY <1>8, <2>2 DEF FinishBgsave
    <3> QED BY <1>1, <1>2, <2>1, <3>1 DEF NoFiles
  <2>3. CASE ~(\E f \in Data : dump[f] = Absent)
    BY <1>2, <2>1, <2>3 DEF Offered
  <2> QED BY <2>2, <2>3
<1>9. CASE UNCHANGED dumpVars
  BY <1>2, <1>9 DEF dumpVars, Offered
<1> QED BY <1>3, <1>4, <1>5, <1>6, <1>7, <1>8, <1>9, DumpUnchanged DEF Saver

(* The steps that neither copy nor install. *)
Quiet ==
  \/ Write \/ Purging \/ BgsaveCommand \/ Saver \/ Master \/ LinkDown \/ MetaSync
  \/ HandleTrySyncResponse \/ Replicate \/ SendTrySync \/ SlaveTimeout \/ WaitDBSync \/ ActivateRsync
  \/ MarkTryConnect

LEMMA QuietStep ==
  ASSUME Quiet
  PROVE  /\ UNCHANGED <<client, listing, found, local, base, from>>
         /\ Current' => Current
         /\ aux' = aux \/ (aux' \notin {"install", "rename", "offset"} /\ aux \notin {"rename", "offset"})
<1>1. CASE Write \/ Purging \/ BgsaveCommand \/ Saver \/ Master \/ LinkDown \/ MetaSync
  <2>1. UNCHANGED <<client, machine, local, database>>
    BY <1>1, ClientUnchanged
  <2>2. repl' = repl \/ repl' # "kWaitDBSync"
    <3>1. CASE Write \/ Purging \/ BgsaveCommand \/ Saver
      BY <3>1 DEF Write, Purging, PurgeStableLogs, PurgeCheck, PurgeDelete, BgsaveCommand, Saver, InitBgsaveEnv,
                  InitBgsaveEngine, CreateNewBackup, OpenInfo, SetUuid, FinishBgsave, state
    <3>2. CASE Master
      BY <3>2 DEF Master, HandleTrySync, HandleDBSync, TryDBSync, ActivateSlaveBinlogSync, MasterTimeout,
                  MasterFdClosed, state
    <3>3. CASE LinkDown \/ MetaSync
      BY <3>3 DEF LinkDown, MetaSync, state
    <3> QED BY <1>1, <3>1, <3>2, <3>3
  <2> QED BY <2>1, <2>2 DEF machine, database, Current
<1>2. CASE HandleTrySyncResponse \/ Replicate \/ SendTrySync \/ SlaveTimeout
  BY <1>2 DEF HandleTrySyncResponse, Replicate, SendTrySync, SlaveTimeout, state, machine, database, Current
<1>3. CASE WaitDBSync \/ ActivateRsync \/ MarkTryConnect
  BY <1>3 DEF WaitDBSync, ActivateRsync, MarkTryConnect, state, database, Current
<1> QED BY <1>1, <1>2, <1>3 DEF Quiet

(* Dumps stay what they were. *)
LEMMA SavesKept ==
  ASSUME TypeOK, Next
  PROVE  /\ local' = local /\ Copied => Copied'
         /\ UNCHANGED <<base, from>> /\ Matched => Matched'
BY SavesGrow DEF Copied, Matched

LEMMA CopyQuiet ==
  ASSUME TypeOK, DumpInv, ThreadInv, CopyInv, Next, Sound, Quiet
  PROVE  CopyInv'
<1>1. /\ UNCHANGED <<client, listing, found, local, base, from>> /\ (Current' => Current)
      /\ aux' = aux \/ (aux' \notin {"install", "rename", "offset"} /\ aux \notin {"rename", "offset"})
  BY QuietStep
<1>2. UNCHANGED <<rsync, thread, round, todo, stopper>>
  BY <1>1 DEF client
<1>3. thread' # "none" => "info" \in listing' /\ (Offered' => listing' = Files)
  BY <1>1, <1>2, OfferedBack DEF CopyInv
<1>4. thread' # "none" /\ Current' => Progress'
  BY <1>1, <1>2 DEF CopyInv, Progress
<1>5. rsync' = "STOP" /\ thread' = "none" /\ stopper' = "none" /\ Current' => Copied'
  BY <1>1, <1>2, SavesKept DEF CopyInv
<1>6. /\ aux' \in {"install", "rename"} => thread' = "none"
      /\ aux' = "install" => Copied'
      /\ aux' \notin {"rename", "offset"} => Matched'
  BY <1>1, <1>2, SavesKept DEF CopyInv
<1>7. /\ aux' = "rename" => found' \in DOMAIN offsets' /\ \A f \in Data : local'[f] = found'
      /\ aux' = "offset" => found' \in DOMAIN offsets' /\ \A f \in Data : base'[f] = found'
  BY <1>1, SavesGrow DEF CopyInv
<1> QED BY <1>3, <1>4, <1>5, <1>6, <1>7 DEF CopyInv

(* The steps that stop the copy. *)
LEMMA CopyStop ==
  ASSUME TypeOK, DumpInv, ThreadInv, CopyInv, Next, Sound,
         SlaveFdClosed \/ HandleDBSyncResponse \/ StopEnd \/ SendDBSync
  PROVE  CopyInv'
<1>1. UNCHANGED <<dumpVars, thread, round, todo, machine, database>>
  BY DEF SlaveFdClosed, HandleDBSyncResponse, StopEnd, SendDBSync, client
<1>2. thread' # "none" => "info" \in listing' /\ (Offered' => listing' = Files)
  BY <1>1, OfferedBack DEF CopyInv, machine
<1>3. /\ aux' \in {"install", "rename"} => thread' = "none"
      /\ aux' = "offset" => found' \in DOMAIN offsets' /\ \A f \in Data : base'[f] = found'
  BY <1>1 DEF CopyInv, machine, database, dumpVars
<1>4. aux' \notin {"rename", "offset"} => Matched'
  BY <1>1, SavesKept DEF CopyInv, machine, database
<1>5. CASE SendDBSync
  <2>1. aux' = "idle" /\ repl' = "kWaitReply"
    BY <1>5 DEF SendDBSync, machine
  <2> QED BY <1>2, <1>3, <1>4, <2>1 DEF CopyInv, Current
<1>6. CASE SlaveFdClosed \/ HandleDBSyncResponse \/ StopEnd
  <2>1. local' = local
    BY <1>6 DEF SlaveFdClosed, HandleDBSyncResponse, StopEnd
  <2>2. thread' # "none" /\ Current' => Current
    BY <1>6 DEF SlaveFdClosed, HandleDBSyncResponse, StopEnd, machine, Current, ThreadInv
  <2>3. thread' # "none" /\ Current' => Progress'
    BY <1>1, <2>1, <2>2 DEF CopyInv, Progress, machine
  <2>4. ~(rsync' = "STOP" /\ stopper' = "none")  \/ (UNCHANGED <<rsync, stopper, repl, aux>>)
    BY <1>6 DEF SlaveFdClosed, HandleDBSyncResponse, StopEnd, machine, ThreadInv
  <2>5. rsync' = "STOP" /\ thread' = "none" /\ stopper' = "none" /\ Current' => Copied'
    BY <1>1, <2>1, <2>4, SavesKept DEF CopyInv, Current
  <2>6. /\ aux' = "install" => Copied'
        /\ aux' = "rename" => found' \in DOMAIN offsets' /\ \A f \in Data : local'[f] = found'
    BY <1>1, <2>1, SavesKept DEF CopyInv, machine, dumpVars
  <2> QED BY <1>2, <1>3, <1>4, <2>3, <2>5, <2>6 DEF CopyInv
<1> QED BY <1>5, <1>6

(* The steps that begin a copy. *)
LEMMA CopyBegin ==
  ASSUME TypeOK, DumpInv, ThreadInv, CopyInv, Next, Sound', Sound,
         GetBgSaveMetaData \/ ComparisonUpdate \/ ThreadMain
  PROVE  CopyInv'
<1>1. CASE GetBgSaveMetaData
  <2>1. aux = "meta" /\ aux' = "list" /\ UNCHANGED <<client, database>>
    BY <1>1 DEF GetBgSaveMetaData
  <2>2. thread' = "none"
    BY <2>1 DEF ThreadInv, client
  <2>3. Matched'
    BY <2>1, SavesKept DEF CopyInv, database
  <2> QED BY <2>1, <2>2, <2>3 DEF CopyInv, Current
<1>2. CASE ComparisonUpdate
  <2>1. /\ aux = "list" /\ aux' = "check" /\ round' = uuid /\ local' = NoFiles /\ thread' = "started"
        /\ todo' = [w \in Workers |-> FilesOf(w, listing)] /\ listing' = listing
        /\ UNCHANGED <<dumpVars, database>>
        /\ listing = FilesThere
    BY <1>2 DEF ComparisonUpdate, Sound
  <2>2. "info" \in listing'
    BY <2>1 DEF FilesThere
  <2>3. Offered' => listing' = Files
    BY <2>1, OfferedComplete DEF Offered, dumpVars
  <2>4. Progress'
    <3>1. \A f \in listing : \E w \in Workers : f \in FilesOf(w, listing)
      BY FilesOfFacts DEF TypeOK
    <3>2. local'["info"] = 0
      BY <2>1, FileFacts DEF NoFiles, Absent
    <3> QED BY <2>1, <3>1, <3>2 DEF Progress
  <2>5. Matched'
    BY <2>1, SavesKept DEF CopyInv, database
  <2> QED BY <2>1, <2>2, <2>3, <2>4, <2>5 DEF CopyInv
<1>3. CASE ThreadMain
  <2>1. /\ thread = "started" /\ thread' = "main" /\ UNCHANGED <<dumpVars, rsync, round, todo, stopper, machine, local, database, repl>>
    BY <1>3 DEF ThreadMain, state
  <2>2. Progress' \/ ~Current'
    BY <2>1 DEF CopyInv, Progress, machine, Current
  <2>3. "info" \in listing' /\ (Offered' => listing' = Files)
    BY <2>1, OfferedBack DEF CopyInv, machine
  <2>4. /\ aux' \notin {"install", "rename"}
        /\ aux' = "offset" => found' \in DOMAIN offsets' /\ \A f \in Data : base'[f] = found'
    BY <2>1 DEF CopyInv, machine, database, dumpVars
  <2>5. aux' \notin {"rename", "offset"} => Matched'
    BY <2>1, SavesKept DEF CopyInv, machine, database
  <2> QED BY <2>1, <2>2, <2>3, <2>4, <2>5 DEF CopyInv
<1> QED BY <1>1, <1>2, <1>3

(* A worker copies a file. *)
LEMMA CopyWorker ==
  ASSUME TypeOK, DumpInv, ThreadInv, CopyInv, Next, Sound', Sound, NEW w \in Workers,
         FileUuid(w) \/ CopyFile(w)
  PROVE  CopyInv'
<1> DEFINE f0 == First(todo[w])
<1>1. thread = "main" /\ todo[w] # {} /\ todo[w] \in SUBSET Files
  BY DEF FileUuid, CopyFile, ThreadInv, TypeOK
<1>2. f0 \in todo[w] /\ f0 \in Files
  BY <1>1, FirstFacts
<1>3. UNCHANGED <<dumpVars, thread, round, stopper, machine, database, repl>>
  BY DEF FileUuid, CopyFile, state
<1>4. /\ local \in [Files -> Content] /\ listing \subseteq Files /\ "info" \in Files /\ todo \in [Workers -> SUBSET Files]
      /\ round # Empty /\ Absent = 0
  BY FileFacts, SaveNumbers DEF TypeOK
<1> HIDE DEF f0
<1>5. \/ todo' = todo /\ local' = local
      \/ todo' = todo /\ \E c \in {Empty, Absent} : local' = [local EXCEPT ![f0] = c]
      \/ todo' = [todo EXCEPT ![w] = @ \ {f0}] /\ local' = [local EXCEPT ![f0] = round] /\ dump[f0] = round
         /\ dump[f0] # Absent
  <2>1. CASE FileUuid(w)
    BY <2>1 DEF FileUuid, f0
  <2>2. CASE CopyFile(w)
    <3>1. CASE dump[f0] = Absent /\ local' = [local EXCEPT ![f0] = Absent] /\ todo' = todo
      BY <3>1
    <3>2. CASE UNCHANGED <<todo, local>>
      BY <3>2
    <3>3. CASE /\ dump[f0] # Absent /\ SameDump(w)
               /\ local' = [local EXCEPT ![f0] = dump[f0]]
               /\ todo' = [todo EXCEPT ![w] = @ \ {f0}]
               /\ broken' = IF got[w] = round /\ dump[f0] # round THEN broken \cup {"stale"} ELSE broken
      <4>1. dump[f0] = round
        BY <3>3 DEF SameDump, Sound
      <4> QED BY <3>3, <4>1
    <3> QED BY <2>2, <3>1, <3>2, <3>3 DEF CopyFile, f0
  <2> QED BY <2>1, <2>2
<1>6. "info" \in listing' /\ (Offered' => listing' = Files)
  BY <1>1, <1>3, OfferedBack DEF CopyInv, machine
<1>7. ASSUME Current'
      PROVE  Progress'
  <2>1. Progress /\ listing' = listing /\ round' = round
    BY <1>1, <1>3, <1>7 DEF CopyInv, Current, machine
  <2>2. CASE todo' = todo /\ local' = local
    BY <2>1, <2>2 DEF Progress
  <2>3. ASSUME todo' = todo, NEW c \in {Empty, Absent}, local' = [local EXCEPT ![f0] = c]
        PROVE  Progress'
    <3>1. \A f \in listing : local'[f] = round \/ \E v \in Workers : f \in todo'[v]
      BY <1>2, <1>4, <2>1, <2>3 DEF Progress
    <3>2. local'["info"] = round /\ round # 0 => listing = Files
      BY <1>4, <2>1, <2>3 DEF Progress
    <3> QED BY <2>1, <3>1, <3>2 DEF Progress
  <2>4. CASE todo' = [todo EXCEPT ![w] = @ \ {f0}] /\ local' = [local EXCEPT ![f0] = round] /\ dump[f0] = round
             /\ dump[f0] # Absent
    <3>1. \A f \in listing : local'[f] = round \/ \E v \in Workers : f \in todo'[v]
      <4> SUFFICES ASSUME NEW f \in listing, f # f0
                   PROVE  local'[f] = round \/ \E v \in Workers : f \in todo'[v]
        BY <1>2, <1>4, <2>4
      <4>1. CASE local[f] = round
        BY <1>4, <2>4, <4>1
      <4>2. ASSUME NEW v \in Workers, f \in todo[v]
            PROVE  f \in todo'[v]
        BY <1>4, <2>4, <4>2
      <4> QED BY <2>1, <4>1, <4>2 DEF Progress
    <3>2. CASE f0 = "info"
      <4>1. uuid # 0 /\ dump["info"] = uuid
        BY <1>4, <2>4, <3>2, DumpComplete
      <4>2. Offered
        BY <2>4, <3>2, <4>1 DEF Offered
      <4>3. listing = Files
        BY <1>1, <4>2 DEF CopyInv
      <4> QED BY <2>1, <3>1, <4>3 DEF Progress
    <3>3. CASE f0 # "info"
      <4>1. local'["info"] = local["info"]
        BY <1>4, <2>4, <3>3
      <4> QED BY <2>1, <3>1, <4>1 DEF Progress
    <3> QED BY <3>2, <3>3
  <2> QED BY <1>5, <2>2, <2>3, <2>4
<1>8. /\ aux' \notin {"install", "rename"} /\ thread' # "none"
      /\ aux' = "offset" => found' \in DOMAIN offsets' /\ \A f \in Data : base'[f] = found'
  BY <1>1, <1>3 DEF CopyInv, machine, database, dumpVars
<1>9. aux' \notin {"rename", "offset"} => Matched'
  BY <1>3, SavesKept DEF CopyInv, machine, database
<1> QED BY <1>6, <1>7, <1>8, <1>9 DEF CopyInv

(* The threads end: a copy that nobody stopped and that met no error is      *)
(* complete.                                                                 *)
LEMMA CopyEnd ==
  ASSUME TypeOK, DumpInv, ThreadInv, CopyInv, Next, Sound, ThreadEnd
  PROVE  CopyInv'
<1>1. /\ thread = "main" /\ thread' = "none" /\ UNCHANGED <<dumpVars, stopper, machine, database, repl>>
      /\ local' = IF errorStopped THEN NoFiles ELSE local
      /\ \A w \in Workers : Finished(w)
  BY DEF ThreadEnd, CleanUp, state
<1>2. ASSUME stopper' = "none", Current'
      PROVE  Copied'
  <2>1. CASE errorStopped
    <3>1. local'["info"] = Absent
      BY <1>1, <2>1, FileFacts DEF NoFiles
    <3> QED BY <3>1 DEF Copied
  <2>2. CASE ~errorStopped
    <3>1. rsync = "RUNNING" /\ local' = local
      BY <1>1, <1>2, <2>2 DEF ThreadInv, TypeOK
    <3>2. \A w \in Workers : todo[w] = {}
      BY <1>1, <3>1 DEF Finished
    <3>3. Progress /\ "info" \in listing
      BY <1>1, <1>2 DEF CopyInv, Current, machine
    <3>4. \A f \in listing : local[f] = round
      BY <3>2, <3>3 DEF Progress
    <3>5. CASE round = 0
      BY <3>1, <3>3, <3>4, <3>5 DEF Copied, Absent
    <3>6. CASE round # 0
      <4>1. listing = Files
        BY <3>3, <3>4, <3>6 DEF Progress
      <4>2. round \in DOMAIN offsets
        BY <3>6, SaveNumbers
      <4>3. Copied
        BY <3>4, <4>1, <4>2 DEF Copied
      <4> QED BY <3>1, <4>3, SavesKept
    <3> QED BY <3>5, <3>6
  <2> QED BY <2>1, <2>2
<1>3. /\ aux' \notin {"install", "rename"}
      /\ aux' = "offset" => found' \in DOMAIN offsets' /\ \A f \in Data : base'[f] = found'
  BY <1>1 DEF CopyInv, machine, database, dumpVars
<1>4. aux' \notin {"rename", "offset"} => Matched'
  BY <1>1, SavesKept DEF CopyInv, machine, database
<1> QED BY <1>1, <1>2, <1>3, <1>4 DEF CopyInv

(* The state machine installs the copy. *)
LEMMA CopyInstall ==
  ASSUME TypeOK, DumpInv, ThreadInv, CopyInv, Next, Sound', Sound,
         RsyncExited \/ TryUpdateMasterOffset \/ ChangeDb \/ SetProducerStatus
  PROVE  CopyInv'
<1>1. UNCHANGED <<dumpVars, repl, client, listing>>
  BY DEF RsyncExited, TryUpdateMasterOffset, ChangeDb, SetProducerStatus, state
<1>2. thread' # "none" => "info" \in listing' /\ (Offered' => listing' = Files)
  BY <1>1, OfferedBack DEF CopyInv, client
<1>3. "info" \in Files /\ "info" \notin Data /\ Data \subseteq Files /\ local \in [Files -> Content]
  BY FileFacts DEF TypeOK
<1>4. CASE RsyncExited
  <2>1. aux = "check" /\ UNCHANGED <<local, database>>
    BY <1>4 DEF RsyncExited
  <2>2. Matched'
    BY <2>1, SavesKept DEF CopyInv, database
  <2>3. CASE rsync = "STOP" /\ exited
    <3>1. aux' = "install" /\ stopper = "none"
      BY <1>4, <2>3 DEF RsyncExited, Sound
    <3>2. thread = "none"
      BY <2>3, <3>1 DEF ThreadInv, TypeOK
    <3>3. Copied
      BY <2>1, <2>3, <3>1, <3>2 DEF CopyInv, Current
    <3>4. Copied' /\ thread' = "none"
      BY <1>1, <2>1, <3>2, <3>3, SavesKept DEF client
    <3> QED BY <2>2, <3>1, <3>4 DEF CopyInv, Current
  <2>4. CASE ~(rsync = "STOP" /\ exited)
    <3>1. aux' = "idle"
      BY <1>4, <2>4 DEF RsyncExited
    <3>2. Current
      BY <2>1 DEF Current
    <3>3. thread' # "none" => Progress'
      BY <1>1, <2>1, <3>2 DEF CopyInv, Progress, client
    <3>4. rsync' = "STOP" /\ thread' = "none" /\ stopper' = "none" => Copied'
      BY <1>1, <2>1, <3>2, SavesKept DEF CopyInv, client
    <3> QED BY <1>2, <2>2, <3>1, <3>3, <3>4 DEF CopyInv
  <2> QED BY <2>3, <2>4
<1>5. CASE TryUpdateMasterOffset
  <2>1. aux = "install" /\ UNCHANGED from
    BY <1>5 DEF TryUpdateMasterOffset
  <2>2. CASE local["info"] = Absent
    <3>1. aux' = "mark" /\ UNCHANGED <<base, from>>
      BY <1>5, <2>2 DEF TryUpdateMasterOffset
    <3>2. Matched'
      BY <2>1, <3>1, SavesKept DEF CopyInv
    <3> QED BY <1>2, <3>1, <3>2 DEF CopyInv, Current
  <2>3. CASE local["info"] # Absent
    <3>1. found' = local["info"] /\ local' = [local EXCEPT !["info"] = Absent] /\ aux' = "rename"
      BY <1>5, <2>3 DEF TryUpdateMasterOffset
    <3>2. thread' = "none"
      BY <1>1, <2>1 DEF CopyInv, client
    <3>3. PICK n \in DOMAIN offsets : \A f \in Files : local[f] = n
      BY <2>1, <2>3 DEF CopyInv, Copied
    <3>4. found' \in DOMAIN offsets' /\ \A f \in Data : local'[f] = found'
      BY <1>1, <1>3, <3>1, <3>3 DEF dumpVars
    <3> QED BY <3>1, <3>2, <3>4 DEF CopyInv, Current
  <2> QED BY <2>2, <2>3
<1>6. CASE ChangeDb
  <2>1. aux = "rename" /\ aux' = "offset" /\ base' = [f \in Data |-> local[f]] /\ found' = found
    BY <1>6 DEF ChangeDb
  <2>2. found' \in DOMAIN offsets' /\ \A f \in Data : base'[f] = found'
    BY <1>1, <2>1 DEF CopyInv, dumpVars
  <2> QED BY <1>2, <2>1, <2>2 DEF CopyInv, Current
<1>7. CASE SetProducerStatus
  <2>1. aux = "offset" /\ aux' = "mark" /\ from' = InfoOffset(found) /\ base' = base
    BY <1>7 DEF SetProducerStatus
  <2>2. found \in DOMAIN offsets /\ \A f \in Data : base[f] = found
    BY <2>1 DEF CopyInv
  <2>3. from' = offsets[found]
    BY <2>1, <2>2, SaveNumbers DEF InfoOffset
  <2>4. Matched'
    BY <1>1, <2>1, <2>2, <2>3 DEF Matched, dumpVars
  <2> QED BY <1>2, <2>1, <2>4 DEF CopyInv, Current
<1> QED BY <1>4, <1>5, <1>6, <1>7

(* Whatever fails, what becomes the database is one complete dump. *)
LEMMA CopyStep ==
  ASSUME TypeOK, DumpInv, ThreadInv, CopyInv, Next
  PROVE  CopyInv'
<1> SUFFICES ASSUME Sound'
             PROVE  CopyInv'
  BY DEF CopyInv
<1>1. Sound
  BY LogUnchanged DEF Sound
<1>2. CASE Crash
  <2>1. aux \notin {"rename", "offset"} /\ aux' = "idle" /\ repl' = "kNoConnect" /\ thread' = "none" /\ UNCHANGED database
    BY <1>2 DEF Crash, Sound
  <2>2. Matched'
    BY <1>1, <2>1, SavesKept DEF CopyInv, database
  <2> QED BY <2>1, <2>2 DEF CopyInv, Current
<1>3. CASE Quiet
  BY <1>1, <1>3, CopyQuiet
<1>4. CASE SlaveFdClosed \/ HandleDBSyncResponse \/ StopEnd \/ SendDBSync
  BY <1>1, <1>4, CopyStop
<1>5. CASE GetBgSaveMetaData \/ ComparisonUpdate \/ ThreadMain
  BY <1>1, <1>5, CopyBegin
<1>6. ASSUME NEW w \in Workers, FileUuid(w) \/ CopyFile(w)
      PROVE  CopyInv'
  BY <1>1, <1>6, CopyWorker
<1>7. CASE ThreadEnd
  BY <1>1, <1>7, CopyEnd
<1>8. CASE RsyncExited \/ TryUpdateMasterOffset \/ ChangeDb \/ SetProducerStatus
  BY <1>1, <1>8, CopyInstall
<1> QED BY <1>2, <1>3, <1>4, <1>5, <1>6, <1>7, <1>8 DEF Next, Slave, Auxiliary, Copying, Quiet

-----------------------------------------------------------------------------
(* Theorems *)

(* The slave starts with the empty database and the master without a dump. *)
LEMMA InvInit == Init => Inv
<1> SUFFICES ASSUME Init
             PROVE  Inv
  OBVIOUS
<1>1. TypeOK
  BY TypeInit
<1>2. MaxSaves \in Nat \ {0} /\ Remain \in Nat \ {0} /\ "info" \in Files
  BY FullSyncAssumption, FileFacts
<1>3. offsets = <<0>> /\ Len(offsets) = 1 /\ DOMAIN offsets = {1} /\ offsets[1] = 0
  BY DEF Init
<1>4. DumpInv
  BY <1>3 DEF Init, DumpInv
<1>5. ThreadInv
  BY DEF Init, ThreadInv
<1>6. InfoInv
  BY <1>2 DEF Init, InfoInv, NoFiles
<1>7. Matched
  BY <1>3 DEF Init, Matched
<1>8. CopyInv
  BY <1>7 DEF Init, CopyInv
<1>9. FilesInv
  BY DEF Init, FilesInv, NoPurge
<1>10. ExchangeInv
  BY MessageType DEF Init, ExchangeInv, Asking
<1>11. KeptInv
  BY DEF Init, KeptInv
<1> QED BY <1>1, <1>4, <1>5, <1>6, <1>8, <1>9, <1>10, <1>11 DEF Inv

(* A step that changes nothing keeps the invariant. *)
LEMMA InvStutter ==
  ASSUME Inv, UNCHANGED vars
  PROVE  Inv'
<1> USE DEF vars, masterLog, dumpVars, nodeVars, net, state, client, machine, database, ghost
<1>1. TypeOK'
  BY DEF Inv, TypeOK
<1>2. DumpInv' /\ ThreadInv' /\ InfoInv'
  BY DEF Inv, DumpInv, ThreadInv, InfoInv
<1>3. CopyInv'
  BY DEF Inv, CopyInv, Sound, Offered, Current, Progress, Copied, Matched
<1>4. FilesInv' /\ ExchangeInv'
  BY DEF Inv, FilesInv, ExchangeInv, Asking
<1>5. KeptInv'
  BY DEF Inv, KeptInv, Retained
<1> QED BY <1>1, <1>2, <1>3, <1>4, <1>5 DEF Inv

(* The invariant of full synchronisation holds in every state: of the dump   *)
(* and its uuid, the copying threads and Stop, the files copied so far, the  *)
(* binlog files and the purge, the exchange of messages.                     *)
THEOREM Invariant == Spec => []Inv
<1>1. Init => Inv
  BY InvInit
<1>2. Inv /\ [Next]_vars => Inv'
  <2> SUFFICES ASSUME Inv, [Next]_vars
               PROVE  Inv'
    OBVIOUS
  <2>1. CASE Next
    <3>1. TypeOK /\ DumpInv /\ ThreadInv /\ InfoInv /\ CopyInv /\ FilesInv /\ ExchangeInv /\ KeptInv
      BY DEF Inv
    <3>2. TypeOK' /\ DumpInv' /\ ThreadInv' /\ InfoInv'
      BY <2>1, <3>1, TypeStep, DumpStep, ThreadStep, InfoStep
    <3>3. CopyInv' /\ FilesInv' /\ ExchangeInv' /\ KeptInv'
      BY <2>1, <3>1, CopyStep, FilesStep, ExchangeStep, KeptStep
    <3> QED BY <3>2, <3>3 DEF Inv
  <2>2. CASE UNCHANGED vars
    BY <2>2, InvStutter
  <2> QED BY <2>1, <2>2
<1> QED BY <1>1, <1>2, PTL DEF Spec

(* Every variable of the full synchronisation keeps its type. *)
THEOREM TypeCorrect == Spec => []TypeOK
<1>1. Inv => TypeOK
  BY DEF Inv
<1> QED BY <1>1, Invariant, PTL

(* The database that RsyncClient and TryUpdateMasterOffset install is one    *)
(* complete dump, and the slave goes on from the offset of that very dump.   *)
THEOREM DatabaseIsOneDump == Spec => []DatabaseMatchesOffset
<1>1. Inv => DatabaseMatchesOffset
  BY DEF Inv, CopyInv, Sound, Matched, DatabaseMatchesOffset
<1> QED BY <1>1, Invariant, PTL

(* BinlogCloudPurge and the check of TryDBSync keep the binlog files from    *)
(* the offset of the dump that a slave copies and from what it has           *)
(* acknowledged, but for a deletion decided before the slave came, one after *)
(* filenum - 10 wrapped, and a save already running that lost its file.      *)
THEOREM FilesAreKept == Spec => []NeededFilesKept
<1>1. Inv => NeededFilesKept
  BY DEF Inv, KeptInv, Retained, NeededFilesKept
<1> QED BY <1>1, Invariant, PTL

=============================================================================
