----------------------------- MODULE SyncWindow -----------------------------
(***************************************************************************)
(* The send window the master keeps for one slave (class SyncWindow,       *)
(* include/pika_slave_node.h and src/pika_slave_node.cc).  It holds one    *)
(* item per binlog record that was handed to the write queue and is not    *)
(* yet acknowledged in order, and the sum of the sizes of the items that   *)
(* no acknowledgement has covered.                                         *)
(*                                                                         *)
(* An item is identified by the offset just after its record (SyncWinItem  *)
(* compares b_offset only).  Offsets are record counts and every record    *)
(* has size 1.  total_size_ is a size_t: it is counted modulo SizeRange.   *)
(***************************************************************************)
EXTENDS Integers, Sequences

CONSTANT SizeRange   \* values of a size_t (2^64 in the code)

ASSUME SizeRangeAssumption == SizeRange \in Nat \ {0}

WinItem == [off: Nat, acked: BOOLEAN]
Window == [items: Seq(WinItem), total: 0..(SizeRange - 1)]

(* SyncWindow::Reset and the initial window. *)
Reset == [items |-> <<>>, total |-> 0]

(* k calls of SyncWindow::Push, for the records that follow offset base. *)
PushRecords(w, base, k) ==
  [items |-> w.items \o [i \in 1..k |-> [off |-> base + i, acked |-> FALSE]],
   total |-> (w.total + k) % SizeRange]

(* SyncWindow::Remaining.  The code subtracts in size_t and casts to int, so *)
(* a window that is larger than the configured size leaves no room.          *)
Remaining(w, size) == IF Len(w.items) < size THEN size - Len(w.items) ELSE 0

(* The scan of SyncWindow::Update: j is the first position of the end        *)
(* offset, i the last position of the start offset that is not after j.      *)
IsRange(w, start, end, i, j) ==
  /\ {i, j} \subseteq DOMAIN w.items
  /\ i <= j
  /\ w.items[i].off = start
  /\ \A k \in (i + 1)..j : w.items[k].off # start
  /\ w.items[j].off = end
  /\ \A k \in 1..(j - 1) : w.items[k].off # end

RangeFound(w, start, end) ==
  \E i, j \in DOMAIN w.items : IsRange(w, start, end, i, j)

(* Mutant of Marked: the range runs to the end of the window. *)
MarkedToEnd(items, i, j) ==
  [k \in DOMAIN items |->
     IF k >= i THEN [items[k] EXCEPT !.acked = TRUE] ELSE items[k]]

(* The items with positions i..j marked as acknowledged. *)
Marked(items, i, j) ==
  [k \in DOMAIN items |->
     IF k \in i..j THEN [items[k] EXCEPT !.acked = TRUE] ELSE items[k]]

(* The pop loop at the end of SyncWindow::Update removes n items. *)
IsAckedPrefix(items, n) ==
  /\ n \in 0..Len(items)
  /\ \A k \in 1..n : items[k].acked
  /\ n < Len(items) => ~items[n + 1].acked

(* Mutant of Acknowledged: only the popped items are subtracted. *)
AcknowledgedPopped(w, i, j, n) ==
  [items |-> SubSeq(Marked(w.items, i, j), n + 1, Len(w.items)),
   total |-> (w.total - n) % SizeRange]

(* SyncWindow::Update for the range of positions i..j, when n items are       *)
(* popped.  Every item of the range is subtracted, acknowledged before or not. *)
Acknowledged(w, i, j, n) ==
  [items |-> SubSeq(Marked(w.items, i, j), n + 1, Len(w.items)),
   total |-> (w.total - (j - i + 1)) % SizeRange]

=============================================================================
