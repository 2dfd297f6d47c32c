------------------------------- MODULE ShmRing -------------------------------
(***************************************************************************)
(* hpc::ipc::shm_spsc_ring_buffer over shm_region: a ring in POSIX shared  *)
(* memory whose header fields are plain integers, with the publisher of    *)
(* examples/shm_publisher.cpp, C++ subscribers that poll try_pop, and the  *)
(* Python subscriber of examples/shm_subscriber.py, which only reads.      *)
(*                                                                         *)
(* The plain accesses to the header and the slots are steps of their own.  *)
(* They are taken in program order, as by a total-store-order machine with *)
(* code the compiler did not reorder, or, since nothing in the source      *)
(* forces that order, with the index stored before the slot is accessed.   *)
(***************************************************************************)
EXTENDS Integers, Sequences

CONSTANTS
  Publishers,    \* processes that construct the ring with create = true
  Subscribers,   \* processes that construct it with create = false
  Readers,       \* Python subscribers
  Capacity,      \* cfg.capacity, the same in every process
  Nothing,       \* no segment, no message
  Settings,      \* the ways of use to consider, see `use'
  MaxSeq,        \* bound: messages per publisher run
  MaxStarts,     \* bound: process starts, and so segments
  MaxPrints      \* max_messages, 20 in the code

ASSUME SettingsAssumption ==
  Settings \subseteq [processes : SUBSET (Publishers \cup Subscribers \cup Readers), ordered : BOOLEAN,
                      dropOldest : BOOLEAN, coordinated : BOOLEAN, mayStop : BOOLEAN]
ASSUME NothingAssumption == Nothing \notin Nat
ASSUME CapacityAssumption == Capacity \in Nat \ {0}
ASSUME BoundsAssumption == {MaxSeq, MaxStarts, MaxPrints} \subseteq Nat
ASSUME ProcessAssumption == /\ Publishers \cap Subscribers = {}
                            /\ Readers \cap (Publishers \cup Subscribers) = {}

Processes == Publishers \cup Subscribers \cup Readers
Segments == 1..MaxStarts
Slots == 0..(Capacity - 1)
Messages == 0..MaxSeq

VARIABLES
  use,       \* how the ring is used, fixed at the start:
             \*  processes: the processes that take part
             \*  ordered: plain accesses are seen in program order
             \*  dropOldest: a publisher that finds it full pops one and retries
             \*  coordinated: all processes start before the first push, the
             \*    subscribers after the publisher
             \*  mayStop: processes may exit or be killed, and start again
  name,      \* the segment that cfg.name refers to
  created,   \* history: segments created so far
  sized,     \* ftruncate was called on the segment
  cap,       \* header_->capacity of each segment, 0 when it is new
  head,      \* header_->head
  tail,      \* header_->tail
  slots,     \* slots_
  starts,    \* history: process starts so far
  pc,        \* where each process is
  seg,       \* the segment the process has open
  owner,     \* owner_
  h, t,      \* the locals head and tail of try_push and try_pop
  seq,       \* the publisher's next message
  again,     \* the publisher is at its second try_push
  out,       \* what try_pop, or the Python subscriber, copied out
  peek,      \* a Python subscriber's locals
  pushed,    \* history, in coordinated use: messages pushed
  received   \* history, in coordinated use: messages a subscriber's try_pop returned

segVars == <<use, name, created, sized>>
ringVars == <<cap, head, tail, slots>>
procVars == <<seg, owner>>
localVars == <<h, t, seq, again, out, peek>>
history == <<pushed, received>>
shmVars == <<segVars, ringVars, starts, pc, procVars, localVars, history>>

\* room: slots that are mapped; cap: the capacity read last; count: messages
\* printed; floor, history: the oldest message when head was read.
NoPeek == [room |-> 0, cap |-> 0, count |-> 0, floor |-> 0]

ShmInit == /\ use \in Settings
           /\ name = Nothing
           /\ created = 0
           /\ sized = [s \in Segments |-> FALSE]
           /\ cap = [s \in Segments |-> 0]
           /\ head = [s \in Segments |-> 0]
           /\ tail = [s \in Segments |-> 0]
           /\ slots = [s \in Segments |-> [i \in Slots |-> Nothing]]
           /\ starts = 0
           /\ pc = [p \in Processes |-> "off"]
           /\ seg = [p \in Processes |-> Nothing]
           /\ owner = [p \in Processes |-> FALSE]
           /\ h = [p \in Processes |-> 0]
           /\ t = [p \in Processes |-> 0]
           /\ seq = [p \in Processes |-> 0]
           /\ again = [p \in Processes |-> FALSE]
           /\ out = [p \in Processes |-> Nothing]
           /\ peek = [p \in Processes |-> NoPeek]
           /\ pushed = <<>>
           /\ received = <<>>

Goto(p, l) == pc' = [pc EXCEPT ![p] = l]

Recorded(log, m) == IF use.coordinated THEN Append(log, m) ELSE log

\* Slip: the wrap-around is forgotten.
BugWrap(i) == i + 1

\* (i + 1) % cap.
Wrap(i) == (i + 1) % Capacity

\* Slip: the full test compares without the step ahead.
BugIsFull(tl, hd) == tl + 1 = hd

\* The test of try_push: one slot stays empty.
IsFull(tl, hd) == Wrap(tl) = hd

-----------------------------------------------------------------------------
(* shm_region and the constructor.                                         *)

\* A process starts; a coordinated subscriber waits for the publisher.
Start(p) == /\ pc[p] = "off"
            /\ p \in use.processes /\ starts < MaxStarts
            /\ use.coordinated /\ p \notin Publishers => \A q \in Publishers : pc[q] = "ready"
            /\ starts' = starts + 1
            /\ Goto(p, "open")
            /\ UNCHANGED <<segVars, ringVars, procVars, localVars, history>>

\* shm_open with O_CREAT | O_EXCL, or of the existing object after EEXIST.  If
\* another owner unlinks the object between the two calls, the constructor
\* throws and the process ends with nothing done: that is Kill, which may come
\* instead of this step wherever owners may exit.
OpenCreate(p) == /\ pc[p] = "open" /\ p \in Publishers
                 /\ IF name = Nothing THEN created' = created + 1 /\ name' = created'
                                      ELSE UNCHANGED <<created, name>>
                 /\ seg' = [seg EXCEPT ![p] = name']
                 /\ Goto(p, "truncate")
                 /\ UNCHANGED <<use, sized, ringVars, starts, owner, localVars, history>>

\* ftruncate to the same size: an existing ring keeps its contents.
Truncate(p) == /\ pc[p] = "truncate"
               /\ sized' = [sized EXCEPT ![seg[p]] = TRUE]
               /\ owner' = [owner EXCEPT ![p] = TRUE]
               /\ Goto(p, "initCap")
               /\ UNCHANGED <<use, name, created, ringVars, starts, seg, localVars, history>>

\* shm_open without O_CREAT; the constructor throws if there is no object.
OpenAttach(p) == /\ pc[p] = "open" /\ p \in Subscribers
                 /\ seg' = [seg EXCEPT ![p] = name]
                 /\ Goto(p, IF name = Nothing THEN "off" ELSE "initCap")
                 /\ UNCHANGED <<segVars, ringVars, starts, owner, localVars, history>>

\* The constructor writes the header, in the creator and in an attacher.
InitCapacity(p) == /\ pc[p] = "initCap" /\ sized[seg[p]]
                   /\ cap' = [cap EXCEPT ![seg[p]] = Capacity]
                   /\ Goto(p, "initHead")
                   /\ UNCHANGED <<segVars, head, tail, slots, starts, procVars, localVars, history>>

InitHead(p) == /\ pc[p] = "initHead"
               /\ head' = [head EXCEPT ![seg[p]] = 0]
               /\ Goto(p, "initTail")
               /\ UNCHANGED <<segVars, cap, tail, slots, starts, procVars, localVars, history>>

InitTail(p) == /\ pc[p] = "initTail"
               /\ tail' = [tail EXCEPT ![seg[p]] = 0]
               /\ Goto(p, "ready")
               /\ UNCHANGED <<segVars, cap, head, slots, starts, procVars, localVars, history>>

\* An attacher that comes before ftruncate touches a page beyond the object.
BusError(p) == /\ pc[p] = "initCap" /\ ~sized[seg[p]]
               /\ Goto(p, "dead")
               /\ UNCHANGED <<segVars, ringVars, starts, procVars, localVars, history>>

\* The process is gone, with everything that was not in shared memory.
End(p) == /\ pc' = [pc EXCEPT ![p] = "off"]
          /\ seg' = [seg EXCEPT ![p] = Nothing]
          /\ owner' = [owner EXCEPT ![p] = FALSE]
          /\ h' = [h EXCEPT ![p] = 0]
          /\ t' = [t EXCEPT ![p] = 0]
          /\ seq' = [seq EXCEPT ![p] = 0]
          /\ again' = [again EXCEPT ![p] = FALSE]
          /\ out' = [out EXCEPT ![p] = Nothing]
          /\ peek' = [peek EXCEPT ![p] = NoPeek]

\* Between two calls the process ends: unmap, close, unlink if owner.
Exit(p) == /\ use.mayStop /\ pc[p] \in {"ready", "look"}
           /\ name' = IF owner[p] THEN Nothing ELSE name
           /\ End(p)
           /\ UNCHANGED <<use, created, sized, ringVars, starts, history>>

\* The process is killed anywhere: nothing is unlinked.
Kill(p) == /\ use.mayStop /\ pc[p] # "off"
           /\ End(p)
           /\ UNCHANGED <<segVars, ringVars, starts, history>>

-----------------------------------------------------------------------------
(* try_push, and the publisher's loop around it.                           *)

\* Where a process has not got the ring yet.
Starting == {"off", "open", "truncate", "initCap", "initHead", "initTail", "map"}

\* The loads of try_push.
PushLoadTail(p) == /\ pc[p] = "push" \/ (pc[p] = "ready" /\ p \in Publishers)
                   /\ seq[p] < MaxSeq
                   /\ use.coordinated => \A q \in use.processes : pc[q] \notin Starting
                   /\ t' = [t EXCEPT ![p] = tail[seg[p]]]
                   /\ Goto(p, "pushHead")
                   /\ UNCHANGED <<segVars, ringVars, starts, procVars, h, seq, again, out, peek, history>>

PushLoadHead(p) == /\ pc[p] = "pushHead"
                   /\ h' = [h EXCEPT ![p] = head[seg[p]]]
                   /\ Goto(p, IF IsFull(t[p], head[seg[p]]) THEN "full" ELSE "write")
                   /\ UNCHANGED <<segVars, ringVars, starts, procVars, t, seq, again, out, peek, history>>

\* The publisher turns to its next message.
NextMessage(p) == /\ seq' = [seq EXCEPT ![p] = seq[p] + 1]
                  /\ again' = [again EXCEPT ![p] = FALSE]
                  /\ Goto(p, "ready")

\* slots_[tail] = value; try_push returns true if tail is stored already.
WriteSlot(p) == /\ pc[p] \in {"write", "writeLate"}
                /\ slots' = [slots EXCEPT ![seg[p]][t[p]] = seq[p]]
                /\ IF pc[p] = "writeLate" THEN NextMessage(p)
                                          ELSE Goto(p, "storeTail") /\ UNCHANGED <<seq, again>>
                /\ UNCHANGED <<segVars, cap, head, tail, starts, procVars, h, t, out, peek, history>>

\* header_->tail = (tail + 1) % cap; try_push returns true if the slot is
\* written already.
StoreTail(p) == /\ pc[p] = "storeTail" \/ (pc[p] = "write" /\ ~use.ordered)
                /\ tail' = [tail EXCEPT ![seg[p]] = Wrap(t[p])]
                /\ pushed' = Recorded(pushed, seq[p])
                /\ IF pc[p] = "storeTail" THEN NextMessage(p)
                                          ELSE Goto(p, "writeLate") /\ UNCHANGED <<seq, again>>
                /\ UNCHANGED <<segVars, cap, head, slots, starts, procVars, h, t, out, peek, received>>

\* try_push returned false for good: the message is dropped.
PushGivesUp(p) == /\ pc[p] = "full"
                  /\ again[p] \/ ~use.dropOldest
                  /\ NextMessage(p)
                  /\ UNCHANGED <<segVars, ringVars, starts, procVars, h, t, out, peek, history>>

\* "Simple backpressure: drop oldest element."
PushDrops(p) == /\ pc[p] = "full"
                /\ ~again[p] /\ use.dropOldest
                /\ again' = [again EXCEPT ![p] = TRUE]
                /\ Goto(p, "pop")
                /\ UNCHANGED <<segVars, ringVars, starts, procVars, h, t, seq, out, peek, history>>

-----------------------------------------------------------------------------
(* try_pop, by a subscriber's polling loop or by a publisher that drops.   *)

PopLoadHead(p) == /\ pc[p] = "pop" \/ (pc[p] = "ready" /\ p \in Subscribers)
                  /\ h' = [h EXCEPT ![p] = head[seg[p]]]
                  /\ Goto(p, "popTail")
                  /\ UNCHANGED <<segVars, ringVars, starts, procVars, t, seq, again, out, peek, history>>

PopLoadTail(p) == /\ pc[p] = "popTail"
                  /\ t' = [t EXCEPT ![p] = tail[seg[p]]]
                  /\ Goto(p, IF h[p] = tail[seg[p]] THEN "empty" ELSE "read")
                  /\ UNCHANGED <<segVars, ringVars, starts, procVars, h, seq, again, out, peek, history>>

\* try_pop returns false: a dropping publisher gives its message up.
PopReturnsFalse(p) == /\ pc[p] = "empty"
                      /\ IF p \in Publishers THEN NextMessage(p)
                                             ELSE Goto(p, "ready") /\ UNCHANGED <<seq, again>>
                      /\ UNCHANGED <<segVars, ringVars, starts, procVars, h, t, out, peek, history>>

\* try_pop returns true: a publisher pushes again.
PopReturnsTrue(p, m) == IF p \in Publishers
                          THEN Goto(p, "push") /\ UNCHANGED received
                          ELSE Goto(p, "ready") /\ received' = Recorded(received, m)

\* Slip: head is advanced before it is used.
BugReadSlot(p) == /\ pc[p] \in {"read", "readLate"}
                  /\ out' = [out EXCEPT ![p] = slots[seg[p]][Wrap(h[p])]]
                  /\ IF pc[p] = "readLate" THEN PopReturnsTrue(p, slots[seg[p]][Wrap(h[p])])
                                           ELSE Goto(p, "storeHead") /\ UNCHANGED received
                  /\ UNCHANGED <<segVars, ringVars, starts, procVars, h, t, seq, again, peek, pushed>>

\* out = slots_[head].
ReadSlot(p) == /\ pc[p] \in {"read", "readLate"}
               /\ out' = [out EXCEPT ![p] = slots[seg[p]][h[p]]]
               /\ IF pc[p] = "readLate" THEN PopReturnsTrue(p, slots[seg[p]][h[p]])
                                        ELSE Goto(p, "storeHead") /\ UNCHANGED received
               /\ UNCHANGED <<segVars, ringVars, starts, procVars, h, t, seq, again, peek, pushed>>

\* header_->head = (head + 1) % cap.
StoreHead(p) == /\ pc[p] = "storeHead" \/ (pc[p] = "read" /\ ~use.ordered)
                /\ head' = [head EXCEPT ![seg[p]] = Wrap(h[p])]
                /\ IF pc[p] = "storeHead" THEN PopReturnsTrue(p, out[p])
                                          ELSE Goto(p, "readLate") /\ UNCHANGED received
                /\ UNCHANGED <<segVars, cap, tail, slots, starts, procVars, localVars, pushed>>

-----------------------------------------------------------------------------
(* The Python subscriber.  It never stores head: nothing is consumed.      *)

\* SharedMemory(SHM_NAME): "not found (is the publisher running?)".
ReaderOpen(p) == /\ pc[p] = "open" /\ p \in Readers
                 /\ seg' = [seg EXCEPT ![p] = name]
                 /\ Goto(p, IF name = Nothing THEN "off" ELSE "map")
                 /\ UNCHANGED <<segVars, ringVars, starts, owner, localVars, history>>

\* Slip: the region is not mapped again once its size is known.
BugReaderMap(p) == /\ pc[p] = "map"
                   /\ Goto(p, IF sized[seg[p]] THEN "look" ELSE "dead")
                   /\ UNCHANGED <<segVars, ringVars, starts, procVars, localVars, history>>

\* Map the header, read the capacity, map as many slots; Python's mmap
\* raises an exception when the object is shorter than the header.
ReaderMap(p) == /\ pc[p] = "map"
                /\ peek' = [peek EXCEPT ![p].room = cap[seg[p]]]
                /\ Goto(p, IF sized[seg[p]] THEN "look" ELSE "dead")
                /\ UNCHANGED <<segVars, ringVars, starts, procVars, h, t, seq, again, out, history>>

\* "Reload header each iteration": the copy is not atomic.
ReadCapacity(p) == /\ pc[p] = "look"
                   /\ peek' = [peek EXCEPT ![p].cap = cap[seg[p]]]
                   /\ Goto(p, "lookHead")
                   /\ UNCHANGED <<segVars, ringVars, starts, procVars, h, t, seq, again, out, history>>

\* The oldest message in segment s, or the next one if there is none.
Oldest(s) == LET next == {seq[q] : q \in {q \in Publishers : seg[q] = s}}
             IN IF head[s] # tail[s] THEN slots[s][head[s]]
                ELSE IF next = {} THEN 0 ELSE CHOOSE m \in next : \A n \in next : m <= n

ReadHead(p) == /\ pc[p] = "lookHead"
               /\ h' = [h EXCEPT ![p] = head[seg[p]]]
               /\ peek' = [peek EXCEPT ![p].floor = Oldest(seg[p])]
               /\ Goto(p, "lookTail")
               /\ UNCHANGED <<segVars, ringVars, starts, procVars, t, seq, again, out, history>>

\* Slip: an empty ring is not noticed.
BugReadTail(p) == /\ pc[p] = "lookTail"
                  /\ t' = [t EXCEPT ![p] = tail[seg[p]]]
                  /\ Goto(p, "fetch")
                  /\ UNCHANGED <<segVars, ringVars, starts, procVars, h, seq, again, out, peek, history>>

\* "Queue is empty; sleep briefly and retry."
ReadTail(p) == /\ pc[p] = "lookTail"
               /\ t' = [t EXCEPT ![p] = tail[seg[p]]]
               /\ Goto(p, IF h[p] = tail[seg[p]] THEN "look" ELSE "fetch")
               /\ UNCHANGED <<segVars, ringVars, starts, procVars, h, seq, again, out, peek, history>>

\* raw = mm[offset : offset + MESSAGE_SIZE]; outside the mapping the slice is
\* short, and the loop tries again.
Fetch(p) == /\ pc[p] = "fetch" /\ peek[p].cap # 0
            /\ LET idx == h[p] % peek[p].cap
               IN IF idx < peek[p].room
                    THEN out' = [out EXCEPT ![p] = slots[seg[p]][idx]] /\ Goto(p, "print")
                    ELSE Goto(p, "look") /\ UNCHANGED out
            /\ UNCHANGED <<segVars, ringVars, starts, procVars, h, t, seq, again, peek, history>>

\* head_idx % capacity with the capacity of a header not yet written.
DivisionByZero(p) == /\ pc[p] = "fetch" /\ peek[p].cap = 0
                     /\ Goto(p, "dead")
                     /\ UNCHANGED <<segVars, ringVars, starts, procVars, localVars, history>>

PrintMessage(p) == /\ pc[p] = "print"
                   /\ peek' = [peek EXCEPT ![p].count = @ + 1]
                   /\ Goto(p, IF peek[p].count + 1 = MaxPrints THEN "done" ELSE "look")
                   /\ UNCHANGED <<segVars, ringVars, starts, procVars, h, t, seq, again, out, history>>

-----------------------------------------------------------------------------
Construct(p) == \/ OpenCreate(p) \/ Truncate(p) \/ OpenAttach(p)
                \/ InitCapacity(p) \/ InitHead(p) \/ InitTail(p) \/ BusError(p)
PushStep(p) == \/ PushLoadTail(p) \/ PushLoadHead(p) \/ WriteSlot(p) \/ StoreTail(p)
               \/ PushGivesUp(p) \/ PushDrops(p)
PopStep(p) == \/ PopLoadHead(p) \/ PopLoadTail(p) \/ PopReturnsFalse(p)
              \/ ReadSlot(p) \/ StoreHead(p)
ReaderStep(p) == \/ ReaderOpen(p) \/ ReaderMap(p) \/ ReadCapacity(p) \/ ReadHead(p) \/ ReadTail(p)
                 \/ Fetch(p) \/ DivisionByZero(p) \/ PrintMessage(p)

ShmNext == \E p \in Processes :
             Start(p) \/ Construct(p) \/ PushStep(p) \/ PopStep(p) \/ ReaderStep(p) \/ Exit(p) \/ Kill(p)

ShmSpec == ShmInit /\ [][ShmNext]_shmVars

\* A subscriber that got the ring keeps polling it.
FairShmSpec == /\ ShmSpec
               /\ \A p \in Subscribers : WF_shmVars(PopStep(p))
               /\ \A p \in Readers : WF_shmVars(ReaderStep(p))

-----------------------------------------------------------------------------
(* Correctness.                                                            *)

\* However the processes start, attach, reset, race, crash and restart, no
\* index leaves the mapped slots: slots_[tail] and slots_[head] stay inside
\* the segment in every process.
IndicesInRange ==
  /\ \A s \in Segments : head[s] \in Slots /\ tail[s] \in Slots
  /\ \A p \in Processes : pc[p] \in {"write", "storeTail", "writeLate"} => t[p] \in Slots
  /\ \A p \in Processes : pc[p] \in {"read", "storeHead", "readLate"} => h[p] \in Slots

\* Started in order, with nobody stopping.
InOrderStart(processes) == use.processes = processes /\ use.coordinated /\ ~use.mayStop

\* ... C++ processes, a publisher that does not drop, and accesses in order.
Orderly == InOrderStart(Publishers \cup Subscribers) /\ ~use.dropOldest /\ use.ordered

\* "drop oldest": messages reach the subscriber in the order of publication,
\* none of them twice.
InOrder == \A i, j \in DOMAIN received : i < j => received[i] < received[j]

\* The subscriber has copied the oldest message, head is not moved yet.
Taken == IF \E p \in Subscribers : pc[p] = "storeHead" THEN 1 ELSE 0

\* In orderly use the ring is a bounded FIFO of Capacity - 1 messages.
Fifo == INSTANCE BoundedFifo WITH
  Consumers <- Subscribers,
  Values <- Messages,
  None <- Nothing,
  Capacity <- Capacity - 1,
  q <- [i \in 1..(IF Orderly THEN Len(pushed) - Len(received) - Taken ELSE 0)
          |-> pushed[Len(received) + Taken + i]],
  hand <- [p \in Subscribers |-> IF Orderly /\ pc[p] = "storeHead" THEN out[p] ELSE Nothing],
  ret <- [p \in Subscribers |-> IF Orderly /\ received # <<>> THEN received[Len(received)] ELSE Nothing]

ImplementsFifo == Fifo!Spec

\* In orderly use every message whose try_push returned true is received.
EveryMessageReceived ==
  \A x \in 1..MaxSeq : Orderly /\ Len(pushed) >= x ~> Len(received) >= x

\* In use with one publisher that does not drop, started in order.
Plain == InOrderStart(Publishers \cup Subscribers) /\ ~use.dropOldest

\* What the missing atomics can cost in such use, when an index becomes
\* visible before the access to its slot: no message is skipped or shifted,
\* the n-th message received comes from the n-th message's slot, but it may
\* be what was there one lap earlier, or nothing on the first lap.  It is
\* never one of a later lap: the spare slot keeps the publisher away from a
\* slot whose head was stored too early.
WrongByLapOnly ==
  Plain => \A n \in DOMAIN received :
             \/ received[n] = Nothing /\ n <= Capacity
             \/ \E m \in {n - Capacity, n} : m \in DOMAIN pushed /\ received[n] = pushed[m]

\* A Python subscriber that was started after the publisher never prints a
\* slot without a message, nor one older than the oldest message in the ring
\* when it read head, though the publisher drops and overwrites meanwhile.
PrintedIsFresh ==
  \A p \in Readers : InOrderStart(Publishers \cup Readers) /\ use.ordered /\ pc[p] = "print" =>
    out[p] # Nothing /\ out[p] >= peek[p].floor

\* ... and it prints something once a message was pushed.
ReaderPrints ==
  \A p \in Readers :
    InOrderStart(Publishers \cup Readers) /\ pushed # <<>> ~> peek[p].count > 0
=============================================================================
