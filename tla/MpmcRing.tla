------------------------------- MODULE MpmcRing -------------------------------
(***************************************************************************)
(* hpc::core::mpmc_ring_buffer<T>: the bounded multi-producer              *)
(* multi-consumer ring with one sequence counter per cell.                 *)
(*                                                                         *)
(* One action per atomic access of try_emplace and try_pop; the batch      *)
(* operations are loops of single operations (args and want hold what is   *)
(* left of the loop).  try_push forwards to try_emplace.                   *)
(*                                                                         *)
(* Tickets (the values of head_ and tail_) are unbounded integers here:    *)
(* size_t wraps after 2^64 operations, which no execution reaches.         *)
(***************************************************************************)
EXTENDS PowerOfTwo, Sequences, FiniteSets

CONSTANTS
  Producers,          \* threads that push
  Consumers,          \* threads that pop
  Values,             \* the values of T
  Raw,                \* storage that holds no T
  RequestedCapacity,  \* the constructor's argument
  Pushes,             \* what each producer's calls push: a sequence of elements
  Pops,               \* how many elements each consumer's calls ask for
  MaxTickets,         \* bound: no push call starts once tail_ reached it
  StaleThreads,       \* threads whose loads may return an older value of the atomic
  MayThrow            \* T's construction and move assignment may throw

Threads == Producers \cup Consumers

ASSUME ThreadsAssumption == Producers \cap Consumers = {}
ASSUME ValuesAssumption == Raw \notin Values
ASSUME StaleAssumption == StaleThreads \subseteq Threads
ASSUME ThrowAssumption == MayThrow \in BOOLEAN
ASSUME BoundsAssumption == MaxTickets \in Nat
ASSUME CallsAssumption ==
  /\ \A p \in Producers : \A b \in Pushes[p] : b \in Seq(Values) /\ b # <<>>
  /\ \A c \in Consumers : \A n \in Pops[c] : n \in Nat /\ n > 0
ASSUME RequestAssumption ==
  /\ RequestedCapacity \in Nat
  /\ \E p \in 1..MaxSize : IsRoundUp(p, RequestedCapacity)

Capacity == RoundUpToPowerOfTwo(RequestedCapacity)

Cells == 0..(Capacity - 1)

\* index & mask_, for a power-of-two capacity.
Cell(ticket) == ticket % Capacity

VARIABLES
  head,      \* head_: the next ticket to pop
  tail,      \* tail_: the next ticket to push
  seq,       \* cells_[i].sequence
  data,      \* cells_[i].storage
  pc,        \* where each thread is
  pos,       \* the thread's local `tail` (try_emplace) or `head` (try_pop)
  args,      \* what a producer's call has still to push, the current one first
  want,      \* how many elements a consumer's call has still to pop
  ret,       \* the last element a consumer got, its `out`
  log,       \* history: the elements in the order of their push tickets
  pushLost,  \* history: push tickets whose construction threw
  popLost    \* history: pop tickets whose move assignment threw

vars == <<head, tail, seq, data, pc, pos, args, want, ret, log, pushLost, popLost>>

\* What thread t may load from an atomic whose value grew from 0 to x.
Seen(t, x) == IF t \in StaleThreads THEN 0..x ELSE {x}

\* What t may load from cell i's sequence: the cell went through the values
\* i, i+1, i+Capacity, i+Capacity+1, ... up to the current one.
SeqSeen(t, i) ==
  IF t \in StaleThreads THEN {s \in i..seq[i] : (s - i) % Capacity \in {0, 1}} ELSE {seq[i]}

\* The constructor: cell i starts with sequence i, empty.
Init == /\ head = 0
        /\ tail = 0
        /\ seq = [i \in Cells |-> i]
        /\ data = [i \in Cells |-> Raw]
        /\ pc = [t \in Threads |-> "idle"]
        /\ pos = [t \in Threads |-> 0]
        /\ args = [p \in Producers |-> <<>>]
        /\ want = [c \in Consumers |-> 0]
        /\ ret = [c \in Consumers |-> Raw]
        /\ log = <<>>
        /\ pushLost = {}
        /\ popLost = {}

Goto(t, l) == pc' = [pc EXCEPT ![t] = l]

\* Slip: the consumer leaves the sequence of the next ticket, not of the next lap.
BugSeqAfterPop(ticket) == ticket + 1

\* The sequence try_pop leaves: the cell is free for the ticket one lap later.
SeqAfterPop(ticket) == ticket + Capacity

\* try_pop_batch has got its last element.
BatchDone(n) == n = 1

-----------------------------------------------------------------------------
(* Producers: try_push, try_emplace, try_push_batch.                       *)

\* A call of try_push (a batch of one) or try_push_batch.
PushCall(p) == /\ pc[p] = "idle"
               /\ tail < MaxTickets
               /\ \E src \in Pushes[p] : args' = [args EXCEPT ![p] = src]
               /\ Goto(p, "load")
               /\ UNCHANGED <<head, tail, seq, data, pos, want, ret, log, pushLost, popLost>>

\* tail = tail_.load(relaxed), at the start and on every retry.
PushLoad(p) == /\ pc[p] = "load"
               /\ \E t \in Seen(p, tail) : pos' = [pos EXCEPT ![p] = t]
               /\ Goto(p, "seq")
               /\ UNCHANGED <<head, tail, seq, data, args, want, ret, log, pushLost, popLost>>

\* c.sequence.load(acquire) found the cell free for this ticket.
PushSeesFree(p) == /\ pc[p] = "seq"
                   /\ \E s \in SeqSeen(p, Cell(pos[p])) : s - pos[p] = 0
                   /\ Goto(p, "cas")
                   /\ UNCHANGED <<head, tail, seq, data, pos, args, want, ret, log, pushLost, popLost>>

\* Slip: a free cell counts as full.
BugPushRejected(p) == /\ pc[p] = "seq"
                      /\ \E s \in SeqSeen(p, Cell(pos[p])) : s - pos[p] <= 0
                      /\ args' = [args EXCEPT ![p] = <<>>]
                      /\ Goto(p, "idle")
                      /\ UNCHANGED <<head, tail, seq, data, pos, want, ret, log, pushLost, popLost>>

\* The sequence is behind the ticket: return false, ending a batch as well.
PushRejected(p) == /\ pc[p] = "seq"
                   /\ \E s \in SeqSeen(p, Cell(pos[p])) : s - pos[p] < 0
                   /\ args' = [args EXCEPT ![p] = <<>>]
                   /\ Goto(p, "idle")
                   /\ UNCHANGED <<head, tail, seq, data, pos, want, ret, log, pushLost, popLost>>

\* The sequence is ahead: another producer had this ticket, reload.
PushBehind(p) == /\ pc[p] = "seq"
                 /\ \E s \in SeqSeen(p, Cell(pos[p])) : s - pos[p] > 0
                 /\ Goto(p, "load")
                 /\ UNCHANGED <<head, tail, seq, data, pos, args, want, ret, log, pushLost, popLost>>

\* Slip: a load and a store instead of a compare-exchange.
BugPushClaim(p) == /\ pc[p] = "cas"
                   /\ tail' = pos[p] + 1
                   /\ log' = IF tail = pos[p] THEN Append(log, args[p][1]) ELSE log
                   /\ Goto(p, "construct")
                   /\ UNCHANGED <<head, seq, data, pos, args, want, ret, pushLost, popLost>>

\* compare_exchange_weak on tail_ succeeds: the ticket is this producer's.
PushClaim(p) == /\ pc[p] = "cas"
                /\ tail = pos[p]
                /\ tail' = tail + 1
                /\ log' = Append(log, args[p][1])
                /\ Goto(p, "construct")
                /\ UNCHANGED <<head, seq, data, pos, args, want, ret, pushLost, popLost>>

\* compare_exchange_weak fails, because tail_ moved or spuriously.
PushCasFails(p) == /\ pc[p] = "cas"
                   /\ Goto(p, "load")
                   /\ UNCHANGED <<head, tail, seq, data, pos, args, want, ret, log, pushLost, popLost>>

\* Slip: the sequence is stored before the element is constructed.
BugConstruct(p) == /\ pc[p] = "construct"
                   /\ seq' = [seq EXCEPT ![Cell(pos[p])] = pos[p] + 1]
                   /\ Goto(p, "publish")
                   /\ UNCHANGED <<head, tail, data, pos, args, want, ret, log, pushLost, popLost>>

\* Placement new of the element into the claimed cell.
Construct(p) == /\ pc[p] = "construct"
                /\ data' = [data EXCEPT ![Cell(pos[p])] = args[p][1]]
                /\ Goto(p, "publish")
                /\ UNCHANGED <<head, tail, seq, pos, args, want, ret, log, pushLost, popLost>>

\* Slip: the sequence is advanced although construction threw.
BugConstructThrows(p) == /\ MayThrow
                         /\ pc[p] = "construct"
                         /\ seq' = [seq EXCEPT ![Cell(pos[p])] = pos[p] + 1]
                         /\ pushLost' = pushLost \cup {pos[p]}
                         /\ args' = [args EXCEPT ![p] = <<>>]
                         /\ Goto(p, "idle")
                         /\ UNCHANGED <<head, tail, data, pos, want, ret, log, popLost>>

\* T's constructor throws: the exception leaves try_emplace, the sequence
\* of the claimed cell is never advanced.
ConstructThrows(p) == /\ MayThrow
                      /\ pc[p] = "construct"
                      /\ pushLost' = pushLost \cup {pos[p]}
                      /\ args' = [args EXCEPT ![p] = <<>>]
                      /\ Goto(p, "idle")
                      /\ UNCHANGED <<head, tail, seq, data, pos, want, ret, log, popLost>>

\* Slip: the sequence is not stored.
BugPublish(p) == /\ pc[p] = "publish"
                 /\ args' = [args EXCEPT ![p] = Tail(args[p])]
                 /\ Goto(p, IF Tail(args[p]) = <<>> THEN "idle" ELSE "load")
                 /\ UNCHANGED <<head, tail, seq, data, pos, want, ret, log, pushLost, popLost>>

\* c.sequence.store(tail + 1, release); the batch goes on with the next one.
Publish(p) == /\ pc[p] = "publish"
              /\ seq' = [seq EXCEPT ![Cell(pos[p])] = pos[p] + 1]
              /\ args' = [args EXCEPT ![p] = Tail(args[p])]
              /\ Goto(p, IF Tail(args[p]) = <<>> THEN "idle" ELSE "load")
              /\ UNCHANGED <<head, tail, data, pos, want, ret, log, pushLost, popLost>>

-----------------------------------------------------------------------------
(* Consumers: try_pop, try_pop_batch.                                      *)

\* A call of try_pop (a batch of one) or try_pop_batch.
PopCall(c) == /\ pc[c] = "idle"
              /\ \E n \in Pops[c] : want' = [want EXCEPT ![c] = n]
              /\ Goto(c, "load")
              /\ UNCHANGED <<head, tail, seq, data, pos, args, ret, log, pushLost, popLost>>

\* head = head_.load(relaxed).
PopLoad(c) == /\ pc[c] = "load"
              /\ \E h \in Seen(c, head) : pos' = [pos EXCEPT ![c] = h]
              /\ Goto(c, "seq")
              /\ UNCHANGED <<head, tail, seq, data, args, want, ret, log, pushLost, popLost>>

\* c.sequence.load(acquire) found the element published.
PopSeesFull(c) == /\ pc[c] = "seq"
                  /\ \E s \in SeqSeen(c, Cell(pos[c])) : s - (pos[c] + 1) = 0
                  /\ Goto(c, "cas")
                  /\ UNCHANGED <<head, tail, seq, data, pos, args, want, ret, log, pushLost, popLost>>

\* Slip: a published element counts as missing.
BugPopRejected(c) == /\ pc[c] = "seq"
                     /\ \E s \in SeqSeen(c, Cell(pos[c])) : s - (pos[c] + 1) <= 0
                     /\ want' = [want EXCEPT ![c] = 0]
                     /\ Goto(c, "idle")
                     /\ UNCHANGED <<head, tail, seq, data, pos, args, ret, log, pushLost, popLost>>

\* The sequence is behind: return false, ending a batch as well.
PopRejected(c) == /\ pc[c] = "seq"
                  /\ \E s \in SeqSeen(c, Cell(pos[c])) : s - (pos[c] + 1) < 0
                  /\ want' = [want EXCEPT ![c] = 0]
                  /\ Goto(c, "idle")
                  /\ UNCHANGED <<head, tail, seq, data, pos, args, ret, log, pushLost, popLost>>

\* The sequence is ahead: another consumer had this ticket, reload.
PopBehind(c) == /\ pc[c] = "seq"
                /\ \E s \in SeqSeen(c, Cell(pos[c])) : s - (pos[c] + 1) > 0
                /\ Goto(c, "load")
                /\ UNCHANGED <<head, tail, seq, data, pos, args, want, ret, log, pushLost, popLost>>

\* compare_exchange_weak on head_ succeeds.
PopClaim(c) == /\ pc[c] = "cas"
               /\ head = pos[c]
               /\ head' = head + 1
               /\ Goto(c, "move")
               /\ UNCHANGED <<tail, seq, data, pos, args, want, ret, log, pushLost, popLost>>

\* compare_exchange_weak fails, because head_ moved or spuriously.
PopCasFails(c) == /\ pc[c] = "cas"
                  /\ Goto(c, "load")
                  /\ UNCHANGED <<head, tail, seq, data, pos, args, want, ret, log, pushLost, popLost>>

\* out = std::move(*value_ptr); value_ptr->~T().
MoveOut(c) == /\ pc[c] = "move"
              /\ ret' = [ret EXCEPT ![c] = data[Cell(pos[c])]]
              /\ data' = [data EXCEPT ![Cell(pos[c])] = Raw]
              /\ Goto(c, "release")
              /\ UNCHANGED <<head, tail, seq, pos, args, want, log, pushLost, popLost>>

\* The move assignment throws: the cell is neither emptied nor released.
MoveThrows(c) == /\ MayThrow
                 /\ pc[c] = "move"
                 /\ popLost' = popLost \cup {pos[c]}
                 /\ want' = [want EXCEPT ![c] = 0]
                 /\ Goto(c, "idle")
                 /\ UNCHANGED <<head, tail, seq, data, pos, args, ret, log, pushLost>>

\* c.sequence.store(head + capacity_, release); the batch goes on.
Release(c) == /\ pc[c] = "release"
              /\ seq' = [seq EXCEPT ![Cell(pos[c])] = SeqAfterPop(pos[c])]
              /\ want' = [want EXCEPT ![c] = want[c] - 1]
              /\ Goto(c, IF BatchDone(want[c]) THEN "idle" ELSE "load")
              /\ UNCHANGED <<head, tail, data, pos, args, ret, log, pushLost, popLost>>

-----------------------------------------------------------------------------
PushStep(p) == \/ PushLoad(p) \/ PushSeesFree(p) \/ PushRejected(p) \/ PushBehind(p)
               \/ PushClaim(p) \/ PushCasFails(p)
               \/ Construct(p) \/ ConstructThrows(p) \/ Publish(p)

PopStep(c) == \/ PopLoad(c) \/ PopSeesFull(c) \/ PopRejected(c) \/ PopBehind(c)
              \/ PopClaim(c) \/ PopCasFails(c)
              \/ MoveOut(c) \/ MoveThrows(c) \/ Release(c)

Next == \/ \E p \in Producers : PushCall(p) \/ PushStep(p)
        \/ \E c \in Consumers : PopCall(c) \/ PopStep(c)

Spec == Init /\ [][Next]_vars

(***************************************************************************)
(* Threads inside a call keep running, consumers keep calling try_pop (the *)
(* polling loops of the tests), and a compare_exchange_weak that is tried  *)
(* again and again on an unchanged index does not fail for ever.           *)
(***************************************************************************)
Fairness == /\ \A p \in Producers : WF_vars(PushStep(p)) /\ SF_vars(PushClaim(p))
            /\ \A c \in Consumers : WF_vars(PopCall(c) \/ PopStep(c)) /\ SF_vars(PopClaim(c))

FairSpec == Spec /\ Fairness

-----------------------------------------------------------------------------
(* Correctness.                                                            *)

PushLabels == {"idle", "load", "seq", "cas", "construct", "publish"}
PopLabels == {"idle", "load", "seq", "cas", "move", "release"}

\* Type invariant: indices and sequences are naturals, cells hold a T or raw
\* storage, a producer inside a call has an element left to push and a
\* consumer inside a call has room left in its batch.
TypeOK ==
  /\ head \in Nat
  /\ tail \in Nat
  /\ seq \in [Cells -> Nat]
  /\ data \in [Cells -> Values \cup {Raw}]
  /\ pc \in [Threads -> PushLabels \cup PopLabels]
  /\ \A p \in Producers : pc[p] \in PushLabels
  /\ \A c \in Consumers : pc[c] \in PopLabels
  /\ pos \in [Threads -> Nat]
  /\ args \in [Producers -> Seq(Values)]
  /\ \A p \in Producers : pc[p] # "idle" => args[p] # <<>>
  /\ want \in [Consumers -> Nat]
  /\ \A c \in Consumers : pc[c] # "idle" => want[c] > 0
  /\ ret \in [Consumers -> Values \cup {Raw}]
  /\ log \in Seq(Values)
  /\ pushLost \in SUBSET Nat
  /\ popLost \in SUBSET Nat

\* t owns the cell of its ticket: it won the compare-exchange and has not
\* stored the cell's sequence yet.
Owns(t) == pc[t] \in {"construct", "publish", "move", "release"}

\* Between winning a ticket and storing the cell's sequence a thread accesses
\* the cell's storage without any atomic; no other thread is then inside the
\* same cell, so the plain accesses never race.
SlotExclusive ==
  \A t, u \in Threads : t # u /\ Owns(t) /\ Owns(u) => Cell(pos[t]) # Cell(pos[u])

\* Placement new only ever meets raw storage (no live element is overwritten),
\* and a consumer only ever moves from the live element of its own ticket.
SlotLifetime ==
  /\ \A p \in Producers : pc[p] = "construct" => data[Cell(pos[p])] = Raw
  /\ \A c \in Consumers : pc[c] = "move" => data[Cell(pos[c])] = log[pos[c] + 1]

\* Tickets never run backwards past each other nor more than one lap apart:
\* approximate_size() of a quiescent ring lies between 0 and capacity().
NeverOverfilled == head <= tail /\ tail <= head + Capacity

\* An exception costs the ring more than one element: a push ticket whose
\* constructor threw is never passed by head_, so nothing pushed after it is
\* ever popped; a pop ticket whose assignment threw stops tail_ one lap later.
ThrowBlocksRing ==
  /\ \A x \in pushLost : head <= x
  /\ \A x \in popLost : tail <= x + Capacity

\* Some consumer is still inside ticket x, or failed there.
PopPending(x) == x \in popLost \/ \E c \in Consumers : Owns(c) /\ pos[c] = x

\* Some producer is still inside ticket x, or failed there.
PushPending(x) == x \in pushLost \/ \E p \in Producers : Owns(p) /\ pos[p] = x

\* try_push, if its loads are up to date, returns false only when Capacity
\* elements wait, or the pop of the element one lap before its ticket is not
\* finished.
PushRejectionJustified ==
  [][\A p \in Producers \ StaleThreads : pc[p] = "seq" /\ pc'[p] = "idle" =>
       tail - head = Capacity \/ PopPending(pos[p] - Capacity)]_vars

\* try_pop, if its loads are up to date, returns false only when nothing is in
\* the ring, or the push of the oldest element is not finished.
PopRejectionJustified ==
  [][\A c \in Consumers \ StaleThreads : pc[c] = "seq" /\ pc'[c] = "idle" =>
       head = pos[c] /\ (tail = head \/ PushPending(head))]_vars

\* The ring implements the bounded FIFO: claiming a push ticket is the
\* acceptance, claiming a pop ticket hands the oldest element over, and what
\* the consumer finds in the cell is that element.
Fifo == INSTANCE BoundedFifo WITH
  None <- Raw,
  q <- [i \in 1..(tail - head) |-> log[head + i]],
  hand <- [c \in Consumers |-> IF pc[c] = "move" THEN log[pos[c] + 1] ELSE Raw]

ImplementsFifo == Fifo!Spec

\* Every element that got a ticket is popped, unless the constructor of one
\* at or before it threw: a slow producer delays the elements behind it, it
\* cannot wedge them, and no exception of a consumer can.
EveryElementPopped ==
  \A x \in 0..(2 * MaxTickets) :
    tail > x ~> head > x \/ \E y \in pushLost : y <= x

-----------------------------------------------------------------------------
(***************************************************************************)
(* The inductive invariant.  A cell is either free for the ticket that its *)
(* sequence names, or holds the element of the ticket before it; no other  *)
(* ticket of the same cell can be in use, since head_ and tail_ are both   *)
(* within one lap of it.                                                   *)
(***************************************************************************)
FreeCell(i) == /\ Cell(seq[i]) = i
               /\ head <= seq[i]
               /\ seq[i] < head + Capacity
               /\ tail <= seq[i] + Capacity
               /\ data[i] = Raw \/ \E p \in Producers : pc[p] = "publish" /\ pos[p] = seq[i]
               /\ seq[i] < tail => PushPending(seq[i])

FullCell(i) == /\ seq[i] > 0
               /\ Cell(seq[i] - 1) = i
               /\ seq[i] <= tail
               /\ tail < seq[i] + Capacity
               /\ seq[i] <= head + Capacity
               /\ data[i] = log[seq[i]] \/ \E c \in Consumers : pc[c] = "release" /\ pos[c] = seq[i] - 1
               /\ seq[i] <= head => PopPending(seq[i] - 1)

CellsInv == \A i \in Cells : FreeCell(i) \/ FullCell(i)

\* A producer that owns its cell finds its own ticket in the sequence.
PushOwnersInv ==
  /\ \A p \in Producers : Owns(p) =>
       /\ seq[Cell(pos[p])] = pos[p]
       /\ pos[p] < tail
       /\ pos[p] \notin pushLost
       /\ log[pos[p] + 1] = args[p][1]
       /\ data[Cell(pos[p])] = IF pc[p] = "publish" THEN log[pos[p] + 1] ELSE Raw
  /\ \A p, r \in Producers : p # r /\ Owns(p) /\ Owns(r) => pos[p] # pos[r]

\* A consumer that owns its cell finds the sequence its producer stored.
PopOwnersInv ==
  /\ \A c \in Consumers : Owns(c) =>
       /\ seq[Cell(pos[c])] = pos[c] + 1
       /\ pos[c] < head
       /\ pos[c] \notin popLost
       /\ data[Cell(pos[c])] = IF pc[c] = "move" THEN log[pos[c] + 1] ELSE Raw
  /\ \A c, d \in Consumers : c # d /\ Owns(c) /\ Owns(d) => pos[c] # pos[d]

\* What a thread at its compare-exchange saw can only have grown since.
CasInv ==
  /\ \A p \in Producers : pc[p] = "cas" => seq[Cell(pos[p])] >= pos[p]
  /\ \A c \in Consumers : pc[c] = "cas" => seq[Cell(pos[c])] >= pos[c] + 1

\* A cell whose element operation threw is frozen.
LostInv ==
  /\ \A x \in pushLost : seq[Cell(x)] = x /\ x < tail
  /\ \A x \in popLost : seq[Cell(x)] = x + 1 /\ x < head

\* The inductive invariant behind the safety theorems of MpmcRingProofs: what
\* the sequence counters of try_emplace and try_pop mean in every state.
IInv == /\ TypeOK
        /\ NeverOverfilled
        /\ Len(log) = tail
        /\ CellsInv
        /\ PushOwnersInv
        /\ PopOwnersInv
        /\ CasInv
        /\ LostInv
=============================================================================
