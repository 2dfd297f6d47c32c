----------------------------- MODULE TtasSpinlock -----------------------------
(***************************************************************************)
(* hpc::core::ttas_spinlock, and clients that each increment a plain       *)
(* (non-atomic) counter under it.                                          *)
(*                                                                         *)
(* The memory orders of the lock are part of the model.  The counter's     *)
(* writes are numbered; view[t] is the last write that happens before what *)
(* t does next.  A plain read may return the value of any write from       *)
(* view[t] on.  unlock's release store publishes the caller's view with    *)
(* the flag, a successful acquire compare-exchange takes it over; relaxed  *)
(* accesses do neither.                                                    *)
(***************************************************************************)
EXTENDS Integers, Sequences

CONSTANTS
  Threads,
  MaxBackoff,   \* max_backoff_
  MaxWrites,    \* bound: no call starts once the counter was written so often
  StaleTests    \* the relaxed test may return an old value of flag_

ASSUME BackoffAssumption == MaxBackoff \in Nat \ {0}
ASSUME LockBoundsAssumption == MaxWrites \in Nat
ASSUME StaleTestsAssumption == StaleTests \in BOOLEAN

VARIABLES
  flag,      \* flag_
  released,  \* the view published by the last unlock
  pc,        \* where each thread is
  backoff,   \* the local of lock()
  mem,       \* the counter: the values written so far, in order
  view,      \* how many of these writes happen before the thread's next step
  tmp        \* what the client read from the counter

lockVars == <<flag, released, pc, backoff, mem, view, tmp>>

LockInit == /\ flag = FALSE
            /\ released = 1
            /\ pc = [t \in Threads |-> "idle"]
            /\ backoff = [t \in Threads |-> 1]
            /\ mem = <<0>>
            /\ view = [t \in Threads |-> 1]
            /\ tmp = [t \in Threads |-> 0]

Goto(t, l) == pc' = [pc EXCEPT ![t] = l]

Larger(a, b) == IF a < b THEN b ELSE a

\* Slip: the doubling is not capped.
BugGrow(b) == b * 2

\* backoff = min(backoff * 2, max_backoff_).
Grow(b) == IF b * 2 < MaxBackoff THEN b * 2 ELSE MaxBackoff

\* Slip: the flag is read and set in two accesses, the read being the test.
BugFree(t) == TRUE

\* What the compare-exchange compares: it always sees the latest flag_.
Free(t) == flag = FALSE

\* Slip: a relaxed success order.
BugAcquire(t) == UNCHANGED view

\* The acquire order of a successful compare-exchange.
Acquire(t) == view' = [view EXCEPT ![t] = Larger(view[t], released)]

\* lock(): the call.
LockCall(t) == /\ pc[t] = "idle"
               /\ Len(mem) <= MaxWrites
               /\ backoff' = [backoff EXCEPT ![t] = 1]
               /\ Goto(t, "test")
               /\ UNCHANGED <<flag, released, mem, view, tmp>>

\* flag_.load(relaxed) says held: pause(backoff), then double it.
Spin(t) == /\ pc[t] = "test"
           /\ StaleTests \/ flag
           /\ backoff' = [backoff EXCEPT ![t] = Grow(backoff[t])]
           /\ UNCHANGED <<flag, released, pc, mem, view, tmp>>

\* flag_.load(relaxed) says free.
TestPasses(t) == /\ pc[t] = "test"
                 /\ StaleTests \/ ~flag
                 /\ Goto(t, "cas")
                 /\ UNCHANGED <<flag, released, backoff, mem, view, tmp>>

\* compare_exchange_strong succeeds: lock() returns.
LockAcquires(t) == /\ pc[t] = "cas"
                   /\ Free(t)
                   /\ flag' = TRUE
                   /\ Acquire(t)
                   /\ Goto(t, "read")
                   /\ UNCHANGED <<released, backoff, mem, tmp>>

\* compare_exchange_strong fails: back to the test, the backoff is kept.
LockRetries(t) == /\ pc[t] = "cas"
                  /\ ~Free(t)
                  /\ Goto(t, "test")
                  /\ UNCHANGED <<flag, released, backoff, mem, view, tmp>>

\* try_lock() returns true.
TryLockAcquires(t) == /\ pc[t] = "idle"
                      /\ Len(mem) <= MaxWrites
                      /\ Free(t)
                      /\ flag' = TRUE
                      /\ Acquire(t)
                      /\ Goto(t, "read")
                      /\ UNCHANGED <<released, backoff, mem, tmp>>

\* try_lock() returns false: nothing changes.
TryLockFails(t) == /\ pc[t] = "idle"
                   /\ ~Free(t)
                   /\ UNCHANGED lockVars

\* The client reads the counter: a plain load, no newer than needed.
ClientReads(t) == /\ pc[t] = "read"
                  /\ \E k \in view[t]..Len(mem) : tmp' = [tmp EXCEPT ![t] = mem[k]]
                  /\ Goto(t, "write")
                  /\ UNCHANGED <<flag, released, backoff, mem, view>>

\* The client writes the counter back, incremented.
ClientWrites(t) == /\ pc[t] = "write"
                   /\ mem' = Append(mem, tmp[t] + 1)
                   /\ view' = [view EXCEPT ![t] = Len(mem) + 1]
                   /\ Goto(t, "unlock")
                   /\ UNCHANGED <<flag, released, backoff, tmp>>

\* Slip: a relaxed store in unlock().
BugUnlock(t) == /\ pc[t] = "unlock"
                /\ flag' = FALSE
                /\ Goto(t, "idle")
                /\ UNCHANGED <<released, backoff, mem, view, tmp>>

\* Slip: the flag is left set.
BugUnlockForgets(t) == /\ pc[t] = "unlock"
                       /\ released' = view[t]
                       /\ Goto(t, "idle")
                       /\ UNCHANGED <<flag, backoff, mem, view, tmp>>

\* unlock(): flag_.store(false, release).
Unlock(t) == /\ pc[t] = "unlock"
             /\ flag' = FALSE
             /\ released' = view[t]
             /\ Goto(t, "idle")
             /\ UNCHANGED <<backoff, mem, view, tmp>>

-----------------------------------------------------------------------------
LockStep(t) == Spin(t) \/ TestPasses(t) \/ LockAcquires(t) \/ LockRetries(t)

ClientStep(t) == ClientReads(t) \/ ClientWrites(t) \/ Unlock(t)

LockNext == \E t \in Threads :
              LockCall(t) \/ LockStep(t) \/ TryLockAcquires(t) \/ TryLockFails(t) \/ ClientStep(t)

LockSpec == LockInit /\ [][LockNext]_lockVars

\* Threads inside lock() and inside the critical section keep running, and
\* unlock's store does not stay invisible to the test for ever.
LockFairness == \A t \in Threads : /\ WF_lockVars(LockStep(t))
                                   /\ WF_lockVars(~flag /\ TestPasses(t))
                                   /\ WF_lockVars(ClientStep(t))

FairLockSpec == LockSpec /\ LockFairness

-----------------------------------------------------------------------------
(* Correctness.                                                            *)

\* Type invariant; the backoff stays within max_backoff_.
LockTypeOK ==
  /\ flag \in BOOLEAN
  /\ released \in Nat \ {0}
  /\ pc \in [Threads -> {"idle", "test", "cas", "read", "write", "unlock"}]
  /\ backoff \in [Threads -> 1..MaxBackoff]
  /\ mem \in Seq(Nat)
  /\ view \in [Threads -> Nat \ {0}]
  /\ tmp \in [Threads -> Nat]

Holds(t) == pc[t] \in {"read", "write", "unlock"}

\* At most one thread is between a successful lock() or try_lock() and its
\* unlock(), and the flag says so.
MutualExclusion ==
  /\ \A t, u \in Threads : Holds(t) /\ Holds(u) => t = u
  /\ flag <=> \E t \in Threads : Holds(t)

\* "Release semantics on unlock publish all prior writes to other threads":
\* the holder sees every earlier critical section's write, so no plain access
\* under the lock is a data race.
HolderSeesAll == \A t \in Threads : Holds(t) => view[t] = Len(mem)

\* No increment is lost, whatever the interleaving and the stale reads.
NoLostUpdate == \A k \in 1..Len(mem) : mem[k] = k - 1

\* As long as somebody waits in lock(), somebody gets the lock: a contended
\* lock never hangs.  (A single thread may starve, the lock is not fair.)
LockProgress == (\E t \in Threads : pc[t] \in {"test", "cas"}) ~> (\E t \in Threads : Holds(t))

\* The inductive invariant of SynchronizationProofs: what flag_ being free or
\* held says about the last unlock's published view and the counter.
LockInv == /\ LockTypeOK
           /\ MutualExclusion
           /\ mem # <<>>
           /\ NoLostUpdate
           /\ ~flag => released = Len(mem)
           /\ released <= Len(mem)
           /\ \A t \in Threads : view[t] <= Len(mem)
           /\ HolderSeesAll
           /\ \A t \in Threads : pc[t] = "write" => tmp[t] = Len(mem) - 1
=============================================================================
