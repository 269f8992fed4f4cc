-------------------------------- MODULE Views --------------------------------
(***************************************************************************)
(* A thread that uses babus through the C interface (ffi.cc), as the Rust   *)
(* bindings do: the views it holds, and the Waiter whose callbacks hand     *)
(* them out.  Another thread writes the slots.                              *)
(*                                                                          *)
(* A C_LockedView is a read lock without a guard: forgetUnsafe takes it     *)
(* from the guard, and babus_unlock_view gives it back, in the callback or  *)
(* later: once for each view, as free is called once for each malloc.  (C   *)
(* may copy the struct, and nothing in it says that the lock is gone.)  A   *)
(* Waiter's targets are a vector that forEachNewSlot iterates over with the *)
(* two iterators it took at the start; a callback that unsubscribes swaps   *)
(* the vector's elements and shortens it meanwhile.                         *)
(*                                                                          *)
(* Taking a lock is one step, as RwLock allows; a message is its number.    *)
(* Callbacks do not subscribe: push_back may move the vector and leave the  *)
(* iteration in freed memory.                                               *)
(***************************************************************************)
EXTENDS Integers, Sequences

CONSTANTS
  Slots,
  MaxWrites,   \* bound: messages written in a behaviour
  MaxCalls     \* bound: reads, scans and writes of the thread in a behaviour

ASSUME BoundsAssumption == MaxWrites \in Nat /\ MaxCalls \in Nat /\ Slots # {}

VARIABLES
  seq,      \* [Slots -> Nat]: the sequence counters
  readers,  \* [Slots -> Nat]: read locks on each slot
  writer,   \* [Slots -> {"out", "waits", "in"}]: where another thread's Slot::write is
  held,     \* [Slots -> Nat]: C_LockedViews the thread has not disposed of
  lost,     \* [Slots -> Nat]: C_LockedViews that nobody can unlock any more
  buf,      \* the memory of the vector of targets: [slot, last] records
  size,     \* how many of them are elements; those behind are what is left of the ones
            \*   erased during a scan (only a scan's iterators lead to them)
  pc,       \* where the thread is
  arg,      \* the slot that its call is about
  it, end,  \* the iterators of forEachNewSlot, as indices into buf; 0 outside of it
  base,     \* history: the counters when the last call of forEachNewSlot began
  looked,   \* history: the slots whose counters it has looked at
  told,     \* history: the newest message of each slot that a callback was shown, an
            \*   exception was thrown for, or subscribeTo started from
  calls

locks   == <<readers, writer>>
views   == <<held, lost>>
targets == <<buf, size>>
scan    == <<it, end, base, looked>>
vars    == <<seq, locks, views, targets, pc, arg, scan, told, calls>>

NoSlot == CHOOSE s \in Slots : TRUE
Zero   == [s \in Slots |-> 0]

Init ==
  /\ seq = Zero /\ readers = Zero /\ writer = [s \in Slots |-> "out"]
  /\ held = Zero /\ lost = Zero
  /\ buf = << >> /\ size = 0
  /\ pc = "user" /\ arg = NoSlot
  /\ it = 0 /\ end = 0 /\ base = Zero /\ looked = {} /\ told = Zero
  /\ calls = 0

\* The thread's own code runs: outside of every call, or in a callback.
InCallback == pc = "user" /\ it > 0
Idle       == pc = "user" /\ it = 0

\* In the lock of Slot::read or Slot::write, awake or asleep in its futex.
Reading == pc \in {"read", "rsleep"}
Writing == pc \in {"write", "wsleep"}

Find(s) == {i \in 1 .. size : buf[i].slot = s}

-------------------------------------------------------------------------------
\* Views

\* Slot::read, its guard forgotten: the read lock is the view's from now on.
TakeView(s) ==
  /\ writer[s] # "in"
  /\ readers' = [readers EXCEPT ![s] = @ + 1]
  /\ held' = [held EXCEPT ![s] = @ + 1]

\* babus_client_slot_read_locked_view
ReadLockedView(s) ==
  /\ pc = "user" /\ calls < MaxCalls
  /\ TakeView(s)
  /\ calls' = calls + 1
  /\ UNCHANGED <<seq, writer, lost, targets, pc, arg, scan, told>>

\* Wrong variant of UnlockView: the view goes, its lock stays.
DropView(s) ==
  /\ pc = "user" /\ held[s] > 0
  /\ held' = [held EXCEPT ![s] = @ - 1]
  /\ UNCHANGED <<seq, locks, lost, targets, pc, arg, scan, told, calls>>

\* babus_unlock_view, which the Drop of Rust's LockedView calls, of a view that has not been
\* unlocked yet
UnlockView(s) ==
  /\ pc = "user" /\ held[s] > 0
  /\ held' = [held EXCEPT ![s] = @ - 1]
  /\ readers' = [readers EXCEPT ![s] = @ - 1]
  /\ UNCHANGED <<seq, writer, lost, targets, pc, arg, scan, told, calls>>

\* copy_to_vec consumes a view and does not unlock it; C_LockedView has no Drop, so
\* a view from ClientSlot::read that goes out of scope is lost the same way.
CopyToVec(s) ==
  /\ pc = "user" /\ held[s] > 0
  /\ held' = [held EXCEPT ![s] = @ - 1]
  /\ lost' = [lost EXCEPT ![s] = @ + 1]
  /\ UNCHANGED <<seq, locks, targets, pc, arg, scan, told, calls>>

-------------------------------------------------------------------------------
\* Targets: SmallMap::insert and SmallMap::erase

\* subscribeTo; a second subscription throws and changes nothing.
Subscribe(s) ==
  /\ Idle /\ Find(s) = {}
  /\ buf' = Append(buf, [slot |-> s, last |-> seq[s]])
  /\ size' = size + 1
  /\ told' = [told EXCEPT ![s] = seq[s]]
  /\ UNCHANGED <<seq, locks, views, pc, arg, scan, calls>>

\* Wrong variant of Erased: a copy instead of the swap.
Overwritten(i) == [buf EXCEPT ![i] = buf[size]]

\* The swap of erase: the element to remove goes last, the last one takes its place.
Erased(i) == [buf EXCEPT ![i] = buf[size], ![size] = buf[i]]

\* unsubscribeFrom, possibly in a callback; without a subscription it throws and
\* changes nothing.
Unsubscribe(s) ==
  /\ pc = "user"
  /\ \E i \in Find(s) : buf' = IF Idle THEN SubSeq(Erased(i), 1, size - 1) ELSE Erased(i)
  /\ size' = size - 1
  /\ UNCHANGED <<seq, locks, views, pc, arg, scan, told, calls>>

\* babus_client_domain_close, after the Waiters are gone, and a new open: the locks of
\* views that are still held stay in shared memory, without a mapping to unlock them.
DomainClose ==
  /\ Idle /\ size = 0
  /\ held # Zero /\ held' = Zero
  /\ lost' = [s \in Slots |-> lost[s] + held[s]]
  /\ UNCHANGED <<seq, locks, targets, pc, arg, scan, told, calls>>

\* babus_waiter_free, and the alloc of another Waiter: the views stay as they are.
WaiterFree ==
  /\ Idle /\ size > 0
  /\ buf' = << >> /\ size' = 0
  /\ UNCHANGED <<seq, locks, views, pc, arg, scan, told, calls>>

-------------------------------------------------------------------------------
\* forEachNewSlot

\* Wrong variants of End: off by one, either way.
BeyondEnd == size + 1
BeforeEnd == size - 1

\* targets_.end(), as the range-for takes it.
End == size

\* Back to the caller, the iterators gone.
Leave == /\ pc' = "user" /\ it' = 0 /\ end' = 0 /\ base' = Zero /\ looked' = {}
         /\ buf' = SubSeq(buf, 1, size)

ForEachNewSlot ==
  /\ Idle /\ calls < MaxCalls
  /\ it' = 1 /\ end' = End /\ base' = seq /\ looked' = {}
  /\ pc' = "scan"
  /\ calls' = calls + 1
  /\ UNCHANGED <<seq, locks, views, targets, arg, told>>

\* Wrong variant of Checked: the other targets are marked as seen, too.
CheckedAll(i) == [j \in DOMAIN buf |-> [buf[j] EXCEPT !.last = seq[buf[j].slot]]]

\* The assignment of checkAndUpdate.
Checked(i) == [buf EXCEPT ![i].last = seq[buf[i].slot]]

\* checkAndUpdate on the element under the iterator, which may be an erased one.
Check ==
  /\ pc = "scan" /\ it <= end
  /\ IF seq[buf[it].slot] > buf[it].last
     THEN /\ buf' = Checked(it)
          /\ arg' = buf[it].slot
          /\ pc' = "read"
          /\ UNCHANGED it
     ELSE it' = it + 1 /\ UNCHANGED <<buf, arg, pc>>
  /\ looked' = looked \cup {buf[it].slot}
  /\ UNCHANGED <<seq, locks, views, size, end, base, told, calls>>

\* Slot::read, and the call of the callback with the view.
Callback ==
  /\ Reading
  /\ TakeView(arg)
  /\ told' = [told EXCEPT ![arg] = seq[arg]]
  /\ pc' = "user"
  /\ UNCHANGED <<seq, writer, lost, targets, arg, scan, calls>>

\* r_lock or w_lock finds the slot write-locked, and sleeps.  (Among readers w_lock spins.)
LockSleeps ==
  /\ pc \in {"read", "write"} /\ writer[arg] = "in"
  /\ pc' = IF pc = "read" THEN "rsleep" ELSE "wsleep"
  /\ UNCHANGED <<seq, locks, views, targets, arg, scan, told, calls>>

\* A signal ends the sleep, even after the word was released and before the wake: r_lock
\* throws, out of forEachNewSlot.
ReadThrows ==
  /\ pc = "rsleep"
  /\ told' = [told EXCEPT ![arg] = seq[arg]]
  /\ arg' = NoSlot
  /\ Leave
  /\ UNCHANGED <<seq, locks, views, size, calls>>

\* Wrong variant of GuardReleases: the guard was not made to forget its lock.
GuardUnlocks == readers' = [readers EXCEPT ![arg] = @ - 1]

\* The destructor of the guard that forgetUnsafe has emptied.
GuardReleases == UNCHANGED readers

Return ==
  /\ InCallback
  /\ GuardReleases
  /\ it' = it + 1 /\ pc' = "scan" /\ arg' = NoSlot
  /\ UNCHANGED <<seq, writer, views, targets, end, base, looked, told, calls>>

ScanEnds ==
  /\ pc = "scan" /\ it > end
  /\ Leave
  /\ UNCHANGED <<seq, locks, views, size, arg, told, calls>>

-------------------------------------------------------------------------------
\* Writing

Total == LET Sum[S \in SUBSET Slots] ==
               IF S = {} THEN 0 ELSE LET s == CHOOSE s \in S : TRUE IN seq[s] + Sum[S \ {s}]
         IN  Sum[Slots]

\* babus_client_slot_write; in w_lock it waits for its own views as for any other.
WriteSlot(s) ==
  /\ pc = "user" /\ calls < MaxCalls /\ Total < MaxWrites
  /\ pc' = "write" /\ arg' = s
  /\ calls' = calls + 1
  /\ UNCHANGED <<seq, locks, views, targets, scan, told>>

Written ==
  /\ Writing /\ readers[arg] = 0 /\ writer[arg] # "in"
  /\ seq' = [seq EXCEPT ![arg] = @ + 1]
  /\ pc' = "user" /\ arg' = NoSlot
  /\ UNCHANGED <<locks, views, targets, scan, told, calls>>

\* A signal while w_lock sleeps: it throws out of Slot::write.
WriteThrows ==
  /\ pc = "wsleep"
  /\ pc' = "user" /\ arg' = NoSlot
  /\ UNCHANGED <<seq, locks, views, targets, scan, told, calls>>

\* Slot::write of another thread
OtherWrites(s) ==
  /\ \A t \in Slots : writer[t] = "out"
  /\ Total < MaxWrites
  /\ writer' = [writer EXCEPT ![s] = "waits"]
  /\ UNCHANGED <<seq, readers, views, targets, pc, arg, scan, told, calls>>

OtherLocks(s) ==
  /\ writer[s] = "waits" /\ readers[s] = 0
  /\ writer' = [writer EXCEPT ![s] = "in"]
  /\ UNCHANGED <<seq, readers, views, targets, pc, arg, scan, told, calls>>

OtherUnlocks(s) ==
  /\ writer[s] = "in"
  /\ seq' = [seq EXCEPT ![s] = @ + 1]
  /\ writer' = [writer EXCEPT ![s] = "out"]
  /\ UNCHANGED <<readers, views, targets, pc, arg, scan, told, calls>>

-------------------------------------------------------------------------------
\* What the library does next inside a call of the thread.
Step == Check \/ Callback \/ ScanEnds \/ Written

Call(s) == \/ ReadLockedView(s)
           \/ UnlockView(s)
           \/ CopyToVec(s)
           \/ Subscribe(s)
           \/ Unsubscribe(s)
           \/ WriteSlot(s)

Next == \/ Step
        \/ ForEachNewSlot
        \/ Return
        \/ LockSleeps
        \/ ReadThrows
        \/ WriteThrows
        \/ WaiterFree
        \/ DomainClose
        \/ \E s \in Slots : \/ Call(s)
                            \/ OtherWrites(s)
                            \/ OtherLocks(s)
                            \/ OtherUnlocks(s)

Spec == Init /\ [][Next]_vars

\* Threads are scheduled; callbacks return, and a view is unlocked some day.
Fairness == /\ WF_vars(Step) /\ WF_vars(Return)
            /\ \A s \in Slots : /\ WF_vars(UnlockView(s))
                                /\ WF_vars(OtherLocks(s)) /\ WF_vars(OtherUnlocks(s))

FairSpec == Spec /\ Fairness

-------------------------------------------------------------------------------
\* Properties

\* The variables have their types.
TypeOK ==
  /\ seq \in [Slots -> Nat] /\ readers \in [Slots -> Nat]
  /\ writer \in [Slots -> {"out", "waits", "in"}]
  /\ held \in [Slots -> Nat] /\ lost \in [Slots -> Nat]
  /\ buf \in Seq([slot : Slots, last : Nat]) /\ size \in 0 .. Len(buf)
  /\ pc \in {"user", "scan", "read", "rsleep", "write", "wsleep"} /\ arg \in Slots
  /\ it \in Nat /\ end \in 0 .. Len(buf)
  /\ base \in [Slots -> Nat] /\ looked \subseteq Slots /\ told \in [Slots -> Nat]
  /\ calls \in 0 .. MaxCalls

\* A slot is read-locked once by each view that was handed out and not unlocked, even by
\* those that copy_to_vec or the end of their domain has taken away, across callbacks,
\* exceptions and the end of the Waiter: no guard unlocks behind a view's back, and
\* none forgets to.
LocksAreViews == \A s \in Slots : readers[s] = held[s] + lost[s]

\* The elements that the current scan has still to look at.
Ahead == (IF pc = "scan" THEN it ELSE it + 1) .. end

\* A scan looks twice at no target that is subscribed, wherever the swaps of callbacks that
\* unsubscribe have put it, and so tells no message of it twice: what the iterators
\* meet again is an erased element, whose slot is no target any more.  (That one
\* is met again: after [A, B], where A's callback unsubscribes A, the scan goes on with
\* the A behind B, and calls back with it once more if it was written.)
NoTargetTwice ==
  it > 0 => \A i \in Ahead : buf[i].slot \in looked => Find(buf[i].slot) = {}

\* checkAndUpdate marks no message as seen that is not shown, or answered with an
\* exception, next: a target that a scan skips, because an unsubscription in a callback
\* moved it behind the iterator, keeps its message for the next scan.
SeenIsShown ==
  \A i \in 1 .. size : \/ told[buf[i].slot] >= buf[i].last
                       \/ Reading /\ arg = buf[i].slot

\* When a scan without unsubscriptions ends, every message that was counted before it
\* began has been shown, or answered with an exception: neither unsubscriptions in
\* earlier scans nor earlier exceptions hide another slot's message.
ScanShowsAll ==
  (pc = "scan" /\ it > end /\ size >= end) =>
    \A i \in 1 .. size : told[buf[i].slot] >= base[buf[i].slot]

\* The vector is a set of subscriptions, whatever its order.
Subs == INSTANCE Subscriptions WITH
          seen <- [s \in {buf[i].slot : i \in 1 .. size} |->
                     buf[CHOOSE i \in 1 .. size : buf[i].slot = s].last]
ImplementsSubscriptions == Subs!Spec

\* A lock was leaked, or the thread waits for one that only it could release.
Stuck == \E s \in Slots : lost[s] > 0 \/ (Writing /\ arg = s /\ held[s] > 0)

\* Another thread's write gets in, if no view was leaked and no callback or holder of a
\* view writes the slot that it views.  (There is one such write at a time.)  MaxCalls
\* stands for readers that pause.
WritersGetIn ==
  (\E s \in Slots : writer[s] = "waits") ~> ((\E s \in Slots : writer[s] = "in") \/ Stuck)
===============================================================================
