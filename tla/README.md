# A TLA+ model of babus

babus is a publish/subscribe system over shared memory: a *domain* is a file in
`/dev/shm`, a *slot* (a channel) is another, and the processes that map them talk
through a reader-writer mutex and two kinds of 32-bit sequence counters, sleeping
on futexes.  There is no server; everything that can go wrong goes wrong between
two instructions of two processes.  These modules model those instructions,
check them with TLC on small instances, and prove some of the results with TLAPS
for every instance.

Paths below are relative to `src/`; `rw_mutex.hpp` and its neighbours are in
`babus/detail/`.

## 1. Inventory

| component | state | operations | hard parts | what makes it correct |
|---|---|---|---|---|
| `RwMutex` (`rw_mutex.hpp`, `futex.hpp`) | one 32-bit word in shared memory: 0 write-locked, 1 free, 1 + n held by n readers; the kernel's queue of sleepers | `w_lock`, `r_lock`, `w_unlock`, `r_unlock`, the RAII guard | load and compare-exchange interleave; the word is released before the wake; signals (EINTR throws); a process that dies with the lock | exclusion; the word counts the holders; no sleeper without a waker; a nested read never blocks; somebody always gets the lock |
| `Slot` (`domain.h`) | lock, `index`, `seq`, `length`, name, bytes | `write`, `read` (a `LockedView`) | four fields change one after the other; `seq` is loaded without the lock; `length` is loaded before it | a view shows one whole message and pins it |
| `SequenceCounter` (`sequence_counter.hpp`) | a 32-bit counter | `incrementNoFutexWake`, `increment`, `waitForChange` | sample, compare and sleep are three steps; wrap at 2^32 | no wakeup is lost after the sample |
| `Waiter` (`waiter.h`, `waiter.cc`) | targets with the last counter value seen of each slot | `subscribeTo`, `unsubscribeFrom`, `waitExclusive`, `forEachNewSlot` | what lands between a scan and the next sample; selective waking | no message slept through; callbacks see fresh messages |
| `MmapBuilder`, `openOrCreate` (`fs/mmap.cc`, `client.cc`) | files that outlive processes; header under construction | open, create, truncate, placement new, checks | creation race; a header used before it is finished; a creator that dies | one constructor; nobody gets a half-made slot |
| `ClientDomain::getSlot`, `SmallMap` (`client.cc`, `small_map.hpp`) | process-private vector of (`const char*`, slot) under a `std::mutex` | `getSlot`, `find`, `insert`, `erase` | keys are borrowed pointers | one mapping per name; the slot asked for is the slot returned |
| C interface (`ffi.cc`), Rust bindings (`babus-rs/src/`) | views and waiters as raw pointers | wrappers of the above, `forgetUnsafe` | a lock without a guard is copied, kept and lost; callbacks change the vector that is being scanned; a domain closed under its views | a slot is locked once per view; no message marked as seen that is not shown; writers get in |
| benchmark (`benchmark/profileBabus.cc`) | stop flag, producers, consumers | start, run, stop | shutdown races with the consumers' waits | every thread joins |
| Redis benchmark, demo, the text that formatters print | - | - | - | out of scope |

How they interact: a writer thread calls `Slot::write`, which takes the slot's
`RwMutex`, copies, sets `length`, increments `Slot::seq`, unlocks, increments
`Domain::seq` and wakes the futex of that counter.  A waiter thread calls
`waitExclusive`, which samples `Domain::seq` and sleeps on it, and then
`forEachNewSlot`, which compares each target's `Slot::seq` with the value it last
saw and calls back with a `LockedView`: a read lock held until the view dies.  Through the C interface that view has no
destructor: `forgetUnsafe` empties the guard, and the lock is released by whoever calls
`babus_unlock_view`.

## 2. Modules

| module | role | state and actions against the code |
|---|---|---|
| `RwLock` | abstract reader-writer lock | sets of readers and writers, acquired and released in one step |
| `RwMutex` | the mutex | `value` is the lock word; `pc`, `mode` and `old` the locals of one lock call.  `Load`, `CompareExchange`, `FutexWait` are the atomic operations of the loop of `w_lock` and `r_lock` (they differ in `Tries` and `Acquired`); `WUnlock`, `RUnlock` the add and the subtract; `Wake` the FUTEX_WAKE after them; `Interrupt` the EINTR that throws; `Crash` the death of a process |
| `RwMutexProofs`, `ChannelProofs`, `OpenOrCreateProofs`, `ViewsProofs`, `SlotTableProofs` | theorems about the module of the name | the inductive invariant, one lemma per action or group of actions, and the theorems (section 4) |
| `Mailbox` | abstract slots | the current message of each slot, and the open views |
| `Channel` | `Slot`, both counters, `Waiter` | one action per access to shared memory in `Slot::write` (`WLock` ... `Wake`), `waitExclusive` (`WaitExclusive`, `Compare`, `FutexWait`), `forEachNewSlot` and `Slot::read` (`CheckAndUpdate`, `LoadLength`, `RLock`, `Release`).  A thread that finds a slot write-locked may sleep (`WLockSleeps`, `RLockSleeps`), and is interrupted there (`WriteThrows`, `ReadThrows`) even after the writer has released the word and not called FUTEX_WAKE yet.  The slots' locks are `RwLock`s (`SlotLock(s) == INSTANCE RwLock ...`): the proof that `RwMutex` implements `RwLock` is what allows one step for taking one.  The slot is passed as a bound value (`\E s \in {slot[p]} : ...`), because a prime inside the instance would otherwise apply to `slot[p]` too |
| `OpenOrCreate` | `MmapBuilder::build`, both `openOrCreate` | a domain's and a slot's file and the fields of their headers; creating, giving a size, mapping (any of which may fail), constructing field by field, checking, writing, closing |
| `Subscriptions` | abstract Waiter | the slots subscribed to, with the counter value last seen of each |
| `Views` | C interface and Rust bindings, `SmallMap` of a Waiter | one thread: `held` are its C_LockedViews, `readers` the locks, `buf` and `size` the vector of targets, `it` and `end` the iterators of `forEachNewSlot`.  `ReadLockedView`, `UnlockView`, `CopyToVec`, `DomainClose`; `Subscribe` (`insert`), `Unsubscribe` (`erase`, whose swap is `Erased`); `ForEachNewSlot`, `Check`, `Callback`, `Return`, `ScanEnds`, with the thread's own calls between `Callback` and `Return`; `WriteSlot`; `LockSleeps`, and the signals that end such a sleep, `ReadThrows` and `WriteThrows`; another thread's `Slot::write` in three steps.  `base`, `looked` and `told` are history |
| `Directory` | abstract slot table | names that get a mapping once; calls with their replies |
| `SlotTable` | `ClientDomain::getSlot`, `SmallMap`, the formatter of `ClientDomain` | `items` is the vector of the map, each key the address of a caller's buffer, `text` what the buffers hold, `owner` the holder of `processPrivateMtx_`.  `GetSlot`, `Lock`, `Advance`/`Found`/`NotFound` (one comparison of `find` each, in the three searches of a call), `Open`, `PushBack`, `Unlock` (return or exception); `Format`, and the read lock of each slot that the formatter takes with the mutex held: `FormatSlot`, or `FormatSleeps`, `FormatWakes` and `FormatThrows` when the slot is in `locked`, the slots that somebody in any process holds write-locked (`OthersLock`, `OthersUnlock`); `Reuse` is a caller that frees a buffer and uses it for another name |
| `MCChannel` | instance for TLC | symmetry of the writers, which `channel_crash` uses: it checks safety properties only; the other runs and modules are checked as they are |

A *client* of `RwMutex` is one lock call and the guard it returns, so a thread that
reads a slot while it holds a view of it is two clients.  In `Channel` a message is
its number in the slot and its length; `whole` is false between the first and the
last byte of the memcpy.  `Index(s)` is 0 because no code assigns `Slot::index`.
Operators called a wrong variant in their comment are no part of the model: they
are what a plausible bug would make of the definition that follows them, and each
property is seen to fail with one of them.

## 3. What the runs check

Passing runs:

| run | instance | shows |
|---|---|---|
| `rwmutex` | 3 clients, all may die, signals, fair | `MutualExclusion`, `ValueCountsHolders` and `WordNeverWraps` (what the assertions of the unlock functions say), `SleepersHaveWaker` (no lost wakeup: the FIXME at `r_unlock`'s single wake is harmless, because every sleeper is owed a wake by a *writer*; one that died counts, so that sleepers it stranded are not excluded), `ImplementsRwLock`, `ReaderJoinsReaders` (a callback may format the slot it views), `SleeperWakes`, `DeadlockFree` (who keeps trying in vain, a writer that spins among readers included, is kept out by others that take the lock again and again: the starvation of a writer is allowed, because the code does not prevent it) |
| `channel_crash` | 2 slots, 2 writers, 1 waiter, 2 lengths, 2 writes; anyone may die or get a signal | `ImplementsMailbox` (a view shows the slot's bytes up to its `length`; the length in the view's own span is `channel_span`'s), `HeaderMatchesData`, `ViewIsFresh`, `SleeperIsOwedAWake` (a writer that died still counts as the one that owes the wake) |
| `channel_live` | 1 slot, 2 writers, 2 waiters, fair | `AnnouncedMessageIsShown`, `ScanShowsNewMessages` |
| `slot_table` | 2 threads, 3 buffers, 2 valid names and an invalid one, 4 calls, signals, fair | `ImplementsDirectory`, `NoInternalError` (both while keys stay alive), `EveryCallReturns` (unless a formatter, which has the mutex, waits for ever for a slot: one whose writer died, or that is write-locked again whenever it tries; then `getSlot` of every name hangs) |
| `open_or_create` | 3 processes, 2 may die, 1 of these has failing system calls, 2 writes, fair | `OneConstructor`, `OpenSlotIsConstructed`, `SlotSeqCountsUp`, `OpenOfConstructedSucceeds` (a file left empty or half-made by a creator that died is no constructed file, and stays unusable) |
| `views` | 3 slots, 1 thread with 2 calls, 1 other writer, 2 writes, signals, fair | `LocksAreViews` (no guard unlocks behind a view's back), `NoTargetTwice` and `SeenIsShown` (callbacks that unsubscribe make a scan skip a target and look at an erased one again, but no target that is subscribed is looked at twice, and nothing is marked as seen that is neither shown nor answered with an exception), `ScanShowsAll`, `ImplementsSubscriptions`, `WritersGetIn` (unless a view was leaked, or the thread writes a slot that it views) |

What `NoTargetTwice` does not say: after the targets [A, B], where A's callback
unsubscribes A, the memory of the vector is B with the erased A behind it, and the scan
meets A again.  If A was written in between, A is called back once more, after it was
unsubscribed, and B is skipped until the next scan.  The model has this behaviour; the
property is that only erased elements are met again.

Runs that end with a counterexample, each a disagreement between the code and what
its documentation says:

| run | property | the behaviour |
|---|---|---|
| `channel_unseen` | `NoSleepOnUnseen` | subscribe (or scan); a write completes; `waitExclusive` samples the counter *after* it and sleeps, with the message unseen, until the next write |
| `channel_span` | `SpanMatchesMessage` | `Slot::read` loads `length`; a write completes; the lock is taken: new bytes, old length |
| `channel_wakes` | `WakesOnlyThatMust` | a waiter sleeps with bit 0, which every slot's writes wake, also slots it is not subscribed to or subscribed to with `wakeWith = false` |
| `channel_wrap` | `ScanVisitsChanged` | the counter wraps, the new value is smaller, `checkAndUpdate` says "not new" (two counter values stand for 2^32) |
| `slot_table_rust` | `ReturnsSlotAskedFor` | Rust's `get_slot` passes a temporary string; the next one has the same address and is equal to the stored key, whatever it holds: the first slot is returned |
| `open_reset` | `DomainSeqCountsUp` | a process opens the domain right after its creator wrote the magic number, writes a message, and the creator sets the counter to 0 |

**Bounds.**  `RwMutex` has no bound on the length of a behaviour; the number of
clients and the width of the word are finite, and the theorems cover every
number of clients.  Three clients are
a holder, a sleeper and one that comes in between, in every combination of modes.  In `Channel`, `MaxWrites` bounds the calls of
`Slot::write`: two let a write land before, inside and after any step of a reader,
and let two writers overtake each other between a slot's counter and the
domain's; `MaxWake`, 65536 in the code, is the number of waiters, as small as
`MaxWakeAssumption` allows; `SeqMod` is larger than the number of writes, so that the counters do not
wrap except in `channel_wrap`.  `WakeFlags` is `{TRUE}` (the default argument)
except in `channel_wakes`, because `waitExclusive` ignores the flag.  In
`SlotTable`, `MaxCalls` is 4: two threads that miss the same name, a third call that
finds it at the second place, a fourth that formats; `KeysStayAlive` is the contract
that the warning in `keyIsSame` states, and only `slot_table_rust` is without it.  In
`OpenOrCreate`, three processes are a creator, one that loses the race and one
that comes in the middle.  In `Views`, `MaxCalls` bounds reads, scans and writes, not
subscriptions, unlocks or closings: two are a scan and a view, a write or a second scan
during it or after it.  Three slots let a callback erase an element with two others around
it, so that one target is passed, one moved and one erased; the run also passes with two
slots and three calls, a view that is kept across a scan and what follows it.

**Deadlock checking** is off where the system may really stop: everyone is dead,
every call that the bound allows has been made and the waiters sleep, or a writer waits
for a view that is lost or its own.

**Fairness.**  A live thread executes its next instruction inside a call, and drops a
lock or a view after a bounded time (weak fairness of `Step`, `WriterStep`,
`WaiterStep`, `Return`, `UnlockView`, `OtherLocks` and `OtherUnlocks`): the kernel
schedules runnable threads.  Nothing is assumed of calls that are not made yet, of
signals, or of crashes, nor, in `SlotTable`, of the threads that write-lock the slots: they
need not ever unlock.  Taking a slot's lock is only weakly fair, so no run claims
that a writer gets in against readers that follow one another without end; the code
does not ensure it.  `ScanShowsNewMessages` relies on writers that pause and
`WritersGetIn` on readers that do, which the bounds on calls provide.

## 4. What is proved

Every safety property that a passing run checks is also a theorem, for every value of
the constants that the assumptions of its module allow, and so is every refinement.  Each
proof module defines an inductive invariant `IInv`, which TLC has checked on the instance
of the run, and goes the same way: `InitInv` and one lemma per action give `NextInv`,
these give `Invariance` (`Spec => []IInv`), and the theorems follow from it.

| theorem | property | of |
|---|---|---|
| `TypeCorrect` | `TypeOK` | all five modules |
| `Exclusion`, `CountsHolders`, `NoLostWakeup` | `MutualExclusion`, `ValueCountsHolders`, `SleepersHaveWaker` | `RwMutex` |
| `NoWrap`, `NestedReads` | `WordNeverWraps`, `ReaderJoinsReaders` (actions) | `RwMutex` |
| `Refinement` | `ImplementsRwLock` | `RwMutex` |
| `HeadersAgree`, `ViewsAreFresh`, `WakesAreOwed` | `HeaderMatchesData`, `ViewIsFresh`, `SleeperIsOwedAWake` | `Channel` |
| `Refinement` | `ImplementsMailbox` | `Channel` |
| `CreationIsExclusive`, `OpenSlotsAreUsable` | `OneConstructor`, `OpenSlotIsConstructed` | `OpenOrCreate` |
| `SlotCounterCountsUp` | `SlotSeqCountsUp` (action) | `OpenOrCreate` |
| `ViewsHoldTheLocks`, `TargetsAreReadOnce`, `SeenMessagesAreShown`, `ScansShowAll` | `LocksAreViews`, `NoTargetTwice`, `SeenIsShown`, `ScanShowsAll` | `Views` |
| `Refinement` | `ImplementsSubscriptions` | `Views` |
| `NoErrors` | `NoInternalError`, if `KeysStayAlive` | `SlotTable` |
| `RightSlot` | (`ReturnsSlotAskedFor`, which `slot_table_rust` sees fail without `KeysStayAlive`) | `SlotTable` |
| `MutexIsReleased` | (`OwnerInv`) | `SlotTable` |
| `Refinement` | `ImplementsDirectory`, if `KeysStayAlive` | `SlotTable` |

**RwMutex**, for every finite set of clients, every width above their number plus one and
every wake limit not below it (`ClientsAssumption`, `WidthAssumption`,
`MaxWakeAssumption`; the code has 2^32 and 65536 and checks neither).  `MutualExclusion`
is not inductive: a compare-exchange that finds the word at 1 must know that nobody holds
the lock, which is what `ValueCountsHolders` says, and that needs exact arithmetic on the
word.  That the word never wraps is a theorem of its own (`NoWrap`): `TypeOK` says nothing
of it, because the arithmetic is modulo `Width`; it follows from `ValueCountsHolders` and
from `WidthAssumption`, that there are fewer clients than the word can count.  `SleepersHaveWaker` is preserved by a
client that falls asleep because its copy is 0 (`CopiesInv`), the word equals the copy,
and a word of 0 means a writer holds the lock; it is preserved by a writer's wake because
the wake reaches every sleeper, and by a reader's because the writer that the sleepers
wait for is someone else.

**Channel**, for every set of slots and writers, every set of crashing and interrupted
threads, every modulus of the counters, and as many waiters as one wake reaches
(`MaxWakeAssumption`, as above).  A view shows a whole message because a writer and a
reader of a slot exclude each other (`ExclusionInv`) and because of what each writer has
done to its slot by where it is (`HeaderInv`); the properties alone say nothing about a
slot while it is held.  A dead writer stays where it is, so that its slot is held for
ever and never half-written under a view.  Types need `CallsInv`: a slot's
version plus the calls that have not copied yet is at most the number of calls, and so is
the domain's counter plus the calls that have not announced; without it the next increment
might leave its range.  `ViewIsFresh` needs `LastInv`: no waiter has seen more than a
counter's value, because what a load returns is never more than what was counted, whether
or not the counter has wrapped.  `SleeperIsOwedAWake` needs `LocationInv`, that nobody
waits without a subscription, and that every slot has the same index: a writer's wake then
reaches every sleeper.  In the refinement, `StartCopy` is `Publish`, `RLock` is `Open`,
`Release` is `Close`; every other step leaves the mailbox as it is, `FinishCopy` and
`SetLength` because nobody is looking.

**OpenOrCreate**, for every set of processes, any of which may die or have failing system
calls.  `MakersInv` widens `OneConstructor` to the steps between the exclusive create and
the first field.  `FieldsInv` orders the fields: who sets a field has set the ones
before it, and nobody is making a slot that has its name, which is what `OpenedInv` needs
of a process that has passed the check of the name.  `CountersInv` says that no message is
counted in a slot without a name, so that the field's initialisation sets a zero to zero
(`SlotSeqCountsUp`), and counts the messages announced late.  No such argument exists for
the domain's counter, whose check is the first field: `open_reset`.

**Views**, for every set of slots and every number of calls and writes.  The vector's
memory holds different slots, those of erased elements included (`DistinctInv`): the swap
of `erase` exchanges two elements and shortens the vector, so that what lies behind its
end is no copy.  `ScanInv` bounds the iterators by the memory (and says that
nothing is erased from it but by a callback).  `LookedInv` says that what is ahead of the
iterator and still an element was not looked at in this scan: a swap
moves only the last element, to an earlier place (which is ahead only if the last one
was), and what it leaves at the end is no element any more.  `NoTargetTwice` follows, because different elements are different slots; the
erased elements ahead are those that a scan may read again.  `PassedInv` adds
what the targets that the scan has passed were shown, and `CountInv` that counters do not
move back.  The refinement of `Subscriptions` goes through the function that the vector
stands for: `SubscribeSeen`, `UnsubscribeSeen` and `CheckSeen` say what
`insert`, `erase` and `checkAndUpdate` do to it.

**SlotTable**, for every set of threads, names and buffers.  That the mutex is held exactly
between `lock` and the end of the call (`OwnerInv`) is proved for any callers.  The rest is
proved for callers that keep the buffers that became keys (`KeysStayAlive`), which the
warning in `keyIsSame` asks for; `slot_table_rust` shows that it is needed.  `KeysInv` says
that a key still spells the name it was inserted with, and `Knows` what the thread with the
mutex has learned from the pairs its search has passed: the name is missing when it is
inserted, and found afterwards.

Only model-checked: liveness (`SleeperWakes`, `DeadlockFree`, `ScanShowsNewMessages`,
`AnnouncedMessageIsShown`, `EveryCallReturns`, `OpenOfConstructedSucceeds`,
`WritersGetIn`), because reasoning about fairness needs `ENABLED`, which the prover does
not handle; and the counterexamples, which are single behaviours.

## 5. Not modelled

- Payload bytes, names as strings, sizes, mapping flags and addresses; formatting and
  logging.
- Memory ordering weaker than sequential consistency: every atomic access of the
  code is `seq_cst`, and the plain fields are written under the lock.  The one
  plain field read outside it (`length`) is a data race, modelled as a read of the
  value before or after the store.
- Spurious returns of a futex wait: both callers loop or scan, as after EAGAIN.
- Callbacks that subscribe or that call `forEachNewSlot` again, and a domain closed before
  its Waiters or in a callback: what happens then is undefined (`push_back` frees the
  memory under the iterators; waiter.h:11 asks the domain to outlive its Waiters).  An
  exception that leaves an `extern "C"` function is modelled as it reaches a C++ caller;
  a Rust caller's process dies of it (`RwMutex` and `Channel` have crashes).
  `babus_waiter_free` calls `free` on an object made with `new`, so that the vector of
  targets leaks; no property is about memory.
- Callers that break the C interface's contract and unlock a view twice, as a copy of a
  `C_LockedView` lets them: `UnlockView` happens once for each view.
- A failing `open` of a file that exists, and files deleted from `/dev/shm` by hand.
- The benchmark: its consumers are `Channel`'s waiters, its stop message one more write,
  which `channel_unseen` shows they may sleep through; the Redis benchmark; the text that
  formatters print; the demo.

## 6. Plan

Done, in this order: `RwLock`, `RwMutex`, `RwMutexProofs`; `Mailbox`, `Channel`;
`OpenOrCreate`; `Directory`, `SlotTable`; `Subscriptions`, `Views`; `OpenOrCreateProofs`,
`ViewsProofs`, `SlotTableProofs`, `ChannelProofs`.

Next: action properties that the runs do not state yet (a view's message does not change
while it is held, a waiter leaves the futex only when woken or interrupted), and the safety
halves of the liveness properties, what a thread needs to go on.
