------------------------------- MODULE Channel -------------------------------
(***************************************************************************)
(* The message path of babus: Slot::write and Slot::read (domain.h), the    *)
(* sequence counters (detail/sequence_counter.hpp) and the Waiter           *)
(* (waiter.h, waiter.cc), for slots that every process has opened already.  *)
(*                                                                          *)
(* A slot is a page of shared memory: a lock, a sequence counter, a length  *)
(* and the bytes of its latest message.  The domain adds one more counter,  *)
(* incremented by every write, whose futex the waiters sleep on.  A writer  *)
(* copies its message under the slot's lock, increments the slot's counter, *)
(* unlocks, increments the domain's counter and wakes the sleepers.  A      *)
(* waiter samples the domain's counter, sleeps until it changes, and then   *)
(* compares every subscribed slot's counter with the last value it saw.     *)
(*                                                                          *)
(* The slots' locks are RwLocks, which RwMutex implements: taking one is    *)
(* one step here.  A thread may fall asleep in a lock that is write-held,   *)
(* and then get a signal: also after the release, before the wake.          *)
(***************************************************************************)
EXTENDS Integers, FiniteSets

CONSTANTS
  Slots,
  Writers,        \* threads that write slots
  Waiters,        \* threads that own a Waiter and read slots
  Lengths,        \* the lengths of messages
  WakeFlags,      \* the values of wakeWith that callers of subscribeTo pass
  SeqMod,         \* number of values of a sequence counter, 2^32 in the code
  MaxWake,        \* how many sleepers a write asks the kernel to wake, 65536 in the code
  MaxWrites,      \* bound: calls of Slot::write in a behaviour
  MayCrash,       \* threads whose process may die at any point
  MayInterrupt    \* threads that may get a signal while a futex has them asleep

Threads == Writers \cup Waiters

ASSUME ThreadsAssumption ==
  Writers \cap Waiters = {} /\ MayCrash \subseteq Threads /\ MayInterrupt \subseteq Threads
ASSUME InputsAssumption == Lengths \subseteq Nat /\ WakeFlags \subseteq BOOLEAN /\ Slots # {}
ASSUME MaxWakeAssumption ==
  IsFiniteSet(Waiters) /\ MaxWake \in Nat /\ Cardinality(Waiters) <= MaxWake
ASSUME CountersAssumption == SeqMod \in Nat \ {0} /\ MaxWrites \in Nat

VARIABLES
  data,       \* [Slots -> [ver, len, whole]]: which message the bytes are of (its
              \*   number in the slot and its length) and whether all of it is there
  length,     \* [Slots -> Nat]: Slot::length
  count,      \* [Slots -> Nat]: increments of Slot::seq
  domCount,   \* increments of Domain::seq
  calls,      \* calls of Slot::write so far
  pc,         \* where each thread is
  slot,       \* the slot that its call is about
  len,        \* a writer's message length, the span.len of a waiter's view
  sub,        \* the slots each Waiter is subscribed to
  wakeWith,   \* those of them that it asked to be woken with
  last,       \* WaitTarget::lastSeq_ of each waiter and slot
  prv,        \* the domain counter as waitExclusive sampled it
  todo,       \* the targets that forEachNewSlot has still to check
  dead        \* threads whose process has died

shared == <<data, length, count, domCount>>
waiter == <<sub, wakeWith, last, prv, todo>>
vars   == <<shared, waiter, calls, pc, slot, len, dead>>

\* Where a thread's local variable points that holds no slot.
NoSlot == CHOOSE s \in Slots : TRUE

\* What a 32-bit load of a counter returns.
Seq(s) == count[s] % SeqMod
DomSeq == domCount % SeqMod

WLocking == {"wlock", "wsleep"}   \* in w_lock, awake or asleep in its futex
RLocking == {"rlock", "rsleep"}   \* in r_lock
WriterLocations ==
  {"idle", "copy", "copying", "length", "seq", "wunlock", "dominc", "wake"} \cup WLocking
WaiterLocations ==
  {"idle", "compare", "wait", "asleep", "scan", "read", "view"} \cup RLocking

Init ==
  /\ data     = [s \in Slots |-> [ver |-> 0, len |-> 0, whole |-> TRUE]]
  /\ length   = [s \in Slots |-> 0]
  /\ count    = [s \in Slots |-> 0]
  /\ domCount = 0
  /\ calls    = 0
  /\ pc       = [t \in Threads |-> "idle"]
  /\ slot     = [t \in Threads |-> NoSlot]
  /\ len      = [t \in Threads |-> 0]
  /\ sub      = [w \in Waiters |-> {}]
  /\ wakeWith = [w \in Waiters |-> {}]
  /\ last     = [w \in Waiters |-> [s \in Slots |-> 0]]
  /\ prv      = [w \in Waiters |-> 0]
  /\ todo     = [w \in Waiters |-> {}]
  /\ dead     = {}

Goto(t, l) == pc' = [pc EXCEPT ![t] = l]

\* The locals of a call that ends.
Forget(t) == slot' = [slot EXCEPT ![t] = NoSlot] /\ len' = [len EXCEPT ![t] = 0]

-------------------------------------------------------------------------------
\* The slots' locks

WriteHolders(s) ==
  {p \in Writers : slot[p] = s /\ pc[p] \in {"copy", "copying", "length", "seq", "wunlock"}}
ReadHolders(s) == {w \in Waiters : slot[w] = s /\ pc[w] = "view"}

SlotLock(s) == INSTANCE RwLock WITH
                 Clients <- Threads, readers <- ReadHolders(s), writers <- WriteHolders(s)

-------------------------------------------------------------------------------
\* The futex of the domain's counter

\* A sleeper waits with the bits of its targets, a writer wakes with the bit of its
\* slot.  No code assigns Slot::index: it stays 0.
Index(s) == 0
Mask(w) == {Index(s) : s \in sub[w]}

Sleepers == {w \in Waiters \ dead : pc[w] = "asleep"}

\* The sleepers that wait with the bit of s.
Matching(s) == {w \in Sleepers : Index(s) \in Mask(w)}

\* FUTEX_WAKE_BITSET of n sleepers: as many as there are, any n of them if there are more.
Wakeable(s, n) ==
  {W \in SUBSET Matching(s) :
     Cardinality(W) = IF Cardinality(Matching(s)) <= n THEN Cardinality(Matching(s)) ELSE n}

\* Wrong variant of Woken: a wake of a single sleeper.
OneWoken(s) == Wakeable(s, 1)

\* Whom wakeBitset(65536, 1 << index) may wake.
Woken(s) == Wakeable(s, MaxWake)

\* The waiters of W return from waitExclusive and go on to forEachNewSlot, which every
\* caller does.
StartScan(W) ==
  /\ todo' = [w \in Waiters |-> IF w \in W THEN sub[w] ELSE todo[w]]
  /\ prv' = [w \in Waiters |-> IF w \in W THEN 0 ELSE prv[w]]

-------------------------------------------------------------------------------
\* Slot::write

Write(p, s, l) ==
  /\ pc[p] = "idle" /\ calls < MaxWrites
  /\ Goto(p, "wlock")
  /\ slot' = [slot EXCEPT ![p] = s]
  /\ len' = [len EXCEPT ![p] = l]
  /\ calls' = calls + 1
  /\ UNCHANGED <<shared, waiter, dead>>

\* Wrong variant of WLock: only writers exclude each other.
WLockIgnoringReaders(p) ==
  /\ pc[p] \in WLocking
  /\ WriteHolders(slot[p]) = {}
  /\ Goto(p, "copy")
  /\ UNCHANGED <<shared, waiter, calls, slot, len, dead>>

WLock(p) ==
  /\ pc[p] \in WLocking
  /\ Goto(p, "copy")
  /\ UNCHANGED <<shared, waiter, calls, slot, len, dead>>
  /\ \E s \in {slot[p]} : SlotLock(s)!AcquireWrite(p)

\* w_lock sleeps on a write-locked word.  (Among readers it spins.)
WLockSleeps(p) ==
  /\ pc[p] = "wlock" /\ WriteHolders(slot[p]) # {}
  /\ Goto(p, "wsleep")
  /\ UNCHANGED <<shared, waiter, calls, slot, len, dead>>

\* The memcpy: between its first and its last byte the slot holds parts of two messages.
StartCopy(p) ==
  /\ pc[p] = "copy"
  /\ data' = [data EXCEPT ![slot[p]] = [ver |-> @.ver + 1, len |-> len[p], whole |-> FALSE]]
  /\ Goto(p, "copying")
  /\ UNCHANGED <<length, count, domCount, waiter, calls, slot, len, dead>>

FinishCopy(p) ==
  /\ pc[p] = "copying"
  /\ data' = [data EXCEPT ![slot[p]].whole = TRUE]
  /\ Goto(p, "length")
  /\ UNCHANGED <<length, count, domCount, waiter, calls, slot, len, dead>>

\* Wrong variant of NewLength: the length only ever grows.
GrownLength(p) == IF len[p] > length[slot[p]] THEN len[p] ELSE length[slot[p]]
NewLength(p) == len[p]

SetLength(p) ==
  /\ pc[p] = "length"
  /\ length' = [length EXCEPT ![slot[p]] = NewLength(p)]
  /\ Goto(p, "seq")
  /\ UNCHANGED <<data, count, domCount, waiter, calls, slot, len, dead>>

IncrementSlotSeq(p) ==
  /\ pc[p] = "seq"
  /\ count' = [count EXCEPT ![slot[p]] = @ + 1]
  /\ Goto(p, "wunlock")
  /\ UNCHANGED <<data, length, domCount, waiter, calls, slot, len, dead>>

WUnlock(p) ==
  /\ pc[p] = "wunlock"
  /\ Goto(p, "dominc")
  /\ UNCHANGED <<shared, waiter, calls, slot, len, dead>>
  /\ \E s \in {slot[p]} : SlotLock(s)!ReleaseWrite(p)

\* Wrong variant of Increment: by two.
IncrementTwice(n) == n + 2
Increment(n) == n + 1

\* SequenceCounter::increment on the domain's counter: the increment, then the wake.
IncrementDomainSeq(p) ==
  /\ pc[p] = "dominc"
  /\ domCount' = Increment(domCount)
  /\ Goto(p, "wake")
  /\ UNCHANGED <<data, length, count, waiter, calls, slot, len, dead>>

Wake(p) ==
  /\ pc[p] = "wake"
  /\ \E W \in Woken(slot[p]) :
         /\ pc' = [t \in Threads |-> IF t = p THEN "idle" ELSE IF t \in W THEN "scan" ELSE pc[t]]
         /\ StartScan(W)
  /\ Forget(p)
  /\ UNCHANGED <<shared, sub, wakeWith, last, calls, dead>>

\* A signal while w_lock sleeps: it throws out of Slot::write.
WriteThrows(p) ==
  /\ p \in MayInterrupt
  /\ pc[p] = "wsleep"
  /\ Goto(p, "idle")
  /\ Forget(p)
  /\ UNCHANGED <<shared, waiter, calls, dead>>

-------------------------------------------------------------------------------
\* Waiter: subscriptions

\* The WaitTarget samples the slot's counter.  A second subscription to a slot throws
\* and changes nothing.
Subscribe(w, s, wake) ==
  /\ pc[w] = "idle" /\ s \notin sub[w]
  /\ sub' = [sub EXCEPT ![w] = @ \cup {s}]
  /\ wakeWith' = [wakeWith EXCEPT ![w] = IF wake THEN @ \cup {s} ELSE @]
  /\ last' = [last EXCEPT ![w][s] = Seq(s)]
  /\ UNCHANGED <<shared, prv, todo, calls, pc, slot, len, dead>>

Unsubscribe(w, s) ==
  /\ pc[w] = "idle" /\ s \in sub[w]
  /\ sub' = [sub EXCEPT ![w] = @ \ {s}]
  /\ wakeWith' = [wakeWith EXCEPT ![w] = @ \ {s}]
  /\ last' = [last EXCEPT ![w][s] = 0]
  /\ UNCHANGED <<shared, prv, todo, calls, pc, slot, len, dead>>

-------------------------------------------------------------------------------
\* Waiter::waitExclusive

WaitExclusive(w) ==
  /\ pc[w] = "idle" /\ sub[w] # {}
  /\ prv' = [prv EXCEPT ![w] = DomSeq]
  /\ Goto(w, "compare")
  /\ UNCHANGED <<shared, sub, wakeWith, last, todo, calls, slot, len, dead>>

\* The load at the start of waitForChange.
Compare(w) ==
  /\ pc[w] = "compare"
  /\ IF DomSeq # prv[w] THEN Goto(w, "scan") /\ StartScan({w})
                        ELSE Goto(w, "wait") /\ UNCHANGED <<todo, prv>>
  /\ UNCHANGED <<shared, sub, wakeWith, last, calls, slot, len, dead>>

\* Wrong variant of Again: the kernel is not asked to compare.
Never(w) == FALSE
Again(w) == DomSeq # prv[w]

\* FUTEX_WAIT_BITSET: compares and sleeps in one step, or returns EAGAIN.
FutexWait(w) ==
  /\ pc[w] = "wait"
  /\ IF Again(w) THEN Goto(w, "scan") /\ StartScan({w})
                 ELSE Goto(w, "asleep") /\ UNCHANGED <<todo, prv>>
  /\ UNCHANGED <<shared, sub, wakeWith, last, calls, slot, len, dead>>

\* EINTR is logged by waitForChange, which returns as if the counter had changed.
InterruptWait(w) ==
  /\ w \in MayInterrupt
  /\ pc[w] = "asleep"
  /\ Goto(w, "scan") /\ StartScan({w})
  /\ UNCHANGED <<shared, sub, wakeWith, last, calls, slot, len, dead>>

-------------------------------------------------------------------------------
\* Waiter::forEachNewSlot and Slot::read

\* forEachNewSlot may also be called without a wait.
ForEachNewSlot(w) ==
  /\ pc[w] = "idle" /\ sub[w] # {}
  /\ Goto(w, "scan") /\ StartScan({w})
  /\ UNCHANGED <<shared, sub, wakeWith, last, calls, slot, len, dead>>

\* Where w goes after it has dealt with a slot.
AfterSlot(rest) == IF rest = {} THEN "idle" ELSE "scan"

\* Wrong variant of IsNew: a counter that moved by more than one is not noticed.
IsNext(new, old) == new = old + 1

\* The comparison of checkAndUpdate.
IsNew(new, old) == new > old

\* One target: WaitTarget::checkAndUpdate, and the call of Slot::read if it is new.  The
\* targets are in the order that insertions and swap-erasures gave: any order.
CheckAndUpdate(w, s) ==
  /\ pc[w] = "scan" /\ s \in todo[w]
  /\ todo' = [todo EXCEPT ![w] = @ \ {s}]
  /\ IF IsNew(Seq(s), last[w][s])
     THEN /\ last' = [last EXCEPT ![w][s] = Seq(s)]
          /\ slot' = [slot EXCEPT ![w] = s]
          /\ Goto(w, "read")
     ELSE /\ Goto(w, AfterSlot(todo'[w]))
          /\ UNCHANGED <<last, slot>>
  /\ UNCHANGED <<shared, sub, wakeWith, prv, calls, len, dead>>

\* A read of a slot outside forEachNewSlot, by ClientSlot::read.
Read(w, s) ==
  /\ pc[w] = "idle"
  /\ slot' = [slot EXCEPT ![w] = s]
  /\ Goto(w, "read")
  /\ UNCHANGED <<shared, waiter, calls, len, dead>>

\* Slot::read builds the span, which loads length, before it takes the lock.
LoadLength(w) ==
  /\ pc[w] = "read"
  /\ len' = [len EXCEPT ![w] = length[slot[w]]]
  /\ Goto(w, "rlock")
  /\ UNCHANGED <<shared, waiter, calls, slot, dead>>

\* Wrong variant of RLock: the view is handed out without the lock.
RLockUnguarded(w) ==
  /\ pc[w] \in RLocking
  /\ Goto(w, "view")
  /\ UNCHANGED <<shared, waiter, calls, slot, len, dead>>

RLock(w) ==
  /\ pc[w] \in RLocking
  /\ Goto(w, "view")
  /\ UNCHANGED <<shared, waiter, calls, slot, len, dead>>
  /\ \E s \in {slot[w]} : SlotLock(s)!AcquireRead(w)

\* r_lock sleeps on a write-locked word.
RLockSleeps(w) ==
  /\ pc[w] = "rlock" /\ WriteHolders(slot[w]) # {}
  /\ Goto(w, "rsleep")
  /\ UNCHANGED <<shared, waiter, calls, slot, len, dead>>

\* The LockedView goes out of scope: r_unlock, and on to the next target.
Release(w) ==
  /\ pc[w] = "view"
  /\ Goto(w, AfterSlot(todo[w]))
  /\ Forget(w)
  /\ UNCHANGED <<shared, waiter, calls, dead>>
  /\ \E s \in {slot[w]} : SlotLock(s)!ReleaseRead(w)

\* A signal while r_lock sleeps: it throws out of Slot::read and forEachNewSlot, past the
\* targets still to check.
ReadThrows(w) ==
  /\ w \in MayInterrupt
  /\ pc[w] = "rsleep"
  /\ Goto(w, "idle")
  /\ todo' = [todo EXCEPT ![w] = {}]
  /\ Forget(w)
  /\ UNCHANGED <<shared, sub, wakeWith, last, prv, calls, dead>>

-------------------------------------------------------------------------------
Crash(t) ==
  /\ t \in MayCrash
  /\ dead' = dead \cup {t}
  /\ UNCHANGED <<shared, waiter, calls, pc, slot, len>>

\* What a thread does next inside a call.
WriterStep(p) == \/ WLock(p)
                 \/ StartCopy(p)
                 \/ FinishCopy(p)
                 \/ SetLength(p)
                 \/ IncrementSlotSeq(p)
                 \/ WUnlock(p)
                 \/ IncrementDomainSeq(p)
                 \/ Wake(p)

WaiterStep(w) == \/ Compare(w)
                 \/ FutexWait(w)
                 \/ \E s \in Slots : CheckAndUpdate(w, s)
                 \/ LoadLength(w)
                 \/ RLock(w)
                 \/ Release(w)

\* The calls a waiter's thread makes.
WaiterCall(w) == \/ \E s \in Slots, wake \in WakeFlags : Subscribe(w, s, wake)
                 \/ \E s \in Slots : Unsubscribe(w, s)
                 \/ \E s \in Slots : Read(w, s)
                 \/ WaitExclusive(w)
                 \/ ForEachNewSlot(w)

Next == \/ \E p \in Writers \ dead : \/ \E s \in Slots, l \in Lengths : Write(p, s, l)
                                     \/ WriterStep(p)
                                     \/ WLockSleeps(p)
                                     \/ WriteThrows(p)
        \/ \E w \in Waiters \ dead : \/ WaiterCall(w)
                                     \/ WaiterStep(w)
                                     \/ InterruptWait(w)
                                     \/ RLockSleeps(w)
                                     \/ ReadThrows(w)
        \/ \E t \in Threads \ dead : Crash(t)

Spec == Init /\ [][Next]_vars

\* A live thread finishes the call it is in and drops its view; nothing is assumed of
\* new calls, signals and crashes.
Fairness == /\ \A p \in Writers : WF_vars(p \notin dead /\ WriterStep(p))
            /\ \A w \in Waiters : WF_vars(w \notin dead /\ WaiterStep(w))

FairSpec == Spec /\ Fairness

-------------------------------------------------------------------------------
\* Properties

\* The variables have their types.
TypeOK ==
  /\ data \in [Slots -> [ver : 0 .. MaxWrites, len : Lengths \cup {0}, whole : BOOLEAN]]
  /\ length \in [Slots -> Lengths \cup {0}]
  /\ count \in [Slots -> 0 .. MaxWrites]
  /\ domCount \in 0 .. MaxWrites
  /\ calls \in 0 .. MaxWrites
  /\ pc \in [Threads -> WriterLocations \cup WaiterLocations]
  /\ slot \in [Threads -> Slots]
  /\ len \in [Threads -> Lengths \cup {0}]
  /\ sub \in [Waiters -> SUBSET Slots]
  /\ wakeWith \in [Waiters -> SUBSET Slots]
  /\ last \in [Waiters -> [Slots -> 0 .. SeqMod - 1]]
  /\ prv \in [Waiters -> 0 .. SeqMod - 1]
  /\ todo \in [Waiters -> SUBSET Slots]
  /\ dead \subseteq MayCrash

\* Whenever no writer holds a slot, alive or dead, its header and its bytes agree: the
\* whole of one message, its length, and as many increments as messages.  (Slot::write
\* changes the four of them one after the other.)
HeaderMatchesData ==
  \A s \in Slots :
    WriteHolders(s) = {} =>
      /\ data[s].whole
      /\ length[s] = data[s].len
      /\ count[s] = data[s].ver

\* The callback of forEachNewSlot sees a message at least as new as the increment that
\* caused the call, although checkAndUpdate loads the counter without the lock.  (While
\* the counters have not wrapped.)
ViewIsFresh ==
  \A w \in Waiters :
    (pc[w] = "view" /\ slot[w] \in sub[w])
      => data[slot[w]].whole /\ data[slot[w]].ver >= last[w][slot[w]]

\* No lost wakeup: if the domain's counter has moved on from the value a sleeper
\* sampled, some writer has incremented it and not called FUTEX_WAKE yet, on a
\* bit that the sleeper waits with.  (Unless that writer's process died in between.)
SleeperIsOwedAWake ==
  \A w \in Sleepers :
    domCount % SeqMod # prv[w] =>
      \E p \in Writers : pc[p] = "wake" /\ Index(slot[p]) \in Mask(w)

\* The bytes a view of s shows, taken with the slot's length; -1 if they are parts of two
\* messages.
Shown(s) ==
  [ver |-> data[s].ver, len |-> IF data[s].whole THEN length[s] ELSE -1]

\* The slots are a mailbox: a message is published when its first byte is copied, and
\* nobody can tell that from publishing it at once; a view shows one message until it
\* is released.
Box == INSTANCE Mailbox WITH
         Viewers <- Waiters,
         current <- [s \in Slots |-> [ver |-> data[s].ver, len |-> data[s].len]],
         views   <- {[who |-> w, slot |-> slot[w], msg |-> Shown(slot[w])] :
                        w \in {v \in Waiters : pc[v] = "view"}}
ImplementsMailbox == Box!Spec

\* A message that a scan has still to look at is shown to the callback before the
\* waiter goes back to waiting, whatever the writers do meanwhile, if no
\* process dies and no signal arrives.  MaxWrites stands for writers that pause at
\* times: r_lock itself is not starvation-free.
ScanShowsNewMessages ==
  \A w \in Waiters, s \in Slots :
    (s \in todo[w] /\ Seq(s) > last[w][s]) ~> (pc[w] = "view" /\ slot[w] = s)

\* Under the same conditions, a message announced after waitExclusive sampled the
\* domain's counter, before or after the waiter fell asleep, wakes it and is shown.
AnnouncedMessageIsShown ==
  \A w \in Waiters, s \in Slots :
    (pc[w] \in {"compare", "wait", "asleep"} /\ DomSeq # prv[w]
       /\ s \in sub[w] /\ Seq(s) > last[w][s])
      ~> (pc[w] = "view" /\ slot[w] = s)

-------------------------------------------------------------------------------
\* What the documentation says and the code does not do

\* "putting the thread to sleep until data are ready": no waiter sleeps while a slot it
\* wakes with has a message it has not seen, unless the writer is still announcing it.
NoSleepOnUnseen ==
  \A w \in Sleepers : \A s \in wakeWith[w] :
    \/ Seq(s) = last[w][s]
    \/ \E p \in Writers : slot[p] = s /\ pc[p] \in {"wunlock", "dominc", "wake"}

\* A view's span has the length of the message it shows.
SpanMatchesMessage ==
  \A w \in Waiters : pc[w] = "view" => len[w] = data[slot[w]].len

\* A sleeper is woken only for the slots it asked to be woken with.
WakesOnlyThatMust ==
  \A w \in Sleepers, s \in Slots : Index(s) \in Mask(w) => s \in wakeWith[w]

\* "For any that change, execute a user callable f": a scan passes over no slot whose
\* counter differs from the value last seen.
ScanVisitsChanged ==
  [][\A w \in Waiters : \A s \in todo[w] \ todo'[w] :
       Seq(s) # last[w][s] => pc'[w] = "read"]_vars
===============================================================================
