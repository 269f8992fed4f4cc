-------------------------------- MODULE RwMutex --------------------------------
(***************************************************************************)
(* The reader-writer mutex of babus/detail/rw_mutex.hpp over the futex      *)
(* system calls of babus/detail/futex.hpp.  One 32-bit word says it all:    *)
(* 0 is write-locked, 1 is unlocked, 1 + n is held by n readers.            *)
(*                                                                          *)
(* Every atomic operation and every system call of the code is one action;  *)
(* any number of threads and processes interleave between them.  A client   *)
(* stands for one lock call and the guard it returns, so that a thread that *)
(* reads a slot while it already holds a view of it is two clients.         *)
(***************************************************************************)
EXTENDS Integers, FiniteSets

CONSTANTS
  Clients,    \* the lock calls that may be outstanding at once
  Width,      \* number of values of the lock word, 2^32 in the code
  MaxWake,    \* how many sleepers w_unlock asks the kernel to wake, 65536 in the code
  MayCrash    \* the clients whose process may die at any point

ASSUME ClientsAssumption == IsFiniteSet(Clients) /\ MayCrash \subseteq Clients
\* The code has no check against either limit; below them it is right.
ASSUME WidthAssumption   == Width \in Nat /\ Cardinality(Clients) + 1 < Width
ASSUME MaxWakeAssumption == MaxWake \in Nat /\ Cardinality(Clients) <= MaxWake

Locked   == 0
Unlocked == 1

VARIABLES
  value,   \* the lock word, in shared memory
  pc,      \* where each client is in its lock or unlock call
  mode,    \* which call it made: "read" (r_lock) or "write" (w_lock)
  old,     \* its local copy of the lock word
  dead     \* the clients whose process has died; pc says where

vars == <<value, pc, mode, old, dead>>

(***************************************************************************)
(* pc: idle -> load -> cas -> held, or -> wait -> asleep -> load again;      *)
(* held -> wake (the word is released, the FUTEX_WAKE still to come) -> idle *)
(***************************************************************************)
Locations == {"idle", "load", "cas", "wait", "asleep", "held", "wake"}

Init ==
  /\ value = Unlocked
  /\ pc    = [c \in Clients |-> "idle"]
  /\ mode  = [c \in Clients |-> "read"]
  /\ old   = [c \in Clients |-> Unlocked]
  /\ dead  = {}

Goto(c, l) == pc' = [pc EXCEPT ![c] = l]

-------------------------------------------------------------------------------
\* The futex of the lock word: the kernel's queue holds the clients that sleep
\* and live; a process that dies leaves it.

Sleepers == {c \in Clients \ dead : pc[c] = "asleep"}

\* The sets of sleepers a FUTEX_WAKE of n may wake.
Wakeable(n) ==
  {S \in SUBSET Sleepers :
     Cardinality(S) = IF Cardinality(Sleepers) <= n THEN Cardinality(Sleepers) ELSE n}

\* c wakes up to n sleepers, which go round their loop again.
FutexWake(c, n) ==
  \E S \in Wakeable(n) :
    pc' = [d \in Clients |-> IF d = c THEN "idle" ELSE IF d \in S THEN "load" ELSE pc[d]]

\* FUTEX_WAIT compares the word with the caller's copy and sleeps in one step;
\* with another word it returns EAGAIN.
FutexWait(c) ==
  /\ pc[c] = "wait"
  /\ Goto(c, IF value = old[c] THEN "asleep" ELSE "load")
  /\ UNCHANGED <<value, mode, old, dead>>

\* A signal ends the wait with EINTR: w_lock and r_lock throw runtime_error
\* and the caller goes on without the lock.
Interrupt(c) ==
  /\ pc[c] = "asleep"
  /\ Goto(c, "idle")
  /\ old' = [old EXCEPT ![c] = Unlocked]
  /\ UNCHANGED <<value, mode, dead>>

-------------------------------------------------------------------------------
\* Locking

Lock(c, m) ==
  /\ pc[c] = "idle"
  /\ Goto(c, "load")
  /\ mode' = [mode EXCEPT ![c] = m]
  /\ UNCHANGED <<value, old, dead>>

\* Wrong variant of AfterFailure: sleeps on a reader-held word too.
AlwaysWait(v) == "wait"

\* Where a client goes that has v in its copy and no lock: only a write-locked
\* word makes it sleep, so a writer that finds readers goes round and round.
AfterFailure(v) == IF v < Unlocked THEN "wait" ELSE "load"

\* Whether the compare-exchange is tried on a word read as v.
Tries(m, v) == IF m = "write" THEN v = Unlocked ELSE v # Locked

\* load() at the top of the loop.
Load(c) ==
  /\ pc[c] = "load"
  /\ old' = [old EXCEPT ![c] = value]
  /\ Goto(c, IF Tries(mode[c], value) THEN "cas" ELSE AfterFailure(value))
  /\ UNCHANGED <<value, mode, dead>>

Incremented(v) == (v + 1) % Width

\* Wrong variants of Decremented: fetch_add for fetch_sub; the subtraction left out.
AddInstead(v) == v + 1
NotDecremented(v) == v
Decremented(v) == (v - 1) % Width

\* What the compare-exchange of a client in mode m stores over v.
Acquired(m, v) == IF m = "write" THEN Locked ELSE Incremented(v)

\* Wrong variant of CompareExchange: stores without comparing.
BlindStore(c) ==
  /\ pc[c] = "cas"
  /\ value' = Acquired(mode[c], old[c])
  /\ old' = [old EXCEPT ![c] = Unlocked]
  /\ Goto(c, "held")
  /\ UNCHANGED <<mode, dead>>

\* compare_exchange_strong: takes the lock, or updates the local copy and falls
\* through to the futex.
CompareExchange(c) ==
  /\ pc[c] = "cas"
  /\ \/ /\ value = old[c]
        /\ value' = Acquired(mode[c], old[c])
        /\ old' = [old EXCEPT ![c] = Unlocked]
        /\ Goto(c, "held")
     \/ /\ value # old[c]
        /\ old' = [old EXCEPT ![c] = value]
        /\ Goto(c, AfterFailure(value))
        /\ UNCHANGED value
  /\ UNCHANGED <<mode, dead>>

-------------------------------------------------------------------------------
\* Unlocking: the atomic add or subtract, then (always for a writer, for a reader
\* only when it leaves the word unlocked) the wake.

WUnlock(c) ==
  /\ pc[c] = "held" /\ mode[c] = "write"
  /\ value' = Incremented(value)
  /\ Goto(c, "wake")
  /\ UNCHANGED <<mode, old, dead>>

RUnlock(c) ==
  /\ pc[c] = "held" /\ mode[c] = "read"
  /\ value' = Decremented(value)
  /\ Goto(c, IF value' = Unlocked THEN "wake" ELSE "idle")
  /\ UNCHANGED <<mode, old, dead>>

\* Wrong variant of WakeCount: w_unlock wakes one sleeper, as r_unlock does.
WakeOne(m) == 1

\* wake(65536) in w_unlock, wake(1) in r_unlock.
WakeCount(m) == IF m = "write" THEN MaxWake ELSE 1

Wake(c) ==
  /\ pc[c] = "wake"
  /\ FutexWake(c, WakeCount(mode[c]))
  /\ UNCHANGED <<value, mode, old, dead>>

-------------------------------------------------------------------------------
\* The process of c dies (std::terminate, a signal): nothing in shared memory is
\* cleaned up.
Crash(c) ==
  /\ c \in MayCrash
  /\ dead' = dead \cup {c}
  /\ UNCHANGED <<value, pc, mode, old>>

\* What a running client does next inside the code of the mutex.
Step(c) == \/ Load(c)
           \/ CompareExchange(c)
           \/ FutexWait(c)
           \/ WUnlock(c)
           \/ RUnlock(c)
           \/ Wake(c)

Next == \E c \in Clients \ dead : \/ \E m \in {"read", "write"} : Lock(c, m)
                                  \/ Step(c)
                                  \/ Interrupt(c)
                                  \/ Crash(c)

Spec == Init /\ [][Next]_vars

\* A live thread keeps running and keeps a lock for a bounded time; nothing is
\* assumed of new calls, signals and crashes.
Fairness == \A c \in Clients : WF_vars(c \notin dead /\ Step(c))

FairSpec == Spec /\ Fairness
-------------------------------------------------------------------------------
\* Properties

Readers == {c \in Clients : pc[c] = "held" /\ mode[c] = "read"}
Writers == {c \in Clients : pc[c] = "held" /\ mode[c] = "write"}

\* The variables have their types; the lock word stays within its width.
TypeOK ==
  /\ value \in 0 .. Width - 1
  /\ pc \in [Clients -> Locations]
  /\ mode \in [Clients -> {"read", "write"}]
  /\ old \in [Clients -> 0 .. Width - 1]
  /\ dead \subseteq MayCrash

\* A writer holds the lock alone, whatever the interleaving of the load, the
\* compare-exchange and the unlocks of any number of clients.  A holder that
\* crashed still counts: what it was writing is never seen by anyone.
MutualExclusion ==
  /\ Writers # {} => Readers = {}
  /\ \A c, d \in Writers : c = d

\* The lock word counts the holders, dead or alive, exactly: what the assertions
\* of w_unlock (the word was 0) and r_unlock (it was above 1) rely on.
ValueCountsHolders ==
  value = IF Writers # {} THEN Locked ELSE Unlocked + Cardinality(Readers)

\* The word moves in steps of one and no fetch_add, fetch_sub or compare-exchange wraps it;
\* w_unlock finds it write-locked and r_unlock finds a reader in it, as their assertions
\* say (which a release build leaves out).
WordNeverWraps ==
  [][/\ value' \in {value - 1, value, value + 1}
     /\ \A c \in Clients : /\ WUnlock(c) => value = Locked /\ value' = Unlocked
                           /\ RUnlock(c) => value > Unlocked /\ value' >= Unlocked]_vars

\* No lost wakeup: while a client sleeps in the futex, the client that will wake
\* every sleeper is there: a writer that holds the lock or has released the word and
\* not called FUTEX_WAKE yet.  In particular no sleeper ever depends on the single
\* wake of r_unlock (the FIXME there).  A writer that died counts: its sleepers are
\* stranded, which this does not exclude.
SleepersHaveWaker ==
  Sleepers # {} => \E c \in Clients : mode[c] = "write" /\ pc[c] \in {"held", "wake"}

\* A read lock is never waited for while another reader holds the lock: a callback
\* that formats the slot it is viewing (test/waiter.cc) takes a nested read lock,
\* and would deadlock with a waiting writer if this failed.
ReaderJoinsReaders ==
  [][\A c \in Clients :
       (Readers # {} /\ mode[c] = "read" /\ pc[c] \in {"load", "cas"})
         => pc'[c] # "wait"]_vars

\* The mutex implements the abstract reader-writer lock: every step takes or
\* releases the lock as that specification allows, or leaves its state alone.
Abstract == INSTANCE RwLock WITH readers <- Readers, writers <- Writers
ImplementsRwLock == Abstract!Spec

Trying(c) == pc[c] \in {"load", "cas", "wait", "asleep"}

\* Without crashes, whoever sleeps in the futex is woken.
SleeperWakes == \A c \in Clients : pc[c] = "asleep" ~> (pc[c] # "asleep" \/ dead # {})

Acquires(c) == pc[c] = "cas" /\ pc'[c] = "held"

\* Without crashes the lock is deadlock-free: whoever keeps trying in vain, asleep or
\* spinning on a word that readers hold, does so because others take the lock again
\* and again.  (Not starvation-free: readers may follow one another so that a writer
\* never finds the word at 1.)
DeadlockFree ==
  \A c \in Clients : \/ []<>(~Trying(c))
                     \/ []<><<\E d \in Clients : Acquires(d)>>_vars
                     \/ <>(dead # {})
===============================================================================
