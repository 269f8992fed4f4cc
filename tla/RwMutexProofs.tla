---------------------------- MODULE RwMutexProofs ----------------------------
(***************************************************************************)
(* RwMutex is right for every number of clients below the width of the      *)
(* lock word and the wake limit: it excludes, its word counts the holders   *)
(* and never wraps, it loses no wakeup, and it implements RwLock.           *)
(***************************************************************************)
EXTENDS RwMutex, FiniteSetTheorems, TLAPS

\* What a client may rely on between two of its steps: the compare-exchange is only
\* tried on a word that admits it, and FUTEX_WAIT only entered with a locked word.
CopiesInv ==
  \A c \in Clients : /\ pc[c] = "cas" => Tries(mode[c], old[c])
                     /\ pc[c] = "wait" => old[c] = Locked

\* The inductive invariant.  ValueCountsHolders is what makes MutualExclusion
\* inductive, and CopiesInv what ties the word a sleeper saw to the writer that
\* will wake it.
IInv ==
  /\ TypeOK
  /\ CopiesInv
  /\ MutualExclusion
  /\ ValueCountsHolders
  /\ SleepersHaveWaker

-------------------------------------------------------------------------------
\* Arithmetic on the lock word: % Width yields a word, and is the identity below the limit.
LEMMA ModRange ==
  ASSUME NEW n \in Nat, n > 0, NEW a \in Int
  PROVE  a % n \in 0 .. n - 1
OBVIOUS

LEMMA ModIdentity ==
  ASSUME NEW n \in Nat, NEW a \in Nat, a < n
  PROVE  a % n = a
OBVIOUS

\* The number of readers is a natural number that, with the unlocked word's 1, fits
\* the lock word.
LEMMA ReadersFit ==
  ASSUME NEW R \in SUBSET Clients
  PROVE  /\ IsFiniteSet(R)
         /\ Cardinality(R) \in Nat
         /\ Cardinality(R) <= Cardinality(Clients)
         /\ 1 + Cardinality(R) < Width
         /\ Cardinality(R) <= MaxWake
<1>1. IsFiniteSet(R) /\ Cardinality(R) <= Cardinality(Clients)
  BY ClientsAssumption, FS_Subset
<1>2. Cardinality(R) \in Nat /\ Cardinality(Clients) \in Nat
  BY <1>1, ClientsAssumption, FS_CardinalityType
<1> QED  BY <1>1, <1>2, WidthAssumption, MaxWakeAssumption

\* The word has room for at least the locked and the unlocked value.
LEMMA WidthAboveOne ==
  Width \in Nat /\ 1 < Width
BY WidthAssumption, ClientsAssumption, FS_CardinalityType

\* A wake whose limit is no smaller than the number of clients wakes every sleeper.
LEMMA WakesAll ==
  ASSUME NEW S \in Wakeable(MaxWake)
  PROVE  S = Sleepers
<1>1. Sleepers \in SUBSET Clients
  BY DEF Sleepers
<1>2. IsFiniteSet(Sleepers) /\ Cardinality(Sleepers) <= MaxWake
  BY <1>1, ReadersFit
<1>3. S \in SUBSET Sleepers /\ Cardinality(S) = Cardinality(Sleepers)
  BY <1>2 DEF Wakeable
<1> QED  BY <1>2, <1>3, FS_Subset

\* A step that lets nobody into the critical section or out of it leaves the holders
\* as they are.
LEMMA SameHolders ==
  ASSUME \A c \in Clients : /\ pc'[c] = "held" <=> pc[c] = "held"
                            /\ pc[c] = "held" => mode'[c] = mode[c]
  PROVE  Readers' = Readers /\ Writers' = Writers
BY DEF Readers, Writers

\* The lock word tells who holds the lock.
LEMMA WordTellsHolders ==
  ASSUME IInv
  PROVE  /\ value = Locked <=> Writers # {}
         /\ value = Unlocked => Readers = {}
         /\ Readers # {} => value > Unlocked
         /\ Writers = {} => value = Unlocked + Cardinality(Readers)
<1>1. Readers \in SUBSET Clients
  BY DEF Readers
<1>2. IsFiniteSet(Readers) /\ Cardinality(Readers) \in Nat
  BY <1>1, ReadersFit
<1>3. Cardinality(Readers) = 0 <=> Readers = {}
  BY <1>2, FS_EmptySet
<1> QED
  BY <1>2, <1>3 DEF IInv, ValueCountsHolders, MutualExclusion, Locked, Unlocked

\* The atomic operations on the word: each finds in it what its caller relies on, and the
\* result fits.
LEMMA WUnlockWord ==
  ASSUME IInv, NEW c \in Clients, WUnlock(c)
  PROVE  value = Locked /\ value' = Unlocked
<1>1. value = Locked
  BY WordTellsHolders DEF WUnlock, Writers
<1> QED  BY <1>1, WidthAboveOne, ModIdentity DEF WUnlock, Incremented, Locked, Unlocked

LEMMA RUnlockWord ==
  ASSUME IInv, NEW c \in Clients, RUnlock(c)
  PROVE  value > Unlocked /\ value' = value - 1
<1>1. value > Unlocked
  BY WordTellsHolders DEF RUnlock, Readers
<1>2. value \in 0 .. Width - 1 /\ value' = (value - 1) % Width
  BY DEF IInv, TypeOK, RUnlock, Decremented
<1>3. value - 1 \in Nat /\ value - 1 < Width
  BY <1>1, <1>2, WidthAboveOne DEF Unlocked
<1> QED  BY <1>1, <1>2, <1>3, WidthAboveOne, ModIdentity

LEMMA CompareExchangeWord ==
  ASSUME IInv, NEW c \in Clients, CompareExchange(c)
  PROVE  /\ value' \in {value - 1, value, value + 1}
         /\ (value = old[c] /\ mode[c] = "read") => value' = value + 1
<1>1. CASE value # old[c]
  BY <1>1 DEF CompareExchange
<1>2. CASE value = old[c] /\ mode[c] = "write"
  BY <1>2 DEF IInv, CopiesInv, Tries, CompareExchange, Acquired, Locked, Unlocked
<1>3. CASE value = old[c] /\ mode[c] = "read"
  <2>1. Writers = {} /\ value = Unlocked + Cardinality(Readers)
    BY <1>3, WordTellsHolders DEF IInv, CopiesInv, Tries, CompareExchange
  <2>2. c \notin Readers /\ Readers \in SUBSET Clients /\ Readers \cup {c} \in SUBSET Clients
    BY DEF CompareExchange, Readers
  <2>3. Cardinality(Readers \cup {c}) = Cardinality(Readers) + 1
    BY <2>2, ReadersFit, FS_AddElement
  <2>4. value + 1 \in Nat /\ value + 1 < Width
    BY <2>1, <2>2, <2>3, ReadersFit DEF Unlocked
  <2>5. value' = (value + 1) % Width
    BY <1>3 DEF CompareExchange, Acquired, Incremented
  <2> QED  BY <2>4, <2>5, ModIdentity, WidthAssumption
<1> QED  BY <1>1, <1>2, <1>3 DEF IInv, TypeOK

-------------------------------------------------------------------------------
\* One lemma per kind of step: what it does to the holders, and that it keeps IInv.

\* The steps that leave the word and the holders alone and put nobody to sleep.
LEMMA LockStep ==
  ASSUME IInv, NEW c \in Clients, NEW m \in {"read", "write"}, Lock(c, m)
  PROVE  IInv' /\ Readers' = Readers /\ Writers' = Writers
<1>1. Readers' = Readers /\ Writers' = Writers
  BY SameHolders DEF IInv, TypeOK, Lock, Goto
<1>2. TypeOK'
  BY DEF IInv, TypeOK, Lock, Goto, Locations
<1>3. CopiesInv'
  BY DEF IInv, TypeOK, CopiesInv, Lock, Goto, Tries
<1>4. MutualExclusion' /\ ValueCountsHolders'
  BY <1>1 DEF IInv, MutualExclusion, ValueCountsHolders, Lock
<1>5. SleepersHaveWaker'
  BY DEF IInv, TypeOK, SleepersHaveWaker, Sleepers, Lock, Goto
<1> QED  BY <1>1, <1>2, <1>3, <1>4, <1>5 DEF IInv

LEMMA LoadStep ==
  ASSUME IInv, NEW c \in Clients, Load(c)
  PROVE  IInv' /\ Readers' = Readers /\ Writers' = Writers
<1>1. Readers' = Readers /\ Writers' = Writers
  BY SameHolders DEF IInv, TypeOK, Load, Goto, AfterFailure
<1>2. TypeOK'
  BY DEF IInv, TypeOK, Load, Goto, Locations, AfterFailure
<1>3. CopiesInv'
  BY DEF IInv, TypeOK, CopiesInv, Load, Goto, Tries, AfterFailure, Locked, Unlocked
<1>4. MutualExclusion' /\ ValueCountsHolders'
  BY <1>1 DEF IInv, MutualExclusion, ValueCountsHolders, Load
<1>5. SleepersHaveWaker'
  BY DEF IInv, TypeOK, SleepersHaveWaker, Sleepers, Load, Goto, AfterFailure
<1> QED  BY <1>1, <1>2, <1>3, <1>4, <1>5 DEF IInv

LEMMA InterruptStep ==
  ASSUME IInv, NEW c \in Clients, Interrupt(c)
  PROVE  IInv' /\ Readers' = Readers /\ Writers' = Writers
<1>1. Readers' = Readers /\ Writers' = Writers
  BY SameHolders DEF IInv, TypeOK, Interrupt, Goto
<1>2. TypeOK'
  BY WidthAboveOne DEF IInv, TypeOK, Interrupt, Goto, Locations, Unlocked
<1>3. CopiesInv'
  BY DEF IInv, TypeOK, CopiesInv, Interrupt, Goto, Tries
<1>4. MutualExclusion' /\ ValueCountsHolders'
  BY <1>1 DEF IInv, MutualExclusion, ValueCountsHolders, Interrupt
<1>5. SleepersHaveWaker'
  BY DEF IInv, TypeOK, SleepersHaveWaker, Sleepers, Interrupt, Goto
<1> QED  BY <1>1, <1>2, <1>3, <1>4, <1>5 DEF IInv

\* A process that dies leaves the futex's queue and nothing else.
LEMMA CrashStep ==
  ASSUME IInv, NEW c \in Clients, Crash(c)
  PROVE  IInv' /\ Readers' = Readers /\ Writers' = Writers
<1>1. Readers' = Readers /\ Writers' = Writers
  BY SameHolders DEF Crash
<1>2. TypeOK' /\ CopiesInv'
  BY DEF IInv, TypeOK, CopiesInv, Crash
<1>3. MutualExclusion' /\ ValueCountsHolders'
  BY <1>1 DEF IInv, MutualExclusion, ValueCountsHolders, Crash
<1>4. SleepersHaveWaker'
  BY DEF IInv, SleepersHaveWaker, Sleepers, Crash
<1> QED  BY <1>1, <1>2, <1>3, <1>4 DEF IInv

\* Whoever falls asleep saw a locked word in the same step: a writer holds the lock.
LEMMA FutexWaitStep ==
  ASSUME IInv, NEW c \in Clients, FutexWait(c)
  PROVE  IInv' /\ Readers' = Readers /\ Writers' = Writers
<1>1. Readers' = Readers /\ Writers' = Writers
  BY SameHolders DEF IInv, TypeOK, FutexWait, Goto
<1>2. TypeOK'
  BY DEF IInv, TypeOK, FutexWait, Goto, Locations
<1>3. CopiesInv'
  BY DEF IInv, TypeOK, CopiesInv, FutexWait, Goto
<1>4. MutualExclusion' /\ ValueCountsHolders'
  BY <1>1 DEF IInv, MutualExclusion, ValueCountsHolders, FutexWait
<1>5. SleepersHaveWaker'
  <2>1. CASE value = old[c]
    <3>1. value = Locked
      BY <2>1 DEF IInv, CopiesInv, FutexWait
    <3>2. Writers' # {}
      BY <1>1, <3>1, WordTellsHolders
    <3> QED  BY <3>2 DEF SleepersHaveWaker, Writers
  <2>2. CASE value # old[c]
    BY <2>2 DEF IInv, TypeOK, SleepersHaveWaker, Sleepers, FutexWait, Goto
  <2> QED  BY <2>1, <2>2
<1> QED  BY <1>1, <1>2, <1>3, <1>4, <1>5 DEF IInv
\* The compare-exchange: it takes the lock as RwLock allows, or changes nothing but
\* the client's copy.
LEMMA CompareExchangeStep ==
  ASSUME IInv, NEW c \in Clients, CompareExchange(c)
  PROVE  /\ IInv'
         /\ \/ Readers' = Readers /\ Writers' = Writers
            \/ Abstract!AcquireRead(c)
            \/ Abstract!AcquireWrite(c)
<1>1. CASE value # old[c]
  <2>1. Readers' = Readers /\ Writers' = Writers
    BY <1>1, SameHolders DEF IInv, TypeOK, CompareExchange, Goto, AfterFailure
  <2>2. TypeOK'
    BY <1>1 DEF IInv, TypeOK, CompareExchange, Goto, Locations, AfterFailure
  <2>3. CopiesInv'
    BY <1>1 DEF IInv, TypeOK, CopiesInv, CompareExchange, Goto, AfterFailure, Tries,
                Locked, Unlocked
  <2>4. MutualExclusion' /\ ValueCountsHolders'
    BY <1>1, <2>1 DEF IInv, MutualExclusion, ValueCountsHolders, CompareExchange
  <2>5. SleepersHaveWaker'
    BY <1>1 DEF IInv, TypeOK, SleepersHaveWaker, Sleepers, CompareExchange, Goto, AfterFailure
  <2> QED  BY <2>1, <2>2, <2>3, <2>4, <2>5 DEF IInv
<1>2. CASE value = old[c] /\ mode[c] = "write"
  <2>1. value = Unlocked /\ Readers = {} /\ Writers = {} /\ value' = Locked
    BY <1>2, WordTellsHolders
       DEF IInv, CopiesInv, Tries, CompareExchange, Acquired, Locked, Unlocked
  <2>2. Readers' = {} /\ Writers' = {c}
    BY <1>2, <2>1 DEF IInv, TypeOK, CompareExchange, Goto, Readers, Writers
  <2>3. TypeOK'
    BY <1>2, <2>1, WidthAboveOne
       DEF IInv, TypeOK, CompareExchange, Goto, Locations, Locked, Unlocked
  <2>4. CopiesInv'
    BY <1>2 DEF IInv, TypeOK, CopiesInv, CompareExchange, Goto, Tries
  <2>5. MutualExclusion' /\ ValueCountsHolders'
    BY <2>1, <2>2 DEF MutualExclusion, ValueCountsHolders
  <2>6. SleepersHaveWaker'
    BY <1>2 DEF IInv, TypeOK, SleepersHaveWaker, Sleepers, CompareExchange, Goto
  <2>7. Abstract!AcquireWrite(c)
    BY <2>1, <2>2 DEF Abstract!AcquireWrite
  <2> QED  BY <2>3, <2>4, <2>5, <2>6, <2>7 DEF IInv
<1>3. CASE value = old[c] /\ mode[c] = "read"
  <2>1. value # Locked /\ Writers = {} /\ value = Unlocked + Cardinality(Readers)
    BY <1>3, WordTellsHolders DEF IInv, CopiesInv, Tries, CompareExchange
  <2>2. c \notin Readers /\ Readers' = Readers \cup {c} /\ Writers' = {}
    BY <1>3, <2>1 DEF IInv, TypeOK, CompareExchange, Goto, Readers, Writers
  <2>3. Readers \in SUBSET Clients /\ Readers' \in SUBSET Clients
    BY <2>2 DEF Readers
  <2>4. Cardinality(Readers') = Cardinality(Readers) + 1
    BY <2>2, <2>3, ReadersFit, FS_AddElement
  <2>5. value' = Unlocked + Cardinality(Readers')
    <3>1. value' = value + 1
      BY <1>3, CompareExchangeWord
    <3>2. Cardinality(Readers) \in Nat
      BY <2>3, ReadersFit
    <3> QED  BY <2>1, <2>4, <3>1, <3>2 DEF Unlocked
  <2>6. TypeOK'
    BY <1>3, <2>3, <2>5, WidthAssumption, ReadersFit
       DEF IInv, TypeOK, CompareExchange, Goto, Locations, Unlocked
  <2>7. CopiesInv'
    BY <1>3 DEF IInv, TypeOK, CopiesInv, CompareExchange, Goto, Tries
  <2>8. MutualExclusion' /\ ValueCountsHolders'
    BY <2>2, <2>5 DEF MutualExclusion, ValueCountsHolders
  <2>9. SleepersHaveWaker'
    BY <1>3 DEF IInv, TypeOK, SleepersHaveWaker, Sleepers, CompareExchange, Goto
  <2>10. Abstract!AcquireRead(c)
    BY <2>1, <2>2 DEF Abstract!AcquireRead
  <2> QED  BY <2>6, <2>7, <2>8, <2>9, <2>10 DEF IInv
<1> QED  BY <1>1, <1>2, <1>3 DEF IInv, TypeOK

\* fetch_add of a writer: the word was 0 and becomes 1.
LEMMA WUnlockStep ==
  ASSUME IInv, NEW c \in Clients, WUnlock(c)
  PROVE  IInv' /\ Abstract!ReleaseWrite(c)
<1>1. c \in Writers /\ Writers = {c} /\ Readers = {} /\ value = Locked
  BY WordTellsHolders DEF IInv, MutualExclusion, WUnlock, Writers
<1>2. value' = Unlocked
  BY WUnlockWord
<1>3. Readers' = {} /\ Writers' = {}
  BY <1>1 DEF IInv, TypeOK, WUnlock, Goto, Readers, Writers
<1>4. TypeOK'
  BY <1>2, WidthAboveOne DEF IInv, TypeOK, WUnlock, Goto, Locations, Unlocked
<1>5. CopiesInv'
  BY DEF IInv, TypeOK, CopiesInv, WUnlock, Goto, Tries
<1>6. MutualExclusion' /\ ValueCountsHolders'
  BY <1>2, <1>3, FS_EmptySet DEF MutualExclusion, ValueCountsHolders, Unlocked
<1>7. SleepersHaveWaker'
  BY DEF IInv, TypeOK, SleepersHaveWaker, Sleepers, WUnlock, Goto
<1>8. Abstract!ReleaseWrite(c)
  BY <1>1, <1>3 DEF Abstract!ReleaseWrite
<1> QED  BY <1>4, <1>5, <1>6, <1>7, <1>8 DEF IInv

\* fetch_sub of a reader: the word was above 1 and counts one reader less.
LEMMA RUnlockStep ==
  ASSUME IInv, NEW c \in Clients, RUnlock(c)
  PROVE  IInv' /\ Abstract!ReleaseRead(c)
<1>1. c \in Readers /\ Writers = {} /\ value = Unlocked + Cardinality(Readers)
  BY WordTellsHolders DEF IInv, MutualExclusion, RUnlock, Readers
<1>2. Readers' = Readers \ {c} /\ Writers' = {}
  BY <1>1 DEF IInv, TypeOK, RUnlock, Goto, Readers, Writers
<1>3. Readers \in SUBSET Clients /\ Readers' \in SUBSET Clients
  BY <1>2 DEF Readers
<1>4. Cardinality(Readers') = Cardinality(Readers) - 1
  BY <1>1, <1>2, <1>3, ReadersFit, FS_RemoveElement
<1>5. value' = Unlocked + Cardinality(Readers')
  BY <1>1, <1>3, <1>4, ReadersFit, RUnlockWord DEF Unlocked
<1>6. TypeOK'
  BY <1>3, <1>5, WidthAssumption, ReadersFit DEF IInv, TypeOK, RUnlock, Goto, Locations, Unlocked
<1>7. CopiesInv'
  BY DEF IInv, TypeOK, CopiesInv, RUnlock, Goto, Tries
<1>8. MutualExclusion' /\ ValueCountsHolders'
  BY <1>2, <1>5 DEF MutualExclusion, ValueCountsHolders
<1>9. SleepersHaveWaker'
  BY DEF IInv, TypeOK, SleepersHaveWaker, Sleepers, RUnlock, Goto
<1>10. Abstract!ReleaseRead(c)
  BY <1>1, <1>2 DEF Abstract!ReleaseRead
<1> QED  BY <1>6, <1>7, <1>8, <1>9, <1>10 DEF IInv

\* FUTEX_WAKE.  A writer's leaves no sleeper, so it may forget about them; a
\* reader's leaves the sleepers their writer.
LEMMA WakeStep ==
  ASSUME IInv, NEW c \in Clients, c \notin dead, Wake(c)
  PROVE  IInv' /\ Readers' = Readers /\ Writers' = Writers
<1>1. PICK S \in Wakeable(WakeCount(mode[c])) :
        pc' = [d \in Clients |-> IF d = c THEN "idle" ELSE IF d \in S THEN "load" ELSE pc[d]]
  BY DEF Wake, FutexWake
<1>2. S \subseteq Sleepers /\ \A d \in S : pc[d] = "asleep"
  BY DEF Wakeable, Sleepers
<1>3. Readers' = Readers /\ Writers' = Writers
  BY <1>1, <1>2, SameHolders DEF Wake
<1>4. TypeOK'
  BY <1>1 DEF IInv, TypeOK, Wake, Locations
<1>5. CopiesInv'
  BY <1>1 DEF IInv, TypeOK, CopiesInv, Wake
<1>6. MutualExclusion' /\ ValueCountsHolders'
  BY <1>3 DEF IInv, MutualExclusion, ValueCountsHolders, Wake
<1>7. SleepersHaveWaker'
  <2>1. Sleepers' \subseteq Sleepers \ S
    BY <1>1 DEF Sleepers, Wake
  <2>2. CASE mode[c] = "write"
    <3>1. S = Sleepers
      BY <2>2, WakesAll DEF WakeCount
    <3> QED  BY <2>1, <3>1 DEF SleepersHaveWaker
  <2>3. CASE mode[c] = "read"
    <3> SUFFICES ASSUME Sleepers' # {}
                 PROVE  \E d \in Clients : mode'[d] = "write" /\ pc'[d] \in {"held", "wake"}
      BY DEF SleepersHaveWaker
    <3>1. PICK d \in Clients : mode[d] = "write" /\ pc[d] \in {"held", "wake"}
      BY <2>1 DEF IInv, SleepersHaveWaker
    <3>2. d # c /\ d \notin S
      BY <1>2, <2>3, <3>1
    <3>3. mode'[d] = mode[d] /\ pc'[d] = pc[d]
      BY <1>1, <3>2 DEF Wake
    <3> QED  BY <3>1, <3>3
  <2> QED  BY <2>2, <2>3 DEF IInv, TypeOK
<1> QED  BY <1>3, <1>4, <1>5, <1>6, <1>7 DEF IInv
-------------------------------------------------------------------------------
\* The invariant holds at the start and every step keeps it.
LEMMA InitInv == Init => IInv
<1> SUFFICES ASSUME Init PROVE IInv
  OBVIOUS
<1>1. TypeOK /\ CopiesInv
  BY WidthAboveOne DEF Init, TypeOK, CopiesInv, Locations, Unlocked
<1>2. Readers = {} /\ Writers = {} /\ Sleepers = {}
  BY DEF Init, Readers, Writers, Sleepers
<1>3. MutualExclusion /\ ValueCountsHolders /\ SleepersHaveWaker
  BY <1>2, FS_EmptySet DEF Init, MutualExclusion, ValueCountsHolders, SleepersHaveWaker, Unlocked
<1> QED  BY <1>1, <1>3 DEF IInv

\* Every step of the mutex keeps IInv and is a step of RwLock or leaves the holders
\* alone.
LEMMA NextStep ==
  ASSUME IInv, [Next]_vars
  PROVE  IInv' /\ [Abstract!Next]_(Abstract!lockVars)
<1>1. CASE UNCHANGED vars
  BY <1>1 DEF vars, IInv, TypeOK, CopiesInv, MutualExclusion, ValueCountsHolders,
              SleepersHaveWaker, Sleepers, Readers, Writers, Abstract!lockVars
<1>2. CASE Next
  <2>1. PICK c \in Clients \ dead : \/ \E m \in {"read", "write"} : Lock(c, m)
                                  \/ Step(c)
                                  \/ Interrupt(c)
                                  \/ Crash(c)
    BY <1>2 DEF Next
  <2>2. CASE \E m \in {"read", "write"} : Lock(c, m)
    BY <2>2, LockStep DEF Abstract!lockVars
  <2>3. CASE Load(c)
    BY <2>3, LoadStep DEF Abstract!lockVars
  <2>4. CASE CompareExchange(c)
    BY <2>4, CompareExchangeStep DEF Abstract!lockVars, Abstract!Next
  <2>5. CASE FutexWait(c)
    BY <2>5, FutexWaitStep DEF Abstract!lockVars
  <2>6. CASE WUnlock(c)
    BY <2>6, WUnlockStep DEF Abstract!Next
  <2>7. CASE RUnlock(c)
    BY <2>7, RUnlockStep DEF Abstract!Next
  <2>8. CASE Wake(c)
    BY <2>8, WakeStep DEF Abstract!lockVars
  <2>9. CASE Interrupt(c)
    BY <2>9, InterruptStep DEF Abstract!lockVars
  <2>10. CASE Crash(c)
    BY <2>10, CrashStep DEF Abstract!lockVars
  <2> QED
    BY <2>1, <2>2, <2>3, <2>4, <2>5, <2>6, <2>7, <2>8, <2>9, <2>10 DEF Step
<1> QED  BY <1>1, <1>2

\* IInv is an invariant of the mutex.
THEOREM Invariance == Spec => []IInv
<1>1. Init => IInv
  BY InitInv
<1>2. IInv /\ [Next]_vars => IInv'
  BY NextStep
<1> QED  BY <1>1, <1>2, PTL DEF Spec

\* The variables keep their types.
THEOREM TypeCorrect == Spec => []TypeOK
<1>1. IInv => TypeOK
  BY DEF IInv
<1> QED  BY <1>1, Invariance, PTL

\* For any number of clients, a writer holds the lock alone.
THEOREM Exclusion == Spec => []MutualExclusion
<1>1. IInv => MutualExclusion
  BY DEF IInv
<1> QED  BY <1>1, Invariance, PTL

\* The lock word is exact, whoever holds the lock and whoever died holding it: the
\* assertions of w_unlock and r_unlock never fail.
THEOREM CountsHolders == Spec => []ValueCountsHolders
<1>1. IInv => ValueCountsHolders
  BY DEF IInv
<1> QED  BY <1>1, Invariance, PTL

\* No atomic operation on the word wraps it, for as many clients as WidthAssumption allows,
\* and the unlocks find in it what their assertions say.
THEOREM NoWrap == Spec => WordNeverWraps
<1> DEFINE Fits == /\ value' \in {value - 1, value, value + 1}
                   /\ \A c \in Clients : /\ WUnlock(c) => value = Locked /\ value' = Unlocked
                                         /\ RUnlock(c) => value > Unlocked /\ value' >= Unlocked
<1>1. ASSUME IInv, [Next]_vars PROVE Fits
  <2>1. ASSUME NEW c \in Clients, WUnlock(c)
        PROVE  value = Locked /\ value' = Unlocked /\ value' = value + 1
    BY <1>1, <2>1, WUnlockWord DEF Locked, Unlocked
  <2>2. ASSUME NEW c \in Clients, RUnlock(c)
        PROVE  value > Unlocked /\ value' >= Unlocked /\ value' = value - 1
    BY <1>1, <2>2, RUnlockWord DEF IInv, TypeOK, Unlocked
  <2>3. ASSUME NEW c \in Clients, CompareExchange(c)
        PROVE  value' \in {value - 1, value, value + 1}
    BY <1>1, <2>3, CompareExchangeWord
  <2>4. CASE UNCHANGED vars
    BY <2>1, <2>2, <2>4 DEF vars
  <2>5. CASE Next
    BY <2>1, <2>2, <2>3, <2>5
       DEF Next, Step, Lock, Load, FutexWait, Wake, Interrupt, Crash
  <2> QED  BY <1>1, <2>4, <2>5
<1>2. IInv /\ [Next]_vars => [Fits]_vars
  BY <1>1
<1> QED  BY <1>2, Invariance, PTL DEF Spec, WordNeverWraps

\* While a client sleeps in the futex, a writer still owes it a FUTEX_WAKE.
THEOREM NoLostWakeup == Spec => []SleepersHaveWaker
<1>1. IInv => SleepersHaveWaker
  BY DEF IInv
<1> QED  BY <1>1, Invariance, PTL

\* A reader never goes to sleep while another reader holds the lock.
THEOREM NestedReads == Spec => ReaderJoinsReaders
<1> DEFINE Joins == \A c \in Clients :
                      (Readers # {} /\ mode[c] = "read" /\ pc[c] \in {"load", "cas"})
                        => pc'[c] # "wait"
<1>1. ASSUME IInv, [Next]_vars, NEW c \in Clients,
             Readers # {}, mode[c] = "read", pc[c] \in {"load", "cas"}
      PROVE  pc'[c] # "wait"
  <2>1. value > Unlocked
    BY <1>1, WordTellsHolders
  <2>2. AfterFailure(value) = "load"
    BY <1>1, <2>1 DEF AfterFailure, IInv, TypeOK, Unlocked
  <2>3. CASE UNCHANGED vars
    BY <1>1, <2>3 DEF vars
  <2>4. CASE Next
    BY <1>1, <2>2, <2>4
       DEF Next, Step, Lock, Load, CompareExchange, FutexWait, WUnlock, RUnlock, Wake,
           FutexWake, Interrupt, Crash, Goto, IInv, TypeOK
  <2> QED  BY <1>1, <2>3, <2>4
<1>2. IInv /\ [Next]_vars => [Joins]_vars
  BY <1>1
<1> QED  BY <1>2, Invariance, PTL DEF Spec, ReaderJoinsReaders

\* The mutex implements the abstract reader-writer lock.
THEOREM Refinement == Spec => ImplementsRwLock
<1>1. Init => Abstract!Init
  BY DEF Init, Abstract!Init, Readers, Writers
<1>2. IInv /\ [Next]_vars => [Abstract!Next]_(Abstract!lockVars)
  BY NextStep
<1> QED  BY <1>1, <1>2, Invariance, PTL DEF Spec, ImplementsRwLock, Abstract!Spec
===============================================================================
