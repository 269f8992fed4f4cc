---------------------------- MODULE SlotTableProofs ----------------------------
(***************************************************************************)
(* SlotTable is right for every set of threads, names and buffers: the      *)
(* mutex is held by the thread that is between lock and unlock, and, while  *)
(* the callers keep the buffers that became keys, neither internal error of *)
(* getSlot happens and the table is a directory of one mapping per name.    *)
(***************************************************************************)
EXTENDS SlotTable, SequenceTheorems, FiniteSetTheorems, TLAPS

Pair == [key : Buffers, file : Names \ Invalid]

\* Between the constructor of the lock_guard and its destructor.
Critical ==
  {"find", "open", "insert", "refind", "return", "throw", "format", "asleep", "fthrow"}

\* The mutex's owner is the one thread in there.
OwnerInv == \A t \in Threads : owner = t <=> pc[t] \in Critical

\* A name that is about to be opened or inserted was found valid, and its buffer is not
\* touched until the call is over.
ValidInv == \A t \in Threads : pc[t] \in {"open", "insert"} => text[arg[t]] \notin Invalid

\* The files that are mapped.
Mapped == {items[i].file : i \in 1 .. Len(items)}

\* The keys still say what file they stand for, and no file is mapped twice.
KeysInv ==
  /\ \A i \in 1 .. Len(items) : text[items[i].key] = items[i].file
  /\ \A i, j \in 1 .. Len(items) : items[i].file = items[j].file => i = j
  /\ IsFiniteSet(Mapped) /\ Cardinality(Mapped) = Len(items)

\* What the thread with the mutex knows of the table: the pairs its search has passed have
\* other names; after the first search there is none of its own, after the insertion one.
Knows(t) ==
  /\ pc[t] \in {"find", "insert", "refind"} =>
       /\ at[t] <= Len(items) + 1
       /\ \A i \in 1 .. Len(items) : i < at[t] => items[i].file # text[arg[t]]
  /\ pc[t] \in {"open", "insert"} => text[arg[t]] \notin Mapped
  /\ pc[t] = "refind" => text[arg[t]] \in Mapped
  /\ pc[t] = "return" => at[t] \in 1 .. Len(items) /\ items[at[t]].file = text[arg[t]]

SearchInv == \A t \in Threads : Knows(t)

IInv ==
  /\ TypeOK
  /\ OwnerInv
  /\ ValidInv
  /\ KeysStayAlive => KeysInv /\ SearchInv

-------------------------------------------------------------------------------
\* TypeOK in two parts: the table, and the rest, which is not about sequences.
TableOK == items \in Seq(Pair)

OthersOK ==
  /\ text \in [Buffers -> Names]
  /\ locked \subseteq Names \ Invalid
  /\ owner \in Threads \cup {NoThread}
  /\ pc \in [Threads -> Locations]
  /\ arg \in [Threads -> Buffers]
  /\ at \in [Threads -> Nat \ {0}]
  /\ calls \in 0 .. MaxCalls

LEMMA TypeParts ==
  /\ TypeOK <=> TableOK /\ OthersOK
  /\ TypeOK' <=> TableOK' /\ OthersOK'
  BY DEF TypeOK, TableOK, OthersOK, Pair

\* The iterators and the table that the steps use.
LEMMA TableFacts ==
  ASSUME TypeOK
  PROVE  /\ Len(items) \in Nat /\ DOMAIN items = 1 .. Len(items)
         /\ \A i \in 1 .. Len(items) : items[i] \in Pair
         /\ \A t \in Threads : at[t] \in Nat /\ at[t] > 0 /\ arg[t] \in Buffers
         /\ \A t \in Threads : AtEnd(t) <=> at[t] > Len(items)
<1>1. Len(items) \in Nat /\ DOMAIN items = 1 .. Len(items)
      /\ \A i \in 1 .. Len(items) : items[i] \in Pair
  BY TypeParts, LenProperties, ElementOfSeq DEF TableOK
<1>2. \A t \in Threads : at[t] \in Nat /\ at[t] > 0 /\ arg[t] \in Buffers
  BY TypeParts DEF OthersOK
<1> QED  BY <1>1, <1>2 DEF AtEnd

\* While the keys stay alive, an equal key is an equal name.
LEMMA MatchFacts ==
  ASSUME IInv, KeysStayAlive, NEW t \in Threads
  PROVE  Matches(t) <=> at[t] \in 1 .. Len(items) /\ items[at[t]].file = text[arg[t]]
  BY TableFacts DEF IInv, Matches, KeyIsSame, KeysInv, AtEnd

\* One thread at a time is between lock and unlock.
LEMMA OneInside ==
  ASSUME IInv, NEW t \in Threads, NEW u \in Threads, pc[t] \in Critical, pc[u] \in Critical
  PROVE  t = u
  BY DEF IInv, OwnerInv

\* What a step of thread t that leaves the table and the buffers alone preserves.
LEMMA SameTable ==
  ASSUME IInv, NEW t \in Threads, UNCHANGED <<text, items>>,
         \A u \in Threads \ {t} : pc'[u] = pc[u] /\ arg'[u] = arg[u] /\ at'[u] = at[u],
         pc'[t] \in {"open", "insert"} => text[arg'[t]] \notin Invalid,
         KeysStayAlive => Knows(t)'
  PROVE  /\ TableOK' /\ ValidInv'
         /\ KeysStayAlive => KeysInv' /\ SearchInv'
<1>1. TableOK'
  BY TypeParts DEF IInv, TableOK
<1>2. ValidInv'
  BY DEF IInv, ValidInv
<1>3. ASSUME KeysStayAlive PROVE KeysInv' /\ SearchInv'
  <2> Mapped' = Mapped
    BY DEF Mapped
  <2>1. KeysInv'
    BY <1>3 DEF IInv, KeysInv
  <2>2. \A u \in Threads \ {t} : Knows(u)'
    BY <1>3 DEF IInv, SearchInv, Knows, Mapped
  <2> QED  BY <1>3, <2>1, <2>2 DEF SearchInv
<1> QED  BY <1>1, <1>2, <1>3

-------------------------------------------------------------------------------
\* One lemma per step: it keeps IInv.

\* A call begins; the mutex is still to be taken.
LEMMA CallStep ==
  ASSUME IInv, NEW t \in Threads, Format(t) \/ \E b \in Buffers : GetSlot(t, b)
  PROVE  IInv'
<1>1. OthersOK' /\ OwnerInv'
  BY TypeParts, CallersAssumption
     DEF IInv, OthersOK, OwnerInv, Critical, Format, GetSlot, Goto, Locations
<1>2. Knows(t)' /\ pc'[t] \notin {"open", "insert"}
  BY TypeParts DEF IInv, OthersOK, Knows, Format, GetSlot, Goto
<1>3. UNCHANGED <<text, items>>
      /\ \A u \in Threads \ {t} : pc'[u] = pc[u] /\ arg'[u] = arg[u] /\ at'[u] = at[u]
  BY TypeParts DEF IInv, OthersOK, Format, GetSlot, Goto
<1> QED  BY <1>1, <1>2, <1>3, SameTable, TypeParts DEF IInv

LEMMA LockStep ==
  ASSUME IInv, NEW t \in Threads, Lock(t)
  PROVE  IInv'
<1>1. OthersOK'
  BY TypeParts DEF IInv, OthersOK, Lock, Goto, Locations, Begin
<1>2. OwnerInv'
  BY TypeParts, CallersAssumption DEF IInv, OthersOK, OwnerInv, Critical, Lock, Goto, Available
<1>3. UNCHANGED <<text, items>>
      /\ \A u \in Threads \ {t} : pc'[u] = pc[u] /\ arg'[u] = arg[u] /\ at'[u] = at[u]
  BY TypeParts DEF IInv, OthersOK, Lock, Goto
<1>4. pc'[t] \in {"find", "format"} /\ at'[t] = 1
  BY TypeParts DEF IInv, OthersOK, Lock, Goto, Begin
<1>5. Knows(t)'
  BY <1>3, <1>4, TableFacts DEF IInv, Knows
<1> QED  BY <1>1, <1>2, <1>3, <1>4, <1>5, SameTable, TypeParts DEF IInv

LEMMA AdvanceStep ==
  ASSUME IInv, NEW t \in Threads, Advance(t)
  PROVE  IInv'
<1>1. OthersOK'
  BY TypeParts DEF IInv, OthersOK, Advance
<1>2. OwnerInv'
  BY DEF IInv, OwnerInv, Advance
<1>3. UNCHANGED <<text, items, pc, arg>> /\ \A u \in Threads \ {t} : at'[u] = at[u]
  BY TypeParts DEF IInv, OthersOK, Advance
<1>4. pc[t] \in {"find", "insert", "refind"} /\ at'[t] = at[t] + 1 /\ at[t] \in 1 .. Len(items)
  BY TypeParts, TableFacts DEF IInv, OthersOK, Advance
<1>5. ASSUME KeysStayAlive PROVE Knows(t)'
  <2>1. items[at[t]].file # text[arg[t]]
    BY <1>4, <1>5, MatchFacts DEF Advance
  <2>2. \A i \in 1 .. Len(items) : i < at[t] + 1 => i < at[t] \/ i = at[t]
    BY <1>4, TableFacts DEF IInv
  <2>3. at[t] + 1 <= Len(items) + 1
    BY <1>4, TableFacts DEF IInv
  <2> QED  BY <1>3, <1>4, <1>5, <2>1, <2>2, <2>3 DEF IInv, SearchInv, Knows, Mapped
<1>6. pc'[t] \in {"open", "insert"} => text[arg'[t]] \notin Invalid
  BY <1>3 DEF IInv, ValidInv
<1> QED  BY <1>1, <1>2, <1>3, <1>5, <1>6, SameTable, TypeParts DEF IInv

LEMMA FoundStep ==
  ASSUME IInv, NEW t \in Threads, Found(t)
  PROVE  IInv'
<1>1. OthersOK'
  BY TypeParts DEF IInv, OthersOK, Found, Goto, Locations
<1>2. OwnerInv'
  BY TypeParts DEF IInv, OthersOK, OwnerInv, Critical, Found, Goto
<1>3. /\ UNCHANGED <<text, items, arg, at>> /\ pc'[t] \in {"throw", "return"}
      /\ \A u \in Threads \ {t} : pc'[u] = pc[u]
  BY TypeParts DEF IInv, OthersOK, Found, Goto
<1>4. ASSUME KeysStayAlive PROVE Knows(t)'
  BY <1>3, <1>4, MatchFacts DEF Found, Knows
<1> QED  BY <1>1, <1>2, <1>3, <1>4, SameTable, TypeParts DEF IInv

\* The end of a search for which no pair matched: no pair has that file.
LEMMA SearchedAll ==
  ASSUME IInv, KeysStayAlive, NEW t \in Threads, AtEnd(t),
         pc[t] \in {"find", "insert", "refind"}
  PROVE  text[arg[t]] \notin Mapped
<1>1. \A i \in 1 .. Len(items) : i < at[t]
  BY TableFacts DEF IInv
<1> QED  BY <1>1 DEF IInv, SearchInv, Knows, Mapped

LEMMA NotFoundStep ==
  ASSUME IInv, NEW t \in Threads, NotFound(t)
  PROVE  IInv'
<1>1. OthersOK'
  BY TypeParts DEF IInv, OthersOK, NotFound, Goto, Locations
<1>2. OwnerInv'
  BY TypeParts DEF IInv, OthersOK, OwnerInv, Critical, NotFound, Goto
<1>3. /\ UNCHANGED <<text, items, arg, at>> /\ pc'[t] \in {"throw", "open"}
      /\ \A u \in Threads \ {t} : pc'[u] = pc[u]
      /\ pc'[t] = "open" => text[arg[t]] \notin Invalid
  BY TypeParts DEF IInv, OthersOK, NotFound, Goto
<1>4. ASSUME KeysStayAlive PROVE Knows(t)'
  BY <1>3, <1>4, SearchedAll DEF NotFound, Knows, Mapped
<1> QED  BY <1>1, <1>2, <1>3, <1>4, SameTable, TypeParts DEF IInv

LEMMA OpenStep ==
  ASSUME IInv, NEW t \in Threads, Open(t)
  PROVE  IInv'
<1>1. OthersOK'
  BY TypeParts DEF IInv, OthersOK, Open, Goto, Locations, Begin
<1>2. OwnerInv'
  BY TypeParts DEF IInv, OthersOK, OwnerInv, Critical, Open, Goto
<1>3. /\ UNCHANGED <<text, items, arg>> /\ pc[t] = "open"
      /\ pc'[t] = "throw" \/ (pc'[t] = "insert" /\ at'[t] = 1)
      /\ \A u \in Threads \ {t} : pc'[u] = pc[u] /\ at'[u] = at[u]
  BY TypeParts DEF IInv, OthersOK, Open, Goto, Begin
<1>4. text[arg[t]] \notin Invalid
  BY <1>3 DEF IInv, ValidInv
<1>5. ASSUME KeysStayAlive PROVE Knows(t)'
  BY <1>3, <1>5, TableFacts DEF IInv, SearchInv, Knows, Mapped
<1> QED  BY <1>1, <1>2, <1>3, <1>4, <1>5, SameTable, TypeParts DEF IInv

\* The lock_guard's destructor, and the formatter's steps, know nothing of the table.
LEMMA UnlockStep ==
  ASSUME IInv, NEW t \in Threads, Unlock(t)
  PROVE  IInv'
<1>1. OthersOK'
  BY TypeParts DEF IInv, OthersOK, Unlock, Goto, Locations, OwnerAfter
<1>2. OwnerInv'
  BY TypeParts, CallersAssumption DEF IInv, OthersOK, OwnerInv, Critical, Unlock, Goto, OwnerAfter
<1>3. /\ UNCHANGED <<text, items, arg, at>> /\ pc'[t] = "idle"
      /\ \A u \in Threads \ {t} : pc'[u] = pc[u]
  BY TypeParts DEF IInv, OthersOK, Unlock, Goto
<1>4. Knows(t)'
  BY <1>3 DEF Knows
<1> QED  BY <1>1, <1>2, <1>3, <1>4, SameTable, TypeParts DEF IInv

LEMMA FormatSlotStep ==
  ASSUME IInv, NEW t \in Threads, FormatSlot(t)
  PROVE  IInv'
<1>1. OthersOK'
  BY TypeParts DEF IInv, OthersOK, FormatSlot
<1>2. OwnerInv'
  BY DEF IInv, OwnerInv, FormatSlot
<1>3. /\ UNCHANGED <<text, items, pc, arg>> /\ pc[t] = "format"
      /\ \A u \in Threads \ {t} : at'[u] = at[u]
  BY TypeParts DEF IInv, OthersOK, FormatSlot
<1>4. Knows(t)'
  BY <1>3 DEF Knows
<1> QED  BY <1>1, <1>2, <1>3, <1>4, SameTable, TypeParts DEF IInv

\* The formatter goes to sleep, wakes up or is interrupted, the mutex in its hands.
LEMMA FormatWaitsStep ==
  ASSUME IInv, NEW t \in Threads, FormatSleeps(t) \/ FormatWakes(t) \/ FormatThrows(t)
  PROVE  IInv'
<1>1. /\ UNCHANGED <<text, items, locked, owner, arg, at, calls>>
      /\ pc[t] \in {"format", "asleep"} /\ pc'[t] \in {"format", "asleep", "fthrow"}
      /\ pc' \in [Threads -> Locations]
      /\ \A u \in Threads \ {t} : pc'[u] = pc[u]
  BY TypeParts
     DEF IInv, OthersOK, FormatSleeps, FormatWakes, FormatThrows, Goto, Locations
<1>2. OthersOK'
  BY <1>1, TypeParts DEF IInv, OthersOK
<1>3. OwnerInv'
  BY <1>1 DEF IInv, OwnerInv, Critical
<1>4. Knows(t)'
  BY <1>1 DEF Knows
<1> QED  BY <1>1, <1>2, <1>3, <1>4, SameTable, TypeParts DEF IInv

\* The slots' locks are nobody's business here.
LEMMA OthersStep ==
  ASSUME IInv, NEW f \in Names \ Invalid, OthersLock(f) \/ OthersUnlock(f)
  PROVE  IInv'
<1>1. UNCHANGED <<text, items, owner, pc, arg, at, calls>>
  BY DEF OthersLock, OthersUnlock
<1>2. OthersOK'
  BY <1>1, TypeParts DEF IInv, OthersOK, OthersLock, OthersUnlock
<1>3. TableOK' /\ OwnerInv' /\ ValidInv'
  BY <1>1, TypeParts DEF IInv, TableOK, OwnerInv, ValidInv
<1> Mapped' = Mapped
  BY <1>1 DEF Mapped
<1>4. KeysStayAlive => KeysInv' /\ SearchInv'
  BY <1>1 DEF IInv, KeysInv, SearchInv, Knows
<1> QED  BY <1>2, <1>3, <1>4, TypeParts DEF IInv

\* What the end of SmallMap::insert does to the table.
LEMMA PushBackFacts ==
  ASSUME IInv, NEW t \in Threads, PushBack(t)
  PROVE  /\ Len(items) \in Nat /\ items' \in Seq(Pair) /\ Len(items') = Len(items) + 1
         /\ \A i \in 1 .. Len(items) : items'[i] = items[i]
         /\ items'[Len(items) + 1].key = arg[t]
         /\ items'[Len(items) + 1].file = text[arg[t]]
         /\ Mapped' = Mapped \cup {text[arg[t]]}
         /\ KeysStayAlive => text[arg[t]] \notin Mapped
<1> DEFINE n == Len(items)
           pair == [key |-> arg[t], file |-> text[arg[t]]]
<1>1. n \in Nat /\ arg[t] \in Buffers
  BY TableFacts DEF IInv
<1>2. pair \in Pair
  BY <1>1, TypeParts DEF IInv, OthersOK, ValidInv, PushBack, Pair
<1>3. /\ items' \in Seq(Pair) /\ Len(items') = n + 1 /\ items'[n + 1] = pair
      /\ \A i \in 1 .. n : items'[i] = items[i]
  BY <1>2, TypeParts, AppendProperties DEF IInv, TableOK, PushBack
<1>4. \A i \in 1 .. Len(items') : i \in 1 .. n \/ i = n + 1
  BY <1>1, <1>3
<1>5. n + 1 \in 1 .. Len(items') /\ \A i \in 1 .. n : i \in 1 .. Len(items')
  BY <1>1, <1>3
<1>6. Mapped' = Mapped \cup {text[arg[t]]}
  BY <1>3, <1>4, <1>5 DEF Mapped
<1>7. KeysStayAlive => text[arg[t]] \notin Mapped
  BY SearchedAll DEF PushBack
<1> QED  BY <1>1, <1>3, <1>6, <1>7

\* The pair that is inserted is the only one of its name, and its key says so.
LEMMA PushBackStep ==
  ASSUME IInv, NEW t \in Threads, PushBack(t)
  PROVE  IInv'
<1> DEFINE n == Len(items)
<1>1. TableOK'
  BY PushBackFacts DEF TableOK
<1>2. OthersOK'
  BY TypeParts DEF IInv, OthersOK, PushBack, Goto, Locations, Begin
<1>3. OwnerInv'
  BY TypeParts DEF IInv, OthersOK, OwnerInv, Critical, PushBack, Goto
<1>4. /\ UNCHANGED <<text, arg>> /\ pc[t] = "insert" /\ pc'[t] = "refind" /\ at'[t] = 1
      /\ \A u \in Threads \ {t} : pc'[u] = pc[u]
  BY TypeParts DEF IInv, OthersOK, PushBack, Goto, Begin
<1>5. \A u \in Threads \ {t} : pc'[u] \notin Critical
  BY <1>4, OneInside DEF Critical
<1>6. ValidInv'
  BY <1>4, <1>5 DEF ValidInv, Critical
<1>7. ASSUME KeysStayAlive PROVE KeysInv'
  <2>1. \A i \in 1 .. n + 1 : i \in 1 .. n \/ i = n + 1
    BY PushBackFacts
  <2>2. \A i \in 1 .. n : items[i].file # text[arg[t]]
    BY <1>7, PushBackFacts DEF Mapped
  <2>3. \A i \in 1 .. Len(items') : text'[items'[i].key] = items'[i].file
    BY <1>4, <1>7, <2>1, PushBackFacts DEF IInv, KeysInv
  <2>4. \A i, j \in 1 .. Len(items') : items'[i].file = items'[j].file => i = j
    BY <1>7, <2>1, <2>2, PushBackFacts DEF IInv, KeysInv
  <2>5. IsFiniteSet(Mapped) /\ Cardinality(Mapped) = n
    BY <1>7 DEF IInv, KeysInv
  <2>6. IsFiniteSet(Mapped') /\ Cardinality(Mapped') = n + 1
    <3>1. Mapped' = Mapped \cup {text[arg[t]]} /\ text[arg[t]] \notin Mapped
      BY <1>7, PushBackFacts
    <3>2. /\ IsFiniteSet(Mapped \cup {text[arg[t]]})
          /\ Cardinality(Mapped \cup {text[arg[t]]}) = Cardinality(Mapped) + 1
      BY <2>5, <3>1, FS_AddElement
    <3> QED  BY <2>5, <3>1, <3>2
  <2> QED  BY <2>3, <2>4, <2>6, PushBackFacts DEF KeysInv
<1>8. ASSUME KeysStayAlive PROVE SearchInv'
  <2>1. Knows(t)'
    BY <1>4, <1>8, PushBackFacts DEF Knows
  <2>2. \A u \in Threads \ {t} : Knows(u)'
    BY <1>5 DEF Knows, Critical
  <2> QED  BY <2>1, <2>2 DEF SearchInv
<1> QED  BY <1>1, <1>2, <1>3, <1>6, <1>7, <1>8, TypeParts DEF IInv

\* A buffer that is reused is no call's argument, and no key if its owner heeds the
\* warning.
LEMMA ReuseStep ==
  ASSUME IInv, NEW b \in Buffers, NEW n \in Names, Reuse(b, n)
  PROVE  IInv'
<1>1. UNCHANGED <<items, locked, owner, pc, arg, at, calls>>
  BY DEF Reuse
<1>2. \A c \in Buffers \ {b} : text'[c] = text[c]
  BY TypeParts DEF IInv, OthersOK, Reuse
<1>3. \A t \in Threads : Getting(t) => text'[arg[t]] = text[arg[t]]
  BY <1>2, TableFacts DEF IInv, Reuse
<1>4. \A t \in Threads : pc[t] \in Locations \ {"idle", "flock", "format", "asleep", "fthrow"}
                          => Getting(t)
  BY DEF Getting
<1>5. TableOK' /\ OthersOK' /\ OwnerInv'
  BY <1>1, TypeParts DEF IInv, TableOK, OthersOK, OwnerInv, Reuse
<1>6. ValidInv'
  BY <1>1, <1>3, <1>4 DEF IInv, ValidInv, Locations
<1>7. ASSUME KeysStayAlive PROVE KeysInv' /\ SearchInv'
  <2> Mapped' = Mapped
    BY <1>1 DEF Mapped
  <2>1. \A i \in 1 .. Len(items) : text'[items[i].key] = text[items[i].key]
    BY <1>2, <1>7, TableFacts DEF IInv, Reuse, Keys, Pair
  <2>2. KeysInv'
    BY <1>1, <1>7, <2>1 DEF IInv, KeysInv
  <2>3. ASSUME NEW t \in Threads PROVE Knows(t)'
    BY <1>1, <1>3, <1>4, <1>7, <2>3 DEF IInv, SearchInv, Knows, Locations
  <2> QED  BY <2>2, <2>3 DEF SearchInv
<1> QED  BY <1>5, <1>6, <1>7, TypeParts DEF IInv

LEMMA InitInv == Init => IInv
<1> SUFFICES ASSUME Init PROVE IInv
  OBVIOUS
<1>1. items = << >> /\ Len(items) = 0 /\ TableOK
  BY EmptySeq DEF Init, TableOK
<1>2. OthersOK
  BY CallersAssumption DEF Init, OthersOK, Locations, NoBuffer
<1>3. OwnerInv /\ ValidInv /\ SearchInv
  BY CallersAssumption DEF Init, OwnerInv, Critical, ValidInv, SearchInv, Knows
<1>4. Mapped = {}
  BY <1>1 DEF Mapped
<1>5. KeysInv
  BY <1>1, <1>4, FS_EmptySet DEF KeysInv
<1> QED  BY <1>1, <1>2, <1>3, <1>5, TypeParts DEF IInv

LEMMA NextInv == IInv /\ [Next]_vars => IInv'
<1> SUFFICES ASSUME IInv, [Next]_vars PROVE IInv'
  OBVIOUS
<1>1. ASSUME NEW t \in Threads, Format(t) \/ \E b \in Buffers : GetSlot(t, b) PROVE IInv'
  BY <1>1, CallStep
<1>2. ASSUME NEW t \in Threads, Step(t) PROVE IInv'
  BY <1>2, LockStep, AdvanceStep, FoundStep, NotFoundStep, OpenStep, PushBackStep,
     FormatSlotStep, FormatWaitsStep, UnlockStep DEF Step
<1>3. ASSUME NEW t \in Threads, FormatThrows(t) PROVE IInv'
  BY <1>3, FormatWaitsStep
<1>4. ASSUME NEW f \in Names \ Invalid, OthersLock(f) \/ OthersUnlock(f) PROVE IInv'
  BY <1>4, OthersStep
<1>5. ASSUME NEW b \in Buffers, NEW n \in Names, Reuse(b, n) PROVE IInv'
  BY <1>5, ReuseStep
<1>6. CASE UNCHANGED vars
  <2>1. TableOK' /\ OthersOK' /\ OwnerInv' /\ ValidInv'
    BY <1>6, TypeParts DEF vars, IInv, TableOK, OthersOK, OwnerInv, ValidInv
  <2> Mapped' = Mapped
    BY <1>6 DEF vars, Mapped
  <2>2. KeysStayAlive => KeysInv' /\ SearchInv'
    BY <1>6 DEF vars, IInv, KeysInv, SearchInv, Knows
  <2> QED  BY <2>1, <2>2, TypeParts DEF IInv
<1> QED  BY <1>1, <1>2, <1>3, <1>4, <1>5, <1>6 DEF Next

-------------------------------------------------------------------------------
\* The inductive invariant holds in every state.
THEOREM Invariance == Spec => []IInv
  BY InitInv, NextInv, PTL DEF Spec

\* The variables have their types, whatever the callers do to their buffers; no invalid
\* name gets a file.
THEOREM TypeCorrect == Spec => []TypeOK
<1>1. IInv => TypeOK
  BY DEF IInv
<1> QED  BY <1>1, Invariance, PTL

\* processPrivateMtx_ is held by the thread between lock and unlock, and by nobody when
\* there is none: no return and no exception leaves it locked.
THEOREM MutexIsReleased == Spec => []OwnerInv
<1>1. IInv => OwnerInv
  BY DEF IInv
<1> QED  BY <1>1, Invariance, PTL

\* The internal errors of getSlot and of SmallMap::insert do not happen to callers who
\* keep their buffers.
THEOREM NoErrors ==
  ASSUME KeysStayAlive
  PROVE  Spec => []NoInternalError
<1>1. IInv => NoInternalError
  <2> SUFFICES ASSUME IInv, NEW t \in Threads
               PROVE  /\ pc[t] = "insert" => ~Matches(t)
                      /\ pc[t] = "refind" => ~AtEnd(t)
    BY DEF NoInternalError
  <2>1. pc[t] = "insert" => ~Matches(t)
    BY MatchFacts DEF IInv, SearchInv, Knows, Mapped
  <2>2. pc[t] = "refind" => ~AtEnd(t)
    BY SearchedAll DEF IInv, SearchInv, Knows
  <2> QED  BY <2>1, <2>2
<1> QED  BY <1>1, Invariance, PTL

\* Callers who keep their buffers get the slot of the name they asked for.
THEOREM RightSlot ==
  ASSUME KeysStayAlive
  PROVE  Spec => []ReturnsSlotAskedFor
<1>1. IInv => ReturnsSlotAskedFor
  BY DEF IInv, SearchInv, Knows, ReturnsSlotAskedFor
<1> QED  BY <1>1, Invariance, PTL

-------------------------------------------------------------------------------
\* SlotTable implements Directory while the keys stay alive: the abstract variables, and
\* what a step does to them.

Table == [f \in {items[i].file : i \in DOMAIN items} |->
            CHOOSE i \in DOMAIN items : items[i].file = f]

CallOf(t) == [who |-> t, name |-> text[arg[t]], reply |-> IF pc[t] = "return" THEN at[t] ELSE 0]

Calls == {CallOf(t) : t \in {u \in Threads : Getting(u)}}

TableMatches ==
  /\ DOMAIN Table = Mapped
  /\ \A i \in 1 .. Len(items) : Table[items[i].file] = i

\* No file is mapped twice, so each has the index of its own pair.
LEMMA MatchingTable == KeysStayAlive /\ IInv => TableMatches
<1> SUFFICES ASSUME KeysStayAlive, IInv PROVE TableMatches
  OBVIOUS
<1>1. DOMAIN items = 1 .. Len(items)
  BY TableFacts DEF IInv
<1>2. DOMAIN Table = Mapped
  BY <1>1 DEF Table, Mapped
<1>3. ASSUME NEW i \in 1 .. Len(items) PROVE Table[items[i].file] = i
  <2>1. (CHOOSE j \in 1 .. Len(items) : items[j].file = items[i].file) = i
    BY DEF IInv, KeysInv
  <2> QED  BY <1>1, <2>1 DEF Table
<1> QED  BY <1>2, <1>3 DEF TableMatches

LEMMA SameDirectory ==
  ASSUME UNCHANGED items
  PROVE  Table' = Table
  BY DEF Table

\* A step of one thread's call changes no other call.
LEMMA OtherCalls ==
  ASSUME NEW t \in Threads,
         \A u \in Threads \ {t} : (Getting(u)' <=> Getting(u)) /\ CallOf(u)' = CallOf(u)
  PROVE  /\ Getting(t) /\ Getting(t)' /\ CallOf(t)' = CallOf(t) => Calls' = Calls
         /\ ~Getting(t) /\ ~Getting(t)' => Calls' = Calls
         /\ ~Getting(t) /\ Getting(t)' => Calls' = Calls \cup {CallOf(t)'}
         /\ Getting(t) /\ ~Getting(t)' => Calls' = Calls \ {CallOf(t)}
         /\ Getting(t) /\ Getting(t)' => Calls' = (Calls \ {CallOf(t)}) \cup {CallOf(t)'}
<1>1. \A u \in Threads \ {t} : CallOf(u) # CallOf(t) /\ CallOf(u)' # CallOf(t)'
  BY DEF CallOf
<1> QED  BY <1>1 DEF Calls

LEMMA OneThread ==
  ASSUME IInv, NEW t \in Threads,
         Step(t) \/ FormatThrows(t) \/ Format(t) \/ \E b \in Buffers : GetSlot(t, b)
  PROVE  \A u \in Threads \ {t} : (Getting(u)' <=> Getting(u)) /\ CallOf(u)' = CallOf(u)
<1>1. /\ UNCHANGED text
      /\ \A u \in Threads \ {t} : pc'[u] = pc[u] /\ arg'[u] = arg[u] /\ at'[u] = at[u]
  BY TypeParts
     DEF IInv, OthersOK, Goto, Step, Lock, Advance, Found, NotFound, Open, PushBack, FormatSlot,
         FormatSleeps, FormatWakes, FormatThrows, Unlock, Format, GetSlot
<1> QED  BY <1>1 DEF Getting, CallOf

\* The steps that the caller of getSlot does not notice.
LEMMA SilentStep ==
  ASSUME IInv, NEW t \in Threads,
         \/ Lock(t) \/ Advance(t) \/ NotFound(t) \/ Open(t) \/ FormatSlot(t) \/ Format(t)
         \/ FormatSleeps(t) \/ FormatWakes(t) \/ FormatThrows(t)
         \/ Unlock(t) /\ pc[t] \in {"format", "fthrow"}
         \/ Found(t) /\ pc[t] = "insert"
  PROVE  UNCHANGED <<Table, Calls>>
<1>1. UNCHANGED <<text, items>>
  BY DEF Lock, Advance, NotFound, Open, FormatSlot, FormatSleeps, FormatWakes, FormatThrows,
         Format, Unlock, Found
<1>2. /\ arg'[t] = arg[t] /\ pc[t] # "return" /\ pc'[t] # "return"
      /\ Getting(t)' <=> Getting(t)
  BY TypeParts
     DEF IInv, OthersOK, Goto, Lock, Advance, NotFound, Open, FormatSlot, FormatSleeps,
         FormatWakes, FormatThrows, Format, Unlock, Found, Getting, Locations
<1>3. CallOf(t)' = CallOf(t)
  BY <1>1, <1>2 DEF CallOf
<1>4. Calls' = Calls
  BY <1>2, <1>3, OneThread, OtherCalls DEF Step
<1> QED  BY <1>1, <1>4, SameDirectory

\* The call enters; the call's name gets its mapping; the call gets its reply; the call is
\* over.
LEMMA GetSlotCalls ==
  ASSUME IInv, NEW t \in Threads, NEW b \in Buffers, GetSlot(t, b)
  PROVE  /\ \A k \in Calls : k.who # t
         /\ Calls' = Calls \cup {[who |-> t, name |-> text[b], reply |-> 0]}
         /\ Table' = Table /\ text[b] \in Names
<1>1. ~Getting(t) /\ Getting(t)' /\ text[b] \in Names
  BY TypeParts DEF IInv, OthersOK, GetSlot, Goto, Getting, Locations
<1>2. CallOf(t)' = [who |-> t, name |-> text[b], reply |-> 0]
  BY TypeParts DEF IInv, OthersOK, GetSlot, Goto, CallOf
<1>3. Calls' = Calls \cup {CallOf(t)'}
  BY <1>1, OneThread, OtherCalls
<1>4. \A k \in Calls : k.who # t
  BY <1>1 DEF Calls, CallOf
<1> QED  BY <1>1, <1>2, <1>3, <1>4, SameDirectory DEF GetSlot

LEMMA PushBackCalls ==
  ASSUME KeysStayAlive, IInv, IInv', NEW t \in Threads, PushBack(t)
  PROVE  /\ CallOf(t) \in Calls /\ CallOf(t).reply = 0
         /\ CallOf(t).name \notin DOMAIN Table
         /\ Table' = [n \in DOMAIN Table \cup {CallOf(t).name} |->
                        IF n = CallOf(t).name THEN Cardinality(DOMAIN Table) + 1 ELSE Table[n]]
         /\ Calls' = Calls
<1> DEFINE f == text[arg[t]]
           new == [n \in DOMAIN Table \cup {f} |->
                     IF n = f THEN Cardinality(DOMAIN Table) + 1 ELSE Table[n]]
<1>1. TableMatches /\ TableMatches'
  BY MatchingTable, PTL
<1>2. pc[t] = "insert" /\ pc'[t] = "refind" /\ UNCHANGED <<text, arg>>
  BY TypeParts DEF IInv, OthersOK, PushBack, Goto
<1>3. CallOf(t).name = f /\ CallOf(t).reply = 0 /\ CallOf(t)' = CallOf(t)
  BY <1>2 DEF CallOf
<1>4. Getting(t) /\ Getting(t)'
  BY <1>2 DEF Getting, Locations
<1>5. CallOf(t) \in Calls
  BY <1>4 DEF Calls
<1>6. Calls' = Calls
  BY <1>3, <1>4, OneThread, OtherCalls DEF Step
<1>7. DOMAIN Table' = DOMAIN Table \cup {f} /\ f \notin DOMAIN Table
  BY <1>1, PushBackFacts DEF TableMatches
<1>8. Table'[f] = Cardinality(DOMAIN Table) + 1
  <2>1. Len(items) + 1 \in 1 .. Len(items') /\ items'[Len(items) + 1].file = f
    BY PushBackFacts
  <2>2. Table'[f] = Len(items) + 1
    BY <1>1, <2>1 DEF TableMatches
  <2>3. Cardinality(DOMAIN Table) = Len(items)
    BY <1>1 DEF TableMatches, IInv, KeysInv
  <2> QED  BY <2>2, <2>3
<1>9. ASSUME NEW n \in DOMAIN Table PROVE Table'[n] = Table[n]
  <2>1. PICK i \in 1 .. Len(items) : n = items[i].file
    BY <1>1 DEF TableMatches, Mapped
  <2>2. i \in 1 .. Len(items') /\ items'[i] = items[i]
    BY PushBackFacts
  <2> QED  BY <1>1, <2>1, <2>2 DEF TableMatches
<1>10. Table' = [n \in DOMAIN Table' |-> Table'[n]]
  BY DEF Table
<1>11. Table' = new
  BY <1>7, <1>8, <1>9, <1>10
<1> QED  BY <1>3, <1>5, <1>6, <1>7, <1>11

LEMMA FoundCalls ==
  ASSUME KeysStayAlive, IInv, NEW t \in Threads, Found(t), pc[t] # "insert"
  PROVE  /\ CallOf(t) \in Calls /\ CallOf(t).reply = 0 /\ CallOf(t).name \in DOMAIN Table
         /\ Calls' = (Calls \ {CallOf(t)})
                       \cup {[CallOf(t) EXCEPT !.reply = Table[CallOf(t).name]]}
         /\ Table' = Table
<1>1. TableMatches
  BY MatchingTable
<1>2. /\ pc[t] \in {"find", "refind"} /\ pc'[t] = "return" /\ UNCHANGED <<text, items, arg, at>>
      /\ Matches(t)
  BY TypeParts DEF IInv, OthersOK, Found, Goto
<1>3. at[t] \in 1 .. Len(items) /\ items[at[t]].file = text[arg[t]]
  BY <1>2, MatchFacts
<1>4. CallOf(t) = [who |-> t, name |-> text[arg[t]], reply |-> 0]
  BY <1>2 DEF CallOf
<1>5. CallOf(t).name \in DOMAIN Table /\ Table[CallOf(t).name] = at[t]
  BY <1>1, <1>3, <1>4 DEF TableMatches, Mapped
<1>6. CallOf(t)' = [who |-> t, name |-> text[arg[t]], reply |-> at[t]]
  BY <1>2 DEF CallOf
<1>7. CallOf(t)' = [CallOf(t) EXCEPT !.reply = Table[CallOf(t).name]]
  BY <1>4, <1>5, <1>6
<1>8. Getting(t) /\ Getting(t)'
  BY <1>2 DEF Getting, Locations
<1>9. Calls' = (Calls \ {CallOf(t)}) \cup {CallOf(t)'}
  BY <1>8, OneThread, OtherCalls DEF Step
<1>10. CallOf(t) \in Calls
  BY <1>8 DEF Calls
<1> QED  BY <1>2, <1>4, <1>5, <1>7, <1>9, <1>10, SameDirectory

LEMMA UnlockCalls ==
  ASSUME IInv, NEW t \in Threads, Unlock(t), pc[t] \notin {"format", "fthrow"}
  PROVE  CallOf(t) \in Calls /\ Calls' = Calls \ {CallOf(t)} /\ Table' = Table
<1>1. Getting(t) /\ ~Getting(t)'
  BY TypeParts DEF IInv, OthersOK, Unlock, Goto, Getting, Locations
<1>2. CallOf(t) \in Calls
  BY <1>1 DEF Calls
<1>3. Calls' = Calls \ {CallOf(t)}
  BY <1>1, OneThread, OtherCalls DEF Step
<1> QED  BY <1>2, <1>3, SameDirectory DEF Unlock

LEMMA ReuseCalls ==
  ASSUME IInv, NEW b \in Buffers, NEW n \in Names, Reuse(b, n)
  PROVE  UNCHANGED <<Table, Calls>>
<1>1. UNCHANGED <<items, pc, arg, at>>
  BY DEF Reuse
<1>2. \A t \in Threads : Getting(t) => text'[arg[t]] = text[arg[t]]
  BY TypeParts, TableFacts DEF IInv, OthersOK, Reuse
<1>3. \A t \in Threads : (Getting(t)' <=> Getting(t)) /\ (Getting(t) => CallOf(t)' = CallOf(t))
  BY <1>1, <1>2 DEF Getting, CallOf
<1>4. Calls' = Calls
  BY <1>3 DEF Calls
<1> QED  BY <1>1, <1>4, SameDirectory

\* Every step is a step of Directory or leaves the table and the calls as they are.
LEMMA NextImplements ==
  ASSUME KeysStayAlive, IInv, IInv', [Next]_vars
  PROVE  [Dir!Next]_(Dir!vars)
<1>1. Dir!vars = <<Table, Calls>> /\ Dir!vars' = <<Table', Calls'>>
  BY DEF Dir!vars, Table, Calls, CallOf
<1>2. \A S : Dir!Cardinality(S) = Cardinality(S)
  BY DEF Dir!Cardinality, Cardinality
<1> DEFINE Answers(k) == Dir!Enter(k) \/ Dir!Reply(k) \/ Dir!Finish(k)
<1>3. \A k \in Calls : Answers(k) => Dir!Next
  BY DEF Dir!Next, Calls, CallOf
<1>4. \A t \in Threads, n \in Names : Dir!Call(t, n) => Dir!Next
  BY DEF Dir!Next
<1>5. \A k : /\ k.reply = 0 /\ k.name \notin DOMAIN Table
             /\ Table' = [n \in DOMAIN Table \cup {k.name} |->
                            IF n = k.name THEN Dir!Cardinality(DOMAIN Table) + 1 ELSE Table[n]]
             /\ UNCHANGED Calls
             => Dir!Enter(k)
  BY Zenon DEF Dir!Enter, Table, Calls, CallOf
<1>6. ASSUME NEW t \in Threads, NEW b \in Buffers, GetSlot(t, b) PROVE Dir!Next
  <2>1. PICK n \in Names : n = text[b]
    BY <1>6, GetSlotCalls
  <2>2. Dir!Call(t, n)
    BY <1>6, <2>1, GetSlotCalls DEF Dir!Call, Table, Calls, CallOf
  <2> QED  BY <1>4, <1>6, <2>2
<1>7. ASSUME NEW t \in Threads, PushBack(t) PROVE Dir!Next
  <2>1. PICK k \in Calls : k = CallOf(t)
    BY <1>7, PushBackCalls
  <2>2. Dir!Enter(k)
    BY <1>2, <1>5, <1>7, <2>1, PushBackCalls
  <2> QED  BY <1>3, <2>2
<1>8. ASSUME NEW t \in Threads, Found(t) PROVE [Dir!Next]_(Dir!vars)
  <2>1. CASE pc[t] = "insert"
    BY <1>1, <1>8, <2>1, SilentStep
  <2>2. CASE pc[t] # "insert"
    <3>1. PICK k \in Calls : k = CallOf(t)
      BY <1>8, <2>2, FoundCalls
    <3>2. Dir!Reply(k)
      BY <1>8, <2>2, <3>1, FoundCalls DEF Dir!Reply, Table, Calls, CallOf
    <3> QED  BY <1>3, <3>2
  <2> QED  BY <2>1, <2>2
<1>9. ASSUME NEW t \in Threads, Unlock(t) PROVE [Dir!Next]_(Dir!vars)
  <2>1. CASE pc[t] \in {"format", "fthrow"}
    BY <1>1, <1>9, <2>1, SilentStep
  <2>2. CASE pc[t] \notin {"format", "fthrow"}
    <3>1. PICK k \in Calls : k = CallOf(t)
      BY <1>9, <2>2, UnlockCalls
    <3>2. Dir!Finish(k)
      BY <1>9, <2>2, <3>1, UnlockCalls DEF Dir!Finish, Table, Calls, CallOf
    <3> QED  BY <1>3, <3>2
  <2> QED  BY <2>1, <2>2
<1>10. ASSUME NEW t \in Threads,
             \/ Lock(t) \/ Advance(t) \/ NotFound(t) \/ Open(t) \/ FormatSlot(t) \/ Format(t)
             \/ FormatSleeps(t) \/ FormatWakes(t) \/ FormatThrows(t)
      PROVE  UNCHANGED Dir!vars
  BY <1>1, <1>10, SilentStep
<1>11. ASSUME NEW b \in Buffers, NEW n \in Names, Reuse(b, n) PROVE UNCHANGED Dir!vars
  BY <1>1, <1>11, ReuseCalls
<1>12. ASSUME NEW f \in Names \ Invalid, OthersLock(f) \/ OthersUnlock(f)
      PROVE  UNCHANGED Dir!vars
  <2>1. UNCHANGED <<text, items, pc, arg, at>>
    BY <1>12 DEF OthersLock, OthersUnlock
  <2>2. Calls' = Calls
    BY <2>1 DEF Calls, CallOf, Getting
  <2> QED  BY <1>1, <2>1, <2>2, SameDirectory
<1>13. CASE UNCHANGED vars
  <2>1. UNCHANGED <<text, items, pc, arg, at>>
    BY <1>13 DEF vars
  <2>2. Calls' = Calls
    BY <2>1 DEF Calls, CallOf, Getting
  <2> QED  BY <1>1, <2>1, <2>2, SameDirectory
<1> QED  BY <1>6, <1>7, <1>8, <1>9, <1>10, <1>11, <1>12, <1>13
     DEF Next, Step

\* To callers who keep their buffers, getSlot is a directory: the search by strcmp, the
\* three searches of one call and the exceptions between them make no second mapping of a
\* name and give nobody another name's.
THEOREM Refinement ==
  ASSUME KeysStayAlive
  PROVE  Spec => ImplementsDirectory
<1>1. Init => Dir!Init
  <2>1. SUFFICES ASSUME Init PROVE Dir!Init
    OBVIOUS
  <2>2. {items[i].file : i \in DOMAIN items} = {}
    BY <2>1 DEF Init
  <2>3. \A t \in Threads : ~Getting(t)
    BY <2>1 DEF Init, Getting
  <2> QED  BY <2>2, <2>3 DEF Dir!Init
<1>2. IInv /\ IInv' /\ [Next]_vars => [Dir!Next]_(Dir!vars)
  BY NextImplements
<1> QED  BY <1>1, <1>2, Invariance, PTL DEF Spec, ImplementsDirectory, Dir!Spec
================================================================================
