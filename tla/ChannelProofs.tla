----------------------------- MODULE ChannelProofs -----------------------------
(***************************************************************************)
(* Channel is right for every set of slots and threads, every modulus of    *)
(* the counters, and whatever crashes and signals may happen: a slot's      *)
(* header and bytes agree whenever no writer holds it, a sleeper is owed a  *)
(* wake, and the slots are a mailbox.                                       *)
(***************************************************************************)
EXTENDS Channel, FiniteSetTheorems, TLAPS

\* Where a writer is while it holds its slot's lock.
Holding == {"copy", "copying", "length", "seq", "wunlock"}

\* Every thread is inside the operations of its kind; a writer's message has a length, and
\* a waiter waits for something.
LocationInv ==
  /\ \A p \in Writers : pc[p] \in WriterLocations /\ (pc[p] # "idle" => len[p] \in Lengths)
  /\ \A w \in Waiters : /\ pc[w] \in WaiterLocations
                        /\ pc[w] \in {"compare", "wait", "asleep"} => sub[w] # {}

\* The calls of Slot::write that have not copied to s yet, and those that have not
\* incremented the domain's counter.
Unpublished(s) == {p \in Writers : slot[p] = s /\ pc[p] \in {"copy"} \cup WLocking}
Unannounced == {p \in Writers : pc[p] \in Holding \cup {"dominc"} \cup WLocking}

\* They and the ones that have are calls of Slot::write.
CallsInv ==
  /\ \A s \in Slots : /\ IsFiniteSet(Unpublished(s))
                      /\ data[s].ver + Cardinality(Unpublished(s)) <= calls
  /\ IsFiniteSet(Unannounced)
  /\ domCount + Cardinality(Unannounced) <= calls

\* A slot is held by one writer or by readers.
ExclusionInv ==
  \A p \in Writers : pc[p] \in Holding =>
    /\ \A q \in Writers : pc[q] \in Holding /\ slot[q] = slot[p] => q = p
    /\ \A w \in Waiters : slot[w] = slot[p] => pc[w] # "view"

\* The slot's header and bytes agree.
Agrees(s) == data[s].whole /\ length[s] = data[s].len /\ count[s] = data[s].ver

\* What a writer in the middle of Slot::write has done to its slot.
Written(p) ==
  /\ pc[p] \in {"copy", "wunlock"} => Agrees(slot[p])
  /\ pc[p] \in {"copying", "length", "seq"} =>
       data[slot[p]].len = len[p] /\ data[slot[p]].ver = count[slot[p]] + 1
  /\ pc[p] \in {"length", "seq"} => data[slot[p]].whole
  /\ pc[p] = "seq" => length[slot[p]] = len[p]

HeaderInv == HeaderMatchesData /\ \A p \in Writers : Written(p)

\* No waiter has seen more than there is.
LastInv == \A w \in Waiters, s \in Slots : last[w][s] <= count[s]

IInv ==
  /\ TypeOK
  /\ LocationInv
  /\ CallsInv
  /\ ExclusionInv
  /\ HeaderInv
  /\ LastInv
  /\ SleeperIsOwedAWake

-------------------------------------------------------------------------------
\* What a load of a counter returns is no more than the counter.
LEMMA LoadFacts ==
  ASSUME NEW n \in Nat
  PROVE  n % SeqMod \in 0 .. SeqMod - 1 /\ n % SeqMod <= n
  BY CountersAssumption

LEMMA NoSlotIsSlot == NoSlot \in Slots
  BY InputsAssumption DEF NoSlot

\* Every slot has the same bit, so a waiter with a subscription waits with every writer's.
LEMMA MaskFacts ==
  ASSUME NEW w \in Waiters, NEW s \in Slots, sub[w] # {}
  PROVE  Index(s) \in Mask(w)
  BY DEF Index, Mask

LEMMA KindsAreDisjoint ==
  /\ Writers \subseteq Threads /\ Waiters \subseteq Threads
  /\ \A p \in Writers, w \in Waiters : p # w
  BY ThreadsAssumption DEF Threads

\* A new last value leaves the table of them a table.
LEMMA LastFacts ==
  ASSUME NEW S, NEW f \in [Waiters -> [Slots -> S]], NEW w \in Waiters, NEW s \in Slots, NEW x \in S
  PROVE  [f EXCEPT ![w][s] = x] \in [Waiters -> [Slots -> S]]
  OBVIOUS

\* One more call makes one more at most.
LEMMA JoinFacts ==
  ASSUME NEW S, IsFiniteSet(S), NEW x
  PROVE  /\ IsFiniteSet(S \cup {x})
         /\ Cardinality(S \cup {x}) \in Nat /\ Cardinality(S \cup {x}) <= Cardinality(S) + 1
<1>1. IsFiniteSet(S \cup {x}) /\ Cardinality(S) \in Nat
  BY FS_AddElement, FS_CardinalityType
<1>2. Cardinality(S \cup {x}) = Cardinality(S) \/ Cardinality(S \cup {x}) = Cardinality(S) + 1
  BY FS_AddElement
<1> QED  BY <1>1, <1>2

\* The counters of a slot never pass the number of calls.
LEMMA VerFacts ==
  ASSUME IInv, NEW s \in Slots
  PROVE  /\ data[s].ver \in Nat /\ count[s] \in Nat /\ calls \in Nat /\ domCount \in Nat
         /\ Cardinality(Unpublished(s)) \in Nat /\ Cardinality(Unannounced) \in Nat
         /\ data[s].ver <= calls /\ domCount <= calls /\ calls <= MaxWrites
<1>1. /\ data[s].ver \in Nat /\ count[s] \in Nat /\ domCount \in Nat
      /\ calls \in Nat /\ calls <= MaxWrites
  BY DEF IInv, TypeOK
<1>2. Cardinality(Unpublished(s)) \in Nat /\ Cardinality(Unannounced) \in Nat
  BY FS_CardinalityType DEF IInv, CallsInv
<1>3. /\ data[s].ver + Cardinality(Unpublished(s)) <= calls
      /\ domCount + Cardinality(Unannounced) <= calls
  BY DEF IInv, CallsInv
<1> QED  BY <1>1, <1>2, <1>3

\* The counts stay if no call joins those that have not published or announced.
LEMMA SameCalls ==
  ASSUME IInv, calls' = calls, domCount' = domCount,
         \A s \in Slots : data'[s].ver = data[s].ver /\ Unpublished(s)' \subseteq Unpublished(s),
         Unannounced' \subseteq Unannounced
  PROVE  CallsInv'
<1>1. ASSUME NEW s \in Slots
      PROVE  IsFiniteSet(Unpublished(s)') /\ data'[s].ver + Cardinality(Unpublished(s)') <= calls'
  <2>1. /\ IsFiniteSet(Unpublished(s)')
        /\ Cardinality(Unpublished(s)') <= Cardinality(Unpublished(s))
        /\ Cardinality(Unpublished(s)') \in Nat
    BY FS_Subset, FS_CardinalityType DEF IInv, CallsInv
  <2> QED  BY <2>1, VerFacts DEF IInv, CallsInv
<1>2. /\ IsFiniteSet(Unannounced') /\ Cardinality(Unannounced') <= Cardinality(Unannounced)
      /\ Cardinality(Unannounced') \in Nat
  BY FS_Subset, FS_CardinalityType DEF IInv, CallsInv
<1>3. domCount' + Cardinality(Unannounced') <= calls'
  BY <1>2, VerFacts, InputsAssumption DEF IInv, CallsInv
<1> QED  BY <1>1, <1>2, <1>3 DEF CallsInv

\* What a step of waiter w keeps that only takes a lock no writer holds.
LEMMA WaiterMoves ==
  ASSUME IInv, NEW w \in Waiters, UNCHANGED <<shared, calls, dead>>,
         \A p \in Writers : pc'[p] = pc[p] /\ slot'[p] = slot[p] /\ len'[p] = len[p],
         \A v \in Waiters \ {w} : /\ pc'[v] = pc[v] /\ slot'[v] = slot[v] /\ sub'[v] = sub[v]
                                  /\ last'[v] = last[v] /\ prv'[v] = prv[v],
         pc'[w] \in WaiterLocations,
         pc'[w] \in {"compare", "wait", "asleep"} => sub'[w] # {},
         pc'[w] = "asleep" => domCount % SeqMod = prv'[w],
         pc'[w] = "view" => \A p \in Writers : slot[p] = slot'[w] => pc[p] \notin Holding,
         \A s \in Slots : last'[w][s] <= count[s]
  PROVE  LocationInv' /\ CallsInv' /\ ExclusionInv' /\ HeaderInv' /\ LastInv' /\ SleeperIsOwedAWake'
<1>1. LocationInv'
  BY DEF IInv, LocationInv
<1>2. CallsInv'
  BY SameCalls DEF shared, Unpublished, Unannounced, WLocking
<1>3. ExclusionInv'
  BY DEF IInv, ExclusionInv
<1>4. HeaderInv'
  BY DEF IInv, HeaderInv, HeaderMatchesData, WriteHolders, Written, Agrees, shared
<1>5. LastInv'
  BY DEF IInv, LastInv, shared
<1>6. SleeperIsOwedAWake'
  BY DEF IInv, SleeperIsOwedAWake, Sleepers, Mask, shared
<1> QED  BY <1>1, <1>2, <1>3, <1>4, <1>5, <1>6

\* What a step of writer p keeps that is not the wake.
LEMMA WriterMoves ==
  ASSUME IInv, NEW p \in Writers, UNCHANGED <<waiter, dead>>, pc[p] # "wake",
         \A t \in Threads \ {p} : pc'[t] = pc[t] /\ slot'[t] = slot[t] /\ len'[t] = len[t],
         pc'[p] \in WriterLocations, slot'[p] \in Slots,
         pc'[p] # "idle" => len'[p] \in Lengths,
         domCount' = domCount \/ pc'[p] = "wake",
         \A s \in Slots : count[s] <= count'[s] /\ count'[s] \in Nat
  PROVE  LocationInv' /\ LastInv' /\ SleeperIsOwedAWake'
<1>1. LocationInv'
  BY KindsAreDisjoint DEF IInv, LocationInv, waiter
<1>2. LastInv'
  <2> SUFFICES ASSUME NEW w \in Waiters, NEW s \in Slots
               PROVE  last[w][s] <= count'[s]
    BY DEF LastInv, waiter
  <2>1. last[w][s] \in Nat
    BY DEF IInv, TypeOK
  <2> QED  BY <2>1, VerFacts DEF IInv, LastInv
<1>3. SleeperIsOwedAWake'
  <2> SUFFICES ASSUME NEW w \in Sleepers', domCount' % SeqMod # prv[w]
               PROVE  \E q \in Writers : pc'[q] = "wake" /\ Index(slot'[q]) \in Mask(w)
    BY DEF SleeperIsOwedAWake, waiter, Mask
  <2>1. w \in Sleepers /\ w \in Waiters /\ sub[w] # {}
    BY KindsAreDisjoint DEF Sleepers, IInv, LocationInv
  <2>2. CASE pc'[p] = "wake"
    BY <2>1, <2>2, MaskFacts
  <2>3. CASE domCount' = domCount
    <3>1. PICK q \in Writers : pc[q] = "wake" /\ Index(slot[q]) \in Mask(w)
      BY <2>1, <2>3 DEF IInv, SleeperIsOwedAWake
    <3>2. q # p /\ pc'[q] = "wake" /\ slot'[q] = slot[q]
      BY <3>1 DEF Threads
    <3> QED  BY <3>1, <3>2
  <2> QED  BY <2>2, <2>3
<1> QED  BY <1>1, <1>2, <1>3

-------------------------------------------------------------------------------
\* One lemma per step: it keeps IInv.  The writers' steps first.

\* What a writer's step keeps that changes no slot's header.
LEMMA SameHeader ==
  ASSUME IInv, NEW p \in Writers, UNCHANGED <<data, length, count>>,
         \A q \in Writers \ {p} : pc'[q] = pc[q] /\ slot'[q] = slot[q] /\ len'[q] = len[q],
         Written(p)',
         pc[p] \in Holding => Agrees(slot[p])
  PROVE  HeaderInv'
  BY DEF IInv, HeaderInv, HeaderMatchesData, WriteHolders, Written, Agrees, Holding

\* What a step keeps by which writer p takes no lock.
LEMMA SameHolders ==
  ASSUME IInv, NEW p \in Writers,
         \A t \in Threads \ {p} : /\ slot'[t] = slot[t]
                                  /\ pc'[t] = pc[t] \/ pc'[t] \notin Holding \cup {"view"},
         pc'[p] \in Holding => pc[p] \in Holding /\ slot'[p] = slot[p]
  PROVE  ExclusionInv'
<1>1. \A t \in Threads : pc'[t] \in Holding => pc[t] \in Holding /\ slot'[t] = slot[t]
  OBVIOUS
<1>2. \A w \in Waiters : slot'[w] = slot[w] /\ (pc'[w] = "view" => pc[w] = "view")
  BY KindsAreDisjoint
<1> QED  BY KindsAreDisjoint DEF IInv, ExclusionInv

LEMMA WriteStep ==
  ASSUME IInv, NEW p \in Writers, NEW s \in Slots, NEW l \in Lengths, Write(p, s, l)
  PROVE  IInv'
<1>1. TypeOK'
  BY KindsAreDisjoint, CountersAssumption
     DEF IInv, TypeOK, Write, Goto, shared, waiter, WriterLocations, WLocking
<1>2. /\ pc[p] = "idle" /\ pc'[p] = "wlock" /\ slot'[p] = s /\ len'[p] = l /\ calls' = calls + 1
      /\ UNCHANGED <<data, length, count, domCount, waiter, dead>>
      /\ \A t \in Threads \ {p} : pc'[t] = pc[t] /\ slot'[t] = slot[t] /\ len'[t] = len[t]
  BY KindsAreDisjoint DEF IInv, TypeOK, Write, Goto, shared
<1>3. LocationInv' /\ LastInv' /\ SleeperIsOwedAWake'
  BY <1>2, VerFacts, WriterMoves DEF WriterLocations, WLocking
<1>4. ExclusionInv'
  BY <1>2, SameHolders DEF Holding
<1>5. HeaderInv'
  BY <1>2, KindsAreDisjoint, SameHeader DEF Written, Holding
<1>6. CallsInv'
  <2>1. ASSUME NEW u \in Slots
        PROVE  IsFiniteSet(Unpublished(u)') /\ data'[u].ver + Cardinality(Unpublished(u)') <= calls'
    <3>1. Unpublished(u)' = IF u = s THEN Unpublished(u) \cup {p} ELSE Unpublished(u)
      BY <1>2, KindsAreDisjoint DEF Unpublished, WLocking
    <3>2. /\ IsFiniteSet(Unpublished(u)')
          /\ Cardinality(Unpublished(u)') <= Cardinality(Unpublished(u)) + 1
          /\ Cardinality(Unpublished(u)') \in Nat
      <4>1. IsFiniteSet(Unpublished(u)) /\ Cardinality(Unpublished(u)) \in Nat
        BY VerFacts DEF IInv, CallsInv
      <4>2. CASE u = s
        <5>1. Unpublished(u)' = Unpublished(u) \cup {p}
          BY <3>1, <4>2
        <5> QED  BY <4>1, <5>1, JoinFacts
      <4>3. CASE u # s
        BY <3>1, <4>1, <4>3
      <4> QED  BY <4>2, <4>3
    <3> QED  BY <1>2, <3>2, VerFacts DEF IInv, CallsInv
  <2>2. Unannounced' = Unannounced \cup {p}
    BY <1>2, KindsAreDisjoint DEF Unannounced, WLocking
  <2>3. IsFiniteSet(Unannounced') /\ Cardinality(Unannounced') <= Cardinality(Unannounced) + 1
        /\ Cardinality(Unannounced') \in Nat
    BY <2>2, JoinFacts DEF IInv, CallsInv
  <2>4. domCount' + Cardinality(Unannounced') <= calls'
    BY <1>2, <2>3, VerFacts DEF IInv, CallsInv
  <2> QED  BY <2>1, <2>3, <2>4 DEF CallsInv
<1> QED  BY <1>1, <1>3, <1>4, <1>5, <1>6 DEF IInv

LEMMA WLockStep ==
  ASSUME IInv, NEW p \in Writers, WLock(p)
  PROVE  IInv'
<1>1. TypeOK'
  BY DEF IInv, TypeOK, WLock, Goto, shared, waiter, WriterLocations, WLocking
<1>2. /\ pc[p] \in WLocking /\ pc'[p] = "copy"
      /\ WriteHolders(slot[p]) = {} /\ ReadHolders(slot[p]) = {}
      /\ UNCHANGED <<data, length, count, domCount, waiter, dead, calls, slot, len>>
      /\ \A t \in Threads \ {p} : pc'[t] = pc[t] /\ slot'[t] = slot[t] /\ len'[t] = len[t]
  BY KindsAreDisjoint DEF IInv, TypeOK, WLock, Goto, shared, SlotLock!AcquireWrite
<1>3. slot[p] \in Slots /\ len[p] \in Lengths
  BY <1>2, KindsAreDisjoint DEF IInv, TypeOK, LocationInv, WLocking
<1>4. LocationInv' /\ LastInv' /\ SleeperIsOwedAWake'
  BY <1>2, <1>3, VerFacts, WriterMoves DEF WriterLocations, WLocking
<1>5. ExclusionInv'
  BY <1>2, KindsAreDisjoint DEF IInv, ExclusionInv, WriteHolders, ReadHolders, Holding
<1>6. HeaderInv'
  BY <1>2, <1>3, KindsAreDisjoint, SameHeader
     DEF IInv, HeaderInv, HeaderMatchesData, Agrees, Written
<1>7. CallsInv'
  BY <1>2, KindsAreDisjoint, SameCalls DEF Unpublished, Unannounced, WLocking
<1> QED  BY <1>1, <1>4, <1>5, <1>6, <1>7 DEF IInv

LEMMA StartCopyStep ==
  ASSUME IInv, NEW p \in Writers, StartCopy(p)
  PROVE  IInv'
<1>1. /\ pc[p] = "copy" /\ pc'[p] = "copying" /\ slot[p] \in Slots /\ len[p] \in Lengths
      /\ UNCHANGED <<length, count, domCount, waiter, dead, calls, slot, len>>
      /\ \A t \in Threads \ {p} : pc'[t] = pc[t] /\ slot'[t] = slot[t] /\ len'[t] = len[t]
  BY KindsAreDisjoint DEF IInv, TypeOK, LocationInv, StartCopy, Goto
<1>2. /\ data'[slot[p]] = [ver |-> data[slot[p]].ver + 1, len |-> len[p], whole |-> FALSE]
      /\ \A s \in Slots \ {slot[p]} : data'[s] = data[s]
  BY <1>1 DEF IInv, TypeOK, StartCopy
<1>3. p \in Unpublished(slot[p])
  BY <1>1 DEF Unpublished, WLocking
<1>4. CallsInv'
  <2>1. ASSUME NEW u \in Slots
        PROVE  IsFiniteSet(Unpublished(u)') /\ data'[u].ver + Cardinality(Unpublished(u)') <= calls'
    <3>1. CASE u = slot[p]
      <4>1. Unpublished(u)' = Unpublished(u) \ {p}
        BY <1>1, KindsAreDisjoint DEF Unpublished, WLocking
      <4>2. /\ IsFiniteSet(Unpublished(u)')
            /\ Cardinality(Unpublished(u)') = Cardinality(Unpublished(u)) - 1
        BY <4>1, <1>3, <3>1, FS_RemoveElement DEF IInv, CallsInv
      <4>3. data'[u].ver = data[u].ver + 1
        BY <1>2, <3>1
      <4> QED  BY <1>1, <4>2, <4>3, VerFacts DEF IInv, CallsInv
    <3>2. CASE u # slot[p]
      <4>1. Unpublished(u)' = Unpublished(u)
        BY <1>1, <3>2, KindsAreDisjoint DEF Unpublished, WLocking
      <4> QED  BY <1>1, <1>2, <3>2, <4>1 DEF IInv, CallsInv
    <3> QED  BY <3>1, <3>2
  <2>2. Unannounced' = Unannounced
    BY <1>1, KindsAreDisjoint DEF Unannounced, WLocking, Holding
  <2> QED  BY <1>1, <2>1, <2>2 DEF IInv, CallsInv
<1>5. data[slot[p]].ver + 1 \in 0 .. MaxWrites
  <2>1. IsFiniteSet(Unpublished(slot[p])) /\ Cardinality(Unpublished(slot[p])) # 0
    BY <1>1, <1>3, FS_EmptySet DEF IInv, CallsInv
  <2> QED  BY <1>1, <2>1, VerFacts, CountersAssumption DEF IInv, CallsInv
<1>6. TypeOK'
  BY <1>5, KindsAreDisjoint DEF IInv, TypeOK, StartCopy, Goto, waiter, WriterLocations, WLocking
<1>7. LocationInv' /\ LastInv' /\ SleeperIsOwedAWake'
  BY <1>1, VerFacts, WriterMoves DEF WriterLocations, WLocking
<1>8. ExclusionInv'
  BY <1>1, SameHolders DEF Holding
<1>9. HeaderInv'
  <2>1. Agrees(slot[p])
    BY <1>1 DEF IInv, HeaderInv, Written
  <2>2. \A q \in Writers \ {p} : pc[q] \in Holding => slot[q] # slot[p]
    BY <1>1 DEF IInv, ExclusionInv, Holding
  <2>3. Written(p)'
    BY <1>1, <1>2, <2>1 DEF Written, Agrees
  <2>4. \A q \in Writers \ {p} : Written(q)'
    BY <1>1, <1>2, <2>2, KindsAreDisjoint DEF IInv, TypeOK, HeaderInv, Written, Agrees,
                                              Holding
  <2>5. HeaderMatchesData'
    BY <1>1, <1>2, KindsAreDisjoint DEF IInv, HeaderInv, HeaderMatchesData, WriteHolders
  <2> QED  BY <2>3, <2>4, <2>5 DEF HeaderInv
<1> QED  BY <1>4, <1>6, <1>7, <1>8, <1>9 DEF IInv

\* The writer has the slot, and the others that have one have another.
LEMMA OneHolder ==
  ASSUME IInv, NEW p \in Writers, pc[p] \in Holding
  PROVE  /\ slot[p] \in Slots /\ len[p] \in Lengths /\ p \in WriteHolders(slot[p])
         /\ \A q \in Writers \ {p} : pc[q] \in Holding => slot[q] # slot[p]
  BY KindsAreDisjoint
     DEF IInv, TypeOK, LocationInv, ExclusionInv, Holding, WriteHolders

\* What a step keeps by which the writer that has a slot changes that slot only.
LEMMA OtherHeaders ==
  ASSUME IInv, NEW p \in Writers, pc[p] \in Holding, UNCHANGED <<slot, len>>,
         \A s \in Slots \ {slot[p]} :
           data'[s] = data[s] /\ length'[s] = length[s] /\ count'[s] = count[s],
         \A t \in Threads \ {p} : pc'[t] = pc[t],
         Written(p)', pc'[p] \in Holding
  PROVE  HeaderInv'
<1>1. \A q \in Writers \ {p} : Written(q)'
  <2> SUFFICES ASSUME NEW q \in Writers \ {p} PROVE Written(q)'
    OBVIOUS
  <2>1. CASE pc[q] \in Holding
    <3>1. slot[q] \in Slots \ {slot[p]} /\ pc'[q] = pc[q]
      BY <2>1, OneHolder, KindsAreDisjoint
    <3> QED  BY <3>1 DEF IInv, HeaderInv, Written, Agrees
  <2>2. CASE pc[q] \notin Holding
    BY <2>2, KindsAreDisjoint DEF Written, Holding
  <2> QED  BY <2>1, <2>2
<1>2. HeaderMatchesData'
  <2> SUFFICES ASSUME NEW s \in Slots, WriteHolders(s)' = {}
               PROVE  data'[s].whole /\ length'[s] = data'[s].len /\ count'[s] = data'[s].ver
    BY DEF HeaderMatchesData
  <2>1. s # slot[p]
    BY DEF WriteHolders, Holding
  <2>2. WriteHolders(s) = {}
    BY <2>1, KindsAreDisjoint DEF WriteHolders
  <2> QED  BY <2>1, <2>2 DEF IInv, HeaderInv, HeaderMatchesData
<1> QED  BY <1>1, <1>2 DEF HeaderInv

LEMMA FinishCopyStep ==
  ASSUME IInv, NEW p \in Writers, FinishCopy(p)
  PROVE  IInv'
<1>1. /\ pc[p] = "copying" /\ pc'[p] = "length" /\ slot[p] \in Slots /\ len[p] \in Lengths
      /\ UNCHANGED <<length, count, domCount, waiter, dead, calls, slot, len>>
      /\ \A t \in Threads \ {p} : pc'[t] = pc[t] /\ slot'[t] = slot[t] /\ len'[t] = len[t]
  BY KindsAreDisjoint DEF IInv, TypeOK, LocationInv, FinishCopy, Goto
<1>2. /\ data'[slot[p]].ver = data[slot[p]].ver /\ data'[slot[p]].len = data[slot[p]].len
      /\ data'[slot[p]].whole
      /\ \A s \in Slots \ {slot[p]} : data'[s] = data[s]
  BY <1>1 DEF IInv, TypeOK, FinishCopy
<1>3. TypeOK'
  <2> DEFINE Data == [ver : 0 .. MaxWrites, len : Lengths \cup {0}, whole : BOOLEAN]
  <2>1. data' \in [Slots -> Data]
    <3>1. data \in [Slots -> Data]
      BY DEF IInv, TypeOK
    <3>2. [data[slot[p]] EXCEPT !.whole = TRUE] \in Data
      BY <1>1, <3>1
    <3>3. data' = [data EXCEPT ![slot[p]] = [data[slot[p]] EXCEPT !.whole = TRUE]]
      BY DEF FinishCopy
    <3> QED  BY <3>1, <3>3
  <2> QED  BY <2>1
              DEF IInv, TypeOK, FinishCopy, Goto, waiter, WriterLocations, WLocking
<1>4. LocationInv' /\ LastInv' /\ SleeperIsOwedAWake'
  BY <1>1, VerFacts, WriterMoves DEF WriterLocations, WLocking
<1>5. ExclusionInv'
  BY <1>1, SameHolders DEF Holding
<1>6. Written(p)'
  BY <1>1, <1>2 DEF IInv, HeaderInv, Written
<1>7. HeaderInv'
  BY <1>1, <1>2, <1>6, OtherHeaders DEF Holding
<1>8. CallsInv'
  BY <1>1, <1>2, KindsAreDisjoint, SameCalls DEF Unpublished, Unannounced, WLocking, Holding
<1> QED  BY <1>3, <1>4, <1>5, <1>7, <1>8 DEF IInv

LEMMA SetLengthStep ==
  ASSUME IInv, NEW p \in Writers, SetLength(p)
  PROVE  IInv'
<1>1. /\ pc[p] = "length" /\ pc'[p] = "seq" /\ slot[p] \in Slots /\ len[p] \in Lengths
      /\ UNCHANGED <<data, count, domCount, waiter, dead, calls, slot, len>>
      /\ \A t \in Threads \ {p} : pc'[t] = pc[t] /\ slot'[t] = slot[t] /\ len'[t] = len[t]
  BY KindsAreDisjoint DEF IInv, TypeOK, LocationInv, SetLength, Goto
<1>2. length'[slot[p]] = len[p] /\ \A s \in Slots \ {slot[p]} : length'[s] = length[s]
  BY <1>1 DEF IInv, TypeOK, SetLength, NewLength
<1>3. TypeOK'
  BY KindsAreDisjoint DEF IInv, TypeOK, SetLength, NewLength, Goto, waiter,
                                WriterLocations, WLocking
<1>4. LocationInv' /\ LastInv' /\ SleeperIsOwedAWake'
  BY <1>1, VerFacts, WriterMoves DEF WriterLocations, WLocking
<1>5. ExclusionInv'
  BY <1>1, SameHolders DEF Holding
<1>6. Written(p)'
  BY <1>1, <1>2 DEF IInv, HeaderInv, Written
<1>7. HeaderInv'
  BY <1>1, <1>2, <1>6, OtherHeaders DEF Holding
<1>8. CallsInv'
  BY <1>1, KindsAreDisjoint, SameCalls DEF Unpublished, Unannounced, WLocking, Holding
<1> QED  BY <1>3, <1>4, <1>5, <1>7, <1>8 DEF IInv

LEMMA IncrementSlotSeqStep ==
  ASSUME IInv, NEW p \in Writers, IncrementSlotSeq(p)
  PROVE  IInv'
<1>1. /\ pc[p] = "seq" /\ pc'[p] = "wunlock" /\ slot[p] \in Slots /\ len[p] \in Lengths
      /\ UNCHANGED <<data, length, domCount, waiter, dead, calls, slot, len>>
      /\ \A t \in Threads \ {p} : pc'[t] = pc[t] /\ slot'[t] = slot[t] /\ len'[t] = len[t]
  BY KindsAreDisjoint DEF IInv, TypeOK, LocationInv, IncrementSlotSeq, Goto
<1>2. count'[slot[p]] = count[slot[p]] + 1 /\ \A s \in Slots \ {slot[p]} : count'[s] = count[s]
  BY <1>1 DEF IInv, TypeOK, IncrementSlotSeq
<1>3. data[slot[p]].ver = count[slot[p]] + 1
  BY <1>1 DEF IInv, HeaderInv, Written
<1>4. TypeOK'
  <2>1. count[slot[p]] + 1 \in 0 .. MaxWrites
    BY <1>1, <1>3 DEF IInv, TypeOK
  <2> QED  BY <2>1
              DEF IInv, TypeOK, IncrementSlotSeq, Goto, waiter, WriterLocations, WLocking
<1>5. LocationInv' /\ LastInv' /\ SleeperIsOwedAWake'
  <2>1. \A s \in Slots : count[s] <= count'[s] /\ count'[s] \in Nat
    BY <1>2, VerFacts
  <2> QED  BY <1>1, <2>1, WriterMoves DEF WriterLocations, WLocking
<1>6. ExclusionInv'
  BY <1>1, SameHolders DEF Holding
<1>7. Written(p)'
  BY <1>1, <1>2 DEF IInv, HeaderInv, Written, Agrees
<1>8. HeaderInv'
  BY <1>1, <1>2, <1>7, OtherHeaders DEF Holding
<1>9. CallsInv'
  BY <1>1, KindsAreDisjoint, SameCalls DEF Unpublished, Unannounced, WLocking, Holding
<1> QED  BY <1>4, <1>5, <1>6, <1>8, <1>9 DEF IInv

LEMMA WUnlockStep ==
  ASSUME IInv, NEW p \in Writers, WUnlock(p)
  PROVE  IInv'
<1>1. /\ pc[p] = "wunlock" /\ pc'[p] = "dominc" /\ slot[p] \in Slots /\ len[p] \in Lengths
      /\ UNCHANGED <<data, length, count, domCount, waiter, dead, calls, slot, len>>
      /\ \A t \in Threads \ {p} : pc'[t] = pc[t] /\ slot'[t] = slot[t] /\ len'[t] = len[t]
  BY KindsAreDisjoint DEF IInv, TypeOK, LocationInv, WUnlock, Goto, shared
<1>2. TypeOK'
  BY <1>1 DEF IInv, TypeOK, WUnlock, Goto, waiter, WriterLocations, WLocking
<1>3. LocationInv' /\ LastInv' /\ SleeperIsOwedAWake'
  BY <1>1, VerFacts, WriterMoves DEF WriterLocations, WLocking
<1>4. ExclusionInv'
  BY <1>1, SameHolders DEF Holding
<1>5. HeaderInv'
  BY <1>1, KindsAreDisjoint, SameHeader DEF IInv, HeaderInv, Written
<1>6. CallsInv'
  BY <1>1, KindsAreDisjoint, SameCalls DEF Unpublished, Unannounced, WLocking, Holding
<1> QED  BY <1>2, <1>3, <1>4, <1>5, <1>6 DEF IInv

LEMMA IncrementDomainSeqStep ==
  ASSUME IInv, NEW p \in Writers, IncrementDomainSeq(p)
  PROVE  IInv'
<1>1. /\ pc[p] = "dominc" /\ pc'[p] = "wake" /\ slot[p] \in Slots /\ len[p] \in Lengths
      /\ domCount' = domCount + 1
      /\ UNCHANGED <<data, length, count, waiter, dead, calls, slot, len>>
      /\ \A t \in Threads \ {p} : pc'[t] = pc[t] /\ slot'[t] = slot[t] /\ len'[t] = len[t]
  BY KindsAreDisjoint DEF IInv, TypeOK, LocationInv, IncrementDomainSeq, Increment, Goto
<1>2. /\ p \in Unannounced /\ Unannounced' = Unannounced \ {p}
      /\ \A s \in Slots : Unpublished(s)' = Unpublished(s)
  BY <1>1, KindsAreDisjoint DEF Unannounced, Unpublished, WLocking, Holding
<1>3. /\ IsFiniteSet(Unannounced') /\ Cardinality(Unannounced') = Cardinality(Unannounced) - 1
      /\ Cardinality(Unannounced) # 0
  BY <1>2, FS_RemoveElement, FS_EmptySet DEF IInv, CallsInv
<1>4. CallsInv'
  <2>1. domCount' + Cardinality(Unannounced') <= calls'
    BY <1>1, <1>3, VerFacts DEF IInv, CallsInv
  <2> QED  BY <1>1, <1>2, <1>3, <2>1 DEF IInv, CallsInv
<1>5. TypeOK'
  <2>1. domCount + 1 \in 0 .. MaxWrites
    BY <1>1, <1>3, VerFacts, CountersAssumption DEF IInv, CallsInv
  <2> QED  BY <1>1, <2>1
              DEF IInv, TypeOK, IncrementDomainSeq, Goto, waiter, WriterLocations, WLocking
<1>6. LocationInv' /\ LastInv' /\ SleeperIsOwedAWake'
  BY <1>1, VerFacts, WriterMoves DEF WriterLocations, WLocking
<1>7. ExclusionInv'
  BY <1>1, SameHolders DEF Holding
<1>8. HeaderInv'
  BY <1>1, KindsAreDisjoint, SameHeader DEF Written, Holding
<1> QED  BY <1>4, <1>5, <1>6, <1>7, <1>8 DEF IInv

\* wakeBitset wakes every sleeper: it asks for no fewer than there may be, and every one of
\* them waits with the slot's bit.
LEMMA WokenFacts ==
  ASSUME IInv, NEW s \in Slots, NEW W \in Woken(s)
  PROVE  W = Sleepers
<1>1. Matching(s) = Sleepers
  BY MaskFacts DEF IInv, LocationInv, Matching, Sleepers
<1>2. Sleepers \subseteq Waiters
  BY DEF Sleepers
<1>3. IsFiniteSet(Sleepers) /\ Cardinality(Sleepers) <= MaxWake /\ Cardinality(Sleepers) \in Nat
  BY <1>2, MaxWakeAssumption, FS_Subset, FS_CardinalityType
<1>4. W \in SUBSET Sleepers /\ Cardinality(W) = Cardinality(Sleepers)
  BY <1>1, <1>3 DEF Woken, Wakeable
<1> QED  BY <1>3, <1>4, FS_Subset

\* A writer that ends its call wakes every sleeper; they go on to scan.
LEMMA WakeStep ==
  ASSUME IInv, NEW p \in Writers, Wake(p)
  PROVE  IInv'
<1>1. /\ pc[p] = "wake" /\ pc'[p] = "idle" /\ slot[p] \in Slots
      /\ UNCHANGED <<data, length, count, domCount, sub, last, calls, dead>>
      /\ \A t \in Threads \ {p} :
           /\ pc'[t] = IF t \in Sleepers THEN "scan" ELSE pc[t]
           /\ slot'[t] = slot[t] /\ len'[t] = len[t]
  <2>1. PICK W \in Woken(slot[p]) :
          pc' = [t \in Threads |-> IF t = p THEN "idle" ELSE IF t \in W THEN "scan" ELSE pc[t]]
    BY DEF Wake
  <2>2. slot[p] \in Slots
    BY KindsAreDisjoint DEF IInv, TypeOK
  <2>3. W = Sleepers
    BY <2>2, WokenFacts
  <2> QED  BY <2>1, <2>2, <2>3, KindsAreDisjoint DEF IInv, Wake, Forget, shared
<1>2. \A q \in Writers \ {p} : pc'[q] = pc[q]
  BY <1>1, KindsAreDisjoint DEF Sleepers
<1>3. TypeOK'
  BY KindsAreDisjoint, NoSlotIsSlot, CountersAssumption
     DEF IInv, TypeOK, Wake, Forget, StartScan, shared, WaiterLocations, RLocking
<1>4. LocationInv'
  BY <1>1, <1>2, KindsAreDisjoint
     DEF IInv, LocationInv, WriterLocations, WLocking, WaiterLocations, RLocking
<1>5. LastInv'
  BY <1>1 DEF IInv, LastInv
<1>6. SleeperIsOwedAWake'
  BY <1>1, KindsAreDisjoint DEF SleeperIsOwedAWake, Sleepers
<1>7. ExclusionInv'
  BY <1>1, SameHolders DEF Holding
<1>8. HeaderInv'
  BY <1>1, <1>2, KindsAreDisjoint, SameHeader DEF Written, Holding
<1>9. CallsInv'
  BY <1>1, KindsAreDisjoint, SameCalls DEF Unpublished, Unannounced, WLocking, Holding
<1> QED  BY <1>3, <1>4, <1>5, <1>6, <1>7, <1>8, <1>9 DEF IInv

LEMMA WLockSleepsStep ==
  ASSUME IInv, NEW p \in Writers, WLockSleeps(p)
  PROVE  IInv'
<1>1. /\ pc[p] = "wlock" /\ pc'[p] = "wsleep" /\ slot[p] \in Slots /\ len[p] \in Lengths
      /\ UNCHANGED <<data, length, count, domCount, waiter, dead, calls, slot, len>>
      /\ \A t \in Threads \ {p} : pc'[t] = pc[t] /\ slot'[t] = slot[t] /\ len'[t] = len[t]
  BY KindsAreDisjoint DEF IInv, TypeOK, LocationInv, WLockSleeps, Goto, shared
<1>2. TypeOK'
  BY <1>1 DEF IInv, TypeOK, WLockSleeps, Goto, waiter, WriterLocations, WLocking
<1>3. LocationInv' /\ LastInv' /\ SleeperIsOwedAWake'
  BY <1>1, VerFacts, WriterMoves DEF WriterLocations, WLocking
<1>4. ExclusionInv'
  BY <1>1, SameHolders DEF Holding
<1>5. HeaderInv'
  BY <1>1, KindsAreDisjoint, SameHeader DEF Written, Holding
<1>6. CallsInv'
  BY <1>1, KindsAreDisjoint, SameCalls DEF Unpublished, Unannounced, WLocking
<1> QED  BY <1>2, <1>3, <1>4, <1>5, <1>6 DEF IInv

LEMMA WriteThrowsStep ==
  ASSUME IInv, NEW p \in Writers, WriteThrows(p)
  PROVE  IInv'
<1>1. /\ pc[p] = "wsleep" /\ pc'[p] = "idle" /\ slot'[p] \in Slots
      /\ UNCHANGED <<data, length, count, domCount, waiter, dead, calls>>
      /\ \A t \in Threads \ {p} : pc'[t] = pc[t] /\ slot'[t] = slot[t] /\ len'[t] = len[t]
  BY KindsAreDisjoint, NoSlotIsSlot DEF IInv, TypeOK, WriteThrows, Goto, Forget, shared
<1>2. TypeOK'
  BY <1>1
     DEF IInv, TypeOK, WriteThrows, Goto, Forget, waiter, WriterLocations, WLocking
<1>3. LocationInv' /\ LastInv' /\ SleeperIsOwedAWake'
  BY <1>1, VerFacts, WriterMoves DEF WriterLocations, WLocking
<1>4. ExclusionInv'
  BY <1>1, SameHolders DEF Holding
<1>5. HeaderInv'
  BY <1>1, KindsAreDisjoint, SameHeader DEF Written, Holding
<1>6. CallsInv'
  BY <1>1, KindsAreDisjoint, SameCalls DEF Unpublished, Unannounced, WLocking
<1> QED  BY <1>2, <1>3, <1>4, <1>5, <1>6 DEF IInv

-------------------------------------------------------------------------------
\* The waiters' steps.

\* What the steps have in common by which a waiter goes on to scan what it subscribed to.
LEMMA ScanBegins ==
  ASSUME IInv, NEW w \in Waiters, pc[w] \in WaiterLocations, sub[w] # {},
         StartScan({w}), Goto(w, "scan"),
         UNCHANGED <<shared, sub, wakeWith, last, calls, slot, len, dead>>
  PROVE  IInv'
<1>1. TypeOK'
  BY KindsAreDisjoint, CountersAssumption DEF IInv, TypeOK, StartScan, Goto, shared,
                                              WaiterLocations, RLocking
<1>2. pc'[w] = "scan" /\ \A t \in Threads \ {w} : pc'[t] = pc[t]
  BY KindsAreDisjoint DEF IInv, TypeOK, Goto
<1>3. \A v \in Waiters \ {w} : prv'[v] = prv[v]
  BY DEF StartScan
<1>4. \A s \in Slots : last'[w][s] <= count[s]
  BY DEF IInv, LastInv
<1> QED  BY <1>1, <1>2, <1>3, <1>4, KindsAreDisjoint, WaiterMoves
            DEF IInv, WaiterLocations, RLocking

\* What a change of the waiter's subscriptions keeps.
LEMMA SubscriptionStep ==
  ASSUME IInv, NEW w \in Waiters, NEW s \in Slots,
         Unsubscribe(w, s) \/ \E wake \in WakeFlags : Subscribe(w, s, wake)
  PROVE  IInv'
<1>1. Seq(s) \in 0 .. SeqMod - 1 /\ Seq(s) <= count[s] /\ 0 \in 0 .. SeqMod - 1 /\ 0 <= count[s]
  BY VerFacts, CountersAssumption DEF Seq
<1>2. TypeOK'
  <2>1. last' \in [Waiters -> [Slots -> 0 .. SeqMod - 1]]
    <3>1. last \in [Waiters -> [Slots -> 0 .. SeqMod - 1]]
      BY DEF IInv, TypeOK
    <3>2. last' = [last EXCEPT ![w][s] = Seq(s)] \/ last' = [last EXCEPT ![w][s] = 0]
      BY DEF Subscribe, Unsubscribe
    <3>3. [last EXCEPT ![w][s] = Seq(s)] \in [Waiters -> [Slots -> 0 .. SeqMod - 1]]
      BY <1>1, <3>1, LastFacts, Zenon
    <3>4. [last EXCEPT ![w][s] = 0] \in [Waiters -> [Slots -> 0 .. SeqMod - 1]]
      BY <1>1, <3>1, LastFacts, Zenon
    <3> QED  BY <3>2, <3>3, <3>4
  <2>2. sub' \in [Waiters -> SUBSET Slots]
    <3>1. CASE Unsubscribe(w, s)
      BY <3>1 DEF IInv, TypeOK, Unsubscribe
    <3>2. ASSUME NEW wake \in WakeFlags, Subscribe(w, s, wake)
          PROVE  sub' \in [Waiters -> SUBSET Slots]
      BY <3>2 DEF IInv, TypeOK, Subscribe
    <3> QED  BY <3>1, <3>2
  <2>3. wakeWith' \in [Waiters -> SUBSET Slots]
    <3>1. CASE Unsubscribe(w, s)
      BY <3>1 DEF IInv, TypeOK, Unsubscribe
    <3>2. ASSUME NEW wake \in WakeFlags, Subscribe(w, s, wake)
          PROVE  wakeWith' \in [Waiters -> SUBSET Slots]
      BY <3>2 DEF IInv, TypeOK, Subscribe
    <3> QED  BY <3>1, <3>2
  <2> QED  BY <2>1, <2>3 DEF IInv, TypeOK, Subscribe, Unsubscribe, shared
<1>3. /\ pc[w] = "idle" /\ UNCHANGED <<shared, calls, dead, pc, slot, len, prv>>
      /\ \A v \in Waiters \ {w} : sub'[v] = sub[v] /\ last'[v] = last[v]
  BY DEF IInv, TypeOK, Subscribe, Unsubscribe
<1>4. \A u \in Slots : last'[w][u] = last[w][u] \/ (u = s /\ last'[w][u] \in {Seq(s), 0})
  BY DEF IInv, TypeOK, Subscribe, Unsubscribe
<1>5. \A u \in Slots : last'[w][u] <= count[u]
  BY <1>1, <1>4 DEF IInv, LastInv
<1> QED  BY <1>2, <1>3, <1>5, WaiterMoves DEF IInv, WaiterLocations, RLocking

LEMMA WaitExclusiveStep ==
  ASSUME IInv, NEW w \in Waiters, WaitExclusive(w)
  PROVE  IInv'
<1>1. DomSeq \in 0 .. SeqMod - 1
  BY VerFacts, LoadFacts, InputsAssumption DEF DomSeq
<1>2. TypeOK'
  BY <1>1 DEF IInv, TypeOK, WaitExclusive, Goto, shared, WaiterLocations, RLocking
<1>3. /\ sub[w] # {} /\ pc'[w] = "compare"
      /\ UNCHANGED <<shared, calls, dead, slot, len, sub, last>>
      /\ \A t \in Threads \ {w} : pc'[t] = pc[t]
      /\ \A v \in Waiters \ {w} : prv'[v] = prv[v]
  BY KindsAreDisjoint DEF IInv, TypeOK, WaitExclusive, Goto
<1>4. \A s \in Slots : last'[w][s] <= count[s]
  BY <1>3 DEF IInv, LastInv
<1> QED  BY <1>2, <1>3, <1>4, KindsAreDisjoint, WaiterMoves DEF IInv, WaiterLocations, RLocking

\* The comparisons of waitForChange and of the kernel.
LEMMA CompareStep ==
  ASSUME IInv, NEW w \in Waiters, Compare(w) \/ FutexWait(w) \/ InterruptWait(w)
  PROVE  IInv'
<1>1. sub[w] # {} /\ pc[w] \in WaiterLocations
      /\ UNCHANGED <<shared, sub, wakeWith, last, calls, slot, len, dead>>
  BY DEF IInv, LocationInv, Compare, FutexWait, InterruptWait
<1>2. CASE Goto(w, "scan") /\ StartScan({w})
  BY <1>1, <1>2, ScanBegins
<1>3. ASSUME NEW l \in {"wait", "asleep"}, Goto(w, l), UNCHANGED <<todo, prv>>,
             l = "asleep" => DomSeq = prv[w]
      PROVE  IInv'
  <2>1. TypeOK'
    BY <1>1, <1>3 DEF IInv, TypeOK, Goto, shared, WaiterLocations, RLocking
  <2>2. pc'[w] = l /\ \A t \in Threads \ {w} : pc'[t] = pc[t]
    BY <1>3, KindsAreDisjoint DEF IInv, TypeOK, Goto
  <2>3. \A s \in Slots : last'[w][s] <= count[s]
    BY <1>1 DEF IInv, LastInv
  <2> QED  BY <1>1, <1>3, <2>1, <2>2, <2>3, KindsAreDisjoint, WaiterMoves
              DEF IInv, WaiterLocations, RLocking, DomSeq
<1>4. \/ Goto(w, "scan") /\ StartScan({w})
      \/ Goto(w, "wait") /\ UNCHANGED <<todo, prv>>
      \/ Goto(w, "asleep") /\ UNCHANGED <<todo, prv>> /\ DomSeq = prv[w]
  BY DEF Compare, FutexWait, InterruptWait, Again
<1> QED  BY <1>2, <1>3, <1>4

LEMMA ForEachNewSlotStep ==
  ASSUME IInv, NEW w \in Waiters, ForEachNewSlot(w)
  PROVE  IInv'
  BY ScanBegins DEF ForEachNewSlot, WaiterLocations, RLocking

LEMMA CheckAndUpdateStep ==
  ASSUME IInv, NEW w \in Waiters, NEW s \in Slots, CheckAndUpdate(w, s)
  PROVE  IInv'
<1>1. Seq(s) \in 0 .. SeqMod - 1 /\ Seq(s) <= count[s]
  BY VerFacts, LoadFacts DEF Seq
<1>2. /\ todo' = [todo EXCEPT ![w] = @ \ {s}]
      /\ last' = last \/ last' = [last EXCEPT ![w][s] = Seq(s)]
      /\ slot' = slot \/ slot' = [slot EXCEPT ![w] = s]
      /\ Goto(w, "read") \/ Goto(w, "scan") \/ Goto(w, "idle")
      /\ UNCHANGED <<shared, sub, wakeWith, prv, calls, len, dead>>
  BY DEF CheckAndUpdate, AfterSlot
<1>3. TypeOK'
  <2>1. last' \in [Waiters -> [Slots -> 0 .. SeqMod - 1]]
    <3>1. last \in [Waiters -> [Slots -> 0 .. SeqMod - 1]]
      BY DEF IInv, TypeOK
    <3>2. [last EXCEPT ![w][s] = Seq(s)] \in [Waiters -> [Slots -> 0 .. SeqMod - 1]]
      BY <1>1, <3>1, LastFacts, Zenon
    <3> QED  BY <1>2, <3>1, <3>2
  <2>2. /\ pc' \in [Threads -> WriterLocations \cup WaiterLocations]
        /\ slot' \in [Threads -> Slots]
    <3>1. /\ pc \in [Threads -> WriterLocations \cup WaiterLocations]
          /\ slot \in [Threads -> Slots] /\ w \in Threads
      BY KindsAreDisjoint DEF IInv, TypeOK
    <3> QED  BY <1>2, <3>1 DEF Goto, WaiterLocations, RLocking
  <2>3. todo' \in [Waiters -> SUBSET Slots]
    BY <1>2 DEF IInv, TypeOK
  <2> QED  BY <1>2, <2>1, <2>2 DEF IInv, TypeOK, shared
<1>4. pc'[w] \in {"read", "scan", "idle"} /\ \A t \in Threads \ {w} : pc'[t] = pc[t]
  BY <1>2, KindsAreDisjoint DEF IInv, TypeOK, Goto
<1>5. \A t \in Threads \ {w} : slot'[t] = slot[t]
  BY <1>2 DEF IInv, TypeOK
<1>6. /\ \A v \in Waiters \ {w} : last'[v] = last[v]
      /\ \A u \in Slots : last'[w][u] = last[w][u] \/ (u = s /\ last'[w][u] = Seq(s))
  BY <1>2 DEF IInv, TypeOK
<1>7. \A u \in Slots : last'[w][u] <= count[u]
  BY <1>1, <1>6 DEF IInv, LastInv
<1> QED  BY <1>2, <1>3, <1>4, <1>5, <1>6, <1>7, KindsAreDisjoint, WaiterMoves
            DEF IInv, WaiterLocations, RLocking

\* Slot::read, and the signal that interrupts it.
LEMMA ReadStep ==
  ASSUME IInv, NEW w \in Waiters,
         \/ \E s \in Slots : Read(w, s)
         \/ LoadLength(w) \/ RLock(w) \/ RLockSleeps(w) \/ Release(w) \/ ReadThrows(w)
  PROVE  IInv'
<1>1. /\ pc \in [Threads -> WriterLocations \cup WaiterLocations]
      /\ slot \in [Threads -> Slots] /\ len \in [Threads -> Lengths \cup {0}]
      /\ length \in [Slots -> Lengths \cup {0}] /\ todo \in [Waiters -> SUBSET Slots]
      /\ w \in Threads
  BY KindsAreDisjoint DEF IInv, TypeOK
<1>2. pc'[w] \in {"read", "rlock", "rsleep", "view", "scan", "idle"}
      /\ \A t \in Threads \ {w} : pc'[t] = pc[t] /\ slot'[t] = slot[t] /\ len'[t] = len[t]
  BY <1>1
     DEF Read, LoadLength, RLock, RLockSleeps, Release, ReadThrows, Goto, Forget, AfterSlot
<1>3. UNCHANGED <<shared, calls, dead, sub, wakeWith, last, prv>>
  BY DEF Read, LoadLength, RLock, RLockSleeps, Release, ReadThrows, waiter
<1>4. TypeOK'
  <2>1. pc' \in [Threads -> WriterLocations \cup WaiterLocations]
    BY <1>1
       DEF Read, LoadLength, RLock, RLockSleeps, Release, ReadThrows, Goto, AfterSlot,
           WaiterLocations, RLocking
  <2>2. slot' \in [Threads -> Slots]
    BY <1>1, NoSlotIsSlot
       DEF Read, LoadLength, RLock, RLockSleeps, Release, ReadThrows, Forget
  <2>3. todo' \in [Waiters -> SUBSET Slots]
    BY <1>1 DEF Read, LoadLength, RLock, RLockSleeps, Release, ReadThrows, waiter
  <2>4. len' \in [Threads -> Lengths \cup {0}]
    BY <1>1
       DEF Read, LoadLength, RLock, RLockSleeps, Release, ReadThrows, Forget
  <2> QED  BY <1>3, <2>1, <2>2, <2>3, <2>4 DEF IInv, TypeOK, shared
<1>5. ASSUME pc'[w] = "view", NEW p \in Writers, slot[p] = slot'[w]
      PROVE  pc[p] \notin Holding
  <2>1. RLock(w)
    BY <1>5, KindsAreDisjoint
       DEF IInv, TypeOK, Read, LoadLength, RLockSleeps, Release, ReadThrows, Goto, AfterSlot
  <2>2. WriteHolders(slot[w]) = {} /\ slot'[w] = slot[w]
    BY <2>1 DEF RLock, RLockSleeps, SlotLock!AcquireRead
  <2> QED  BY <1>5, <2>2 DEF WriteHolders, Holding
<1>6. \A s \in Slots : last'[w][s] <= count[s]
  BY <1>3 DEF IInv, LastInv
<1> QED  BY <1>2, <1>3, <1>4, <1>5, <1>6, KindsAreDisjoint, WaiterMoves
            DEF IInv, WaiterLocations, RLocking

\* A thread that dies leaves everything where it is.
LEMMA CrashStep ==
  ASSUME IInv, NEW t \in Threads, Crash(t)
  PROVE  IInv'
<1>1. TypeOK' /\ LocationInv'
  BY DEF IInv, TypeOK, LocationInv, Crash, shared, waiter
<1>2. CallsInv'
  BY SameCalls DEF Crash, shared, Unpublished, Unannounced, WLocking
<1>3. ExclusionInv' /\ LastInv'
  BY DEF IInv, ExclusionInv, LastInv, Crash, shared, waiter
<1>4. HeaderInv'
  BY DEF IInv, HeaderInv, HeaderMatchesData, WriteHolders, Written, Agrees, Crash, shared
<1>5. SleeperIsOwedAWake'
  BY DEF IInv, SleeperIsOwedAWake, Sleepers, Mask, Crash, shared, waiter
<1> QED  BY <1>1, <1>2, <1>3, <1>4, <1>5 DEF IInv

-------------------------------------------------------------------------------
LEMMA InitInv == Init => IInv
<1> SUFFICES ASSUME Init PROVE IInv
  OBVIOUS
<1>1. TypeOK
  BY NoSlotIsSlot, CountersAssumption
     DEF Init, TypeOK, WriterLocations, WLocking
<1>2. \A t \in Threads : pc[t] = "idle"
  BY DEF Init
<1>3. LocationInv
  BY <1>2, KindsAreDisjoint
     DEF LocationInv, WriterLocations, WLocking, WaiterLocations, RLocking
<1>4. CallsInv
  <2>1. Unannounced = {} /\ \A s \in Slots : Unpublished(s) = {}
    BY <1>2, KindsAreDisjoint DEF Unannounced, Unpublished, WLocking, Holding
  <2>2. domCount = 0 /\ calls = 0 /\ \A s \in Slots : data[s].ver = 0
    BY DEF Init
  <2> QED  BY <2>1, <2>2, FS_EmptySet DEF CallsInv
<1>5. ExclusionInv
  BY <1>2, KindsAreDisjoint DEF ExclusionInv, Holding
<1>6. HeaderInv
  BY KindsAreDisjoint DEF Init, HeaderInv, HeaderMatchesData, Written
<1>7. LastInv
  BY DEF Init, LastInv
<1>8. SleeperIsOwedAWake
  BY <1>2, KindsAreDisjoint DEF SleeperIsOwedAWake, Sleepers
<1> QED  BY <1>1, <1>3, <1>4, <1>5, <1>6, <1>7, <1>8 DEF IInv

LEMMA NextInv == IInv /\ [Next]_vars => IInv'
<1> SUFFICES ASSUME IInv, [Next]_vars PROVE IInv'
  OBVIOUS
<1>1. CASE UNCHANGED vars
  <2>1. TypeOK' /\ LocationInv' /\ ExclusionInv' /\ LastInv'
    BY <1>1 DEF IInv, TypeOK, LocationInv, ExclusionInv, LastInv, vars, shared, waiter
  <2>2. CallsInv'
    BY <1>1, SameCalls DEF vars, shared, Unpublished, Unannounced, WLocking
  <2>3. HeaderInv'
    BY <1>1 DEF IInv, HeaderInv, HeaderMatchesData, WriteHolders, Written, Agrees, vars,
                shared
  <2>4. SleeperIsOwedAWake'
    BY <1>1 DEF IInv, SleeperIsOwedAWake, Sleepers, Mask, vars, shared, waiter
  <2> QED  BY <2>1, <2>2, <2>3, <2>4 DEF IInv
<1>2. ASSUME NEW p \in Writers, NEW s \in Slots, NEW l \in Lengths, Write(p, s, l)
      PROVE  IInv'
  BY <1>2, WriteStep
<1>3. ASSUME NEW p \in Writers, WriterStep(p) \/ WLockSleeps(p) \/ WriteThrows(p)
      PROVE  IInv'
  BY <1>3, WLockStep, StartCopyStep, FinishCopyStep, SetLengthStep, IncrementSlotSeqStep,
     WUnlockStep, IncrementDomainSeqStep, WakeStep, WLockSleepsStep, WriteThrowsStep DEF WriterStep
<1>4. ASSUME NEW w \in Waiters,
             \/ WaiterCall(w) \/ WaiterStep(w)
             \/ InterruptWait(w) \/ RLockSleeps(w) \/ ReadThrows(w)
      PROVE  IInv'
  BY <1>4, SubscriptionStep, WaitExclusiveStep, CompareStep, ForEachNewSlotStep,
     CheckAndUpdateStep, ReadStep DEF WaiterCall, WaiterStep
<1>5. ASSUME NEW t \in Threads, Crash(t)
      PROVE  IInv'
  BY <1>5, CrashStep
<1> QED  BY <1>1, <1>2, <1>3, <1>4, <1>5 DEF Next

\* Each part of IInv holds of the header, the locks, the counters and the sleepers of every
\* slot and thread.
THEOREM Invariance == Spec => []IInv
<1> QED  BY InitInv, NextInv, PTL DEF Spec

\* The variables have their types: no counter of messages or of announcements passes the
\* number of calls of Slot::write.
THEOREM TypeCorrect == Spec => []TypeOK
<1>1. IInv => TypeOK
  BY DEF IInv
<1> QED  BY <1>1, Invariance, PTL

\* Whoever crashes in Slot::write, the header and the bytes of a slot that no writer holds
\* are those of one whole message.
THEOREM HeadersAgree == Spec => []HeaderMatchesData
<1>1. IInv => HeaderMatchesData
  BY DEF IInv, HeaderInv
<1> QED  BY <1>1, Invariance, PTL

\* forEachNewSlot's callback is shown a whole message, at least as new as the counter that
\* checkAndUpdate loaded without the lock.
THEOREM ViewsAreFresh == Spec => []ViewIsFresh
<1>1. IInv => ViewIsFresh
  <2> SUFFICES ASSUME IInv, NEW w \in Waiters, pc[w] = "view"
               PROVE  data[slot[w]].whole /\ data[slot[w]].ver >= last[w][slot[w]]
    BY DEF ViewIsFresh
  <2>1. slot[w] \in Slots
    BY KindsAreDisjoint DEF IInv, TypeOK
  <2>2. WriteHolders(slot[w]) = {}
    BY DEF IInv, ExclusionInv, WriteHolders, Holding
  <2>3. data[slot[w]].whole /\ count[slot[w]] = data[slot[w]].ver
    BY <2>1, <2>2 DEF IInv, HeaderInv, HeaderMatchesData
  <2>4. last[w][slot[w]] <= count[slot[w]] /\ last[w][slot[w]] \in Nat
    BY <2>1 DEF IInv, TypeOK, LastInv
  <2> QED  BY <2>3, <2>4
<1> QED  BY <1>1, Invariance, PTL

\* No wakeup of the domain's futex is lost between waitExclusive's load and its sleep.
THEOREM WakesAreOwed == Spec => []SleeperIsOwedAWake
<1>1. IInv => SleeperIsOwedAWake
  BY DEF IInv
<1> QED  BY <1>1, Invariance, PTL

-------------------------------------------------------------------------------
\* The refinement: copying the first byte publishes a message.

Viewing == {w \in Waiters : pc[w] = "view"}

Message(s) == [ver |-> data[s].ver, len |-> data[s].len]
Messages == [s \in Slots |-> Message(s)]

Views == {[who |-> w, slot |-> slot[w], msg |-> Message(slot[w])] : w \in Viewing}

\* What Mailbox calls the views; in Channel they are taken with the slot's length and show
\* whether the bytes are all there.
Seen == {[who |-> w, slot |-> slot[w], msg |-> Shown(slot[w])] : w \in Viewing}

ViewsAreWhole == Seen = Views

\* A view's slot is whole: nobody is writing it.
LEMMA ViewFacts == IInv => ViewsAreWhole
<1> SUFFICES ASSUME IInv PROVE Seen = Views
  BY DEF ViewsAreWhole
<1>1. ASSUME NEW w \in Viewing
      PROVE  Shown(slot[w]) = Message(slot[w])
  <2>1. slot[w] \in Slots
    BY KindsAreDisjoint DEF IInv, TypeOK, Viewing
  <2>2. WriteHolders(slot[w]) = {}
    BY DEF IInv, ExclusionInv, WriteHolders, Holding, Viewing
  <2> QED  BY <2>1, <2>2 DEF IInv, HeaderInv, HeaderMatchesData, Shown, Message
<1> QED  BY <1>1 DEF Seen, Views

\* The state of the mailbox, in these terms.
LEMMA BoxVars ==
  /\ Box!mailboxVars = <<Messages, Seen>>
  /\ Box!mailboxVars' = <<Messages', Seen'>>
  BY DEF Box!mailboxVars, Messages, Message, Seen, Viewing

\* A step that publishes nothing and opens and closes no view.
LEMMA SameBox ==
  ASSUME IInv, IInv', Viewing' = Viewing,
         \A w \in Viewing : slot'[w] = slot[w],
         \A s \in Slots : data'[s].ver = data[s].ver /\ data'[s].len = data[s].len
  PROVE  UNCHANGED Box!mailboxVars
<1>1. ViewsAreWhole /\ ViewsAreWhole'
  BY ViewFacts, PTL
<1>2. \A w \in Viewing : slot[w] \in Slots
  BY KindsAreDisjoint DEF IInv, TypeOK, Viewing
<1>3. Messages' = Messages
  BY DEF Messages, Message
<1>4. Views' = Views
  BY <1>2 DEF Views, Message
<1> QED  BY <1>1, <1>3, <1>4, BoxVars DEF ViewsAreWhole

LEMMA StartCopyPublishes ==
  ASSUME IInv, IInv', NEW p \in Writers, StartCopy(p)
  PROVE  Box!Next
<1>1. PICK s \in Slots, l \in Lengths : s = slot[p] /\ l = len[p]
  BY DEF IInv, TypeOK, LocationInv, StartCopy
<1>2. pc[p] = "copy" /\ slot' = slot /\ Viewing' = Viewing
  BY DEF IInv, StartCopy, Goto, Viewing
<1>3. /\ data'[s] = [ver |-> data[s].ver + 1, len |-> l, whole |-> FALSE]
      /\ \A u \in Slots \ {s} : data'[u] = data[u]
  BY <1>1 DEF IInv, TypeOK, StartCopy
<1>4. \A w \in Viewing : slot[w] \in Slots \ {s}
  BY <1>1, <1>2, KindsAreDisjoint DEF IInv, TypeOK, ExclusionInv, Holding, Viewing
<1>5. Seen' = Seen
  <2>1. Views' = Views
    BY <1>2, <1>3, <1>4 DEF Views, Message
  <2>2. ViewsAreWhole /\ ViewsAreWhole'
    BY ViewFacts, PTL
  <2> QED  BY <2>1, <2>2 DEF ViewsAreWhole
<1>6. Messages' = [Messages EXCEPT ![s] = [ver |-> @.ver + 1, len |-> l]]
  <2>1. Messages[s].ver = data[s].ver
    BY DEF Messages, Message
  <2>2. \A u \in Slots :
          Message(u)' = IF u = s THEN [ver |-> Messages[s].ver + 1, len |-> l] ELSE Messages[u]
    BY <1>3 DEF Messages, Message
  <2> QED  BY <2>2 DEF Messages
<1>7. \A v \in Seen : v.slot # s
  BY <1>4 DEF Seen
<1>8. Box!Publish(s, l)
  BY <1>5, <1>6, <1>7 DEF Box!Publish, Messages, Message, Seen, Viewing
<1> QED  BY <1>8 DEF Box!Next

LEMMA RLockOpens ==
  ASSUME IInv, IInv', NEW w \in Waiters, RLock(w)
  PROVE  Box!Next
<1>1. PICK s \in Slots : s = slot[w]
  BY KindsAreDisjoint DEF IInv, TypeOK
<1>2. /\ UNCHANGED <<data, length, slot>>
      /\ Viewing' = Viewing \cup {w} /\ w \notin Viewing
  BY DEF IInv, TypeOK, RLock, RLocking, Goto, Viewing, shared
<1>3. Views' = Views \cup {[who |-> w, slot |-> s, msg |-> Messages[s]]}
  BY <1>1, <1>2 DEF Views, Message, Messages
<1>4. ViewsAreWhole /\ ViewsAreWhole'
  BY ViewFacts, PTL
<1>5. Seen' = Seen \cup {[who |-> w, slot |-> s, msg |-> Messages[s]]}
  BY <1>3, <1>4 DEF ViewsAreWhole
<1>6. Messages' = Messages /\ \A v \in Seen : v.who # w
  BY <1>2 DEF Messages, Message, Seen
<1>7. Box!Open(w, s)
  BY <1>5, <1>6 DEF Box!Open, Messages, Message, Seen, Viewing
<1> QED  BY <1>7 DEF Box!Next

LEMMA ReleaseCloses ==
  ASSUME IInv, IInv', NEW w \in Waiters, Release(w)
  PROVE  Box!Next
<1>1. /\ UNCHANGED <<data, length>>
      /\ Viewing' = Viewing \ {w} /\ w \in Viewing
      /\ \A v \in Waiters \ {w} : slot'[v] = slot[v]
  BY DEF IInv, TypeOK, Release, Goto, Forget, AfterSlot, Viewing, shared
<1>2. Messages' = Messages
  BY <1>1 DEF Messages, Message
<1>3. PICK view \in Seen : view = [who |-> w, slot |-> slot[w], msg |-> Shown(slot[w])]
  BY <1>1 DEF Seen
<1>4. Seen' = Seen \ {view}
  <2> DEFINE ViewOf(v) == [who |-> v, slot |-> slot[v], msg |-> Shown(slot[v])]
  <2>1. /\ Seen = {ViewOf(v) : v \in Viewing} /\ view = ViewOf(w)
        /\ \A v \in Viewing : ViewOf(v).who = v
    BY <1>3 DEF Seen
  <2>2. Seen' = {ViewOf(v) : v \in Viewing \ {w}}
    BY <1>1 DEF Seen, Shown, Viewing
  <2> HIDE DEF ViewOf
  <2> QED  BY <1>1, <2>1, <2>2
<1>5. Box!Close(view)
  BY <1>2, <1>4 DEF Box!Close, Messages, Message, Seen, Viewing
<1> QED  BY <1>5 DEF Box!Next, Seen, Viewing

\* What changes neither the messages nor who is viewing what.
LEMMA OthersStutter ==
  ASSUME IInv, IInv', [Next]_vars,
         \A p \in Writers : ~StartCopy(p),
         \A w \in Waiters : ~RLock(w) /\ ~Release(w)
  PROVE  UNCHANGED Box!mailboxVars
<1>1. CASE UNCHANGED vars
  BY <1>1, SameBox DEF vars, shared, Viewing
<1>2. ASSUME NEW p \in Writers, NEW s \in Slots, NEW l \in Lengths, Write(p, s, l)
      PROVE  UNCHANGED Box!mailboxVars
  <2>1. Viewing' = Viewing /\ \A w \in Viewing : slot'[w] = slot[w]
    BY <1>2 DEF IInv, Write, Goto, Viewing
  <2> QED  BY <1>2, <2>1, SameBox DEF Write, shared
<1>3. ASSUME NEW p \in Writers, WriterStep(p) \/ WLockSleeps(p) \/ WriteThrows(p)
      PROVE  UNCHANGED Box!mailboxVars
  <2>1. CASE Wake(p)
    <3>1. Viewing' = Viewing /\ \A w \in Viewing : slot'[w] = slot[w]
      BY <2>1, KindsAreDisjoint DEF IInv, Wake, Woken, Wakeable, Matching, Sleepers, Forget,
                                    Viewing
    <3> QED  BY <2>1, <3>1, SameBox DEF Wake, shared
  <2>2. CASE ~Wake(p)
    <3>1. Viewing' = Viewing /\ \A w \in Viewing : slot'[w] = slot[w]
      BY <1>3, <2>2, KindsAreDisjoint
         DEF IInv, TypeOK, WriterStep, WLock, StartCopy, FinishCopy, SetLength,
             IncrementSlotSeq, WUnlock, IncrementDomainSeq, WLockSleeps, WriteThrows, Goto,
             Forget, Viewing
    <3>2. \A s \in Slots : data'[s].ver = data[s].ver /\ data'[s].len = data[s].len
      <4>1. CASE FinishCopy(p)
        BY <4>1 DEF IInv, FinishCopy
      <4> QED  BY <1>3, <2>2, <4>1
                  DEF WriterStep, WLock, SetLength, IncrementSlotSeq, WUnlock,
                      IncrementDomainSeq, WLockSleeps, WriteThrows, shared
    <3> QED  BY <3>1, <3>2, SameBox
  <2> QED  BY <2>1, <2>2
<1>4. ASSUME NEW w \in Waiters,
             \/ WaiterCall(w) \/ WaiterStep(w)
             \/ InterruptWait(w) \/ RLockSleeps(w) \/ ReadThrows(w)
      PROVE  UNCHANGED Box!mailboxVars
  <2>1. data' = data
    BY <1>4
       DEF WaiterCall, WaiterStep, InterruptWait, RLockSleeps, ReadThrows, Subscribe,
           Unsubscribe, Read, WaitExclusive, ForEachNewSlot, Compare, FutexWait, CheckAndUpdate, LoadLength,
           shared
  <2>2. Viewing' = Viewing /\ \A v \in Viewing : slot'[v] = slot[v]
    BY <1>4, KindsAreDisjoint
       DEF IInv, TypeOK, WaiterCall, WaiterStep, InterruptWait, RLockSleeps, ReadThrows,
           Subscribe, Unsubscribe, Read, WaitExclusive, ForEachNewSlot, Compare, FutexWait,
           CheckAndUpdate, LoadLength, AfterSlot, Goto, Forget, Viewing
  <2> QED  BY <2>1, <2>2, SameBox
<1>5. ASSUME NEW t \in Threads, Crash(t)
      PROVE  UNCHANGED Box!mailboxVars
  BY <1>5, SameBox DEF Crash, shared, Viewing
<1> QED  BY <1>1, <1>2, <1>3, <1>4, <1>5 DEF Next

LEMMA NextImplements == IInv /\ IInv' /\ [Next]_vars => [Box!Next]_(Box!mailboxVars)
<1> SUFFICES ASSUME IInv, IInv', [Next]_vars
             PROVE  Box!Next \/ UNCHANGED Box!mailboxVars
  BY DEF Box!mailboxVars
<1> QED  BY StartCopyPublishes, RLockOpens, ReleaseCloses, OthersStutter

\* Whatever the writers, the readers, the crashes and the signals, the slots are a mailbox:
\* messages appear at once, and a view pins the message that was current when it began.
THEOREM Refinement == Spec => ImplementsMailbox
<1>1. Init => Box!Init
  <2>1. SUFFICES ASSUME Init PROVE Box!Init
    OBVIOUS
  <2>2. {w \in Waiters : pc[w] = "view"} = {}
    BY <2>1, KindsAreDisjoint DEF Init
  <2> QED  BY <2>1, <2>2 DEF Init, Box!Init, Box!Nothing
<1>2. IInv /\ IInv' /\ [Next]_vars => [Box!Next]_(Box!mailboxVars)
  BY NextImplements
<1> QED  BY <1>1, <1>2, Invariance, PTL DEF Spec, ImplementsMailbox, Box!Spec
=============================================================================
