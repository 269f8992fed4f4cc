------------------------------ MODULE ViewsProofs ------------------------------
(***************************************************************************)
(* Views is right for every set of slots and every number of calls: locks   *)
(* and views balance, a scan that callbacks disturb looks at each target    *)
(* that is subscribed at most once and hides no message, and the vector of  *)
(* targets is a set of subscriptions.                                       *)
(***************************************************************************)
EXTENDS Views, SequenceTheorems, TLAPS

Target == [slot : Slots, last : Nat]

\* SmallMap's keys are distinct, those of the elements erased during a scan included.
DistinctInv == \A i, j \in 1 .. Len(buf) : buf[i].slot = buf[j].slot => i = j

\* A scan ends where the vector ended when it began, and stands on an element of that
\* vector while it reads a slot or runs a callback; outside of one nothing is left of
\* erased elements.
ScanInv ==
  /\ it = 0 => end = 0 /\ size = Len(buf)
  /\ it > 0 => end = Len(buf) /\ it <= end + 1
  /\ pc = "scan" => it > 0
  /\ Reading => it \in 1 .. end /\ arg = buf[it].slot
  /\ pc = "user" \/ Writing => it <= end

\* What is ahead of the iterator and still an element was not looked at in this scan.
LookedInv == it > 0 => \A i \in Ahead : i <= size => buf[i].slot \notin looked

\* The counters are ahead of what was seen of them, and of where they stood.
CountInv ==
  /\ \A i \in 1 .. Len(buf) : buf[i].last <= seq[buf[i].slot]
  /\ \A s \in Slots : base[s] <= seq[s]

\* The targets that the current scan has finished with.
Passed == 1 .. (IF pc = "user" \/ Writing THEN it ELSE it - 1)

\* Unless the scan's callbacks unsubscribed, they were shown what was there before it.
PassedInv ==
  (it > 0 /\ size = end) => \A i \in Passed : told[buf[i].slot] >= base[buf[i].slot]

IInv ==
  /\ TypeOK
  /\ LocksAreViews
  /\ DistinctInv
  /\ ScanInv
  /\ LookedInv
  /\ CountInv
  /\ SeenIsShown
  /\ PassedInv

-------------------------------------------------------------------------------
\* TypeOK in two parts: the vector of targets, and the rest, which is not about sequences.
VectorOK == buf \in Seq(Target) /\ size \in 0 .. Len(buf) /\ end \in 0 .. Len(buf)

OthersOK ==
  /\ seq \in [Slots -> Nat] /\ readers \in [Slots -> Nat]
  /\ writer \in [Slots -> {"out", "waits", "in"}]
  /\ held \in [Slots -> Nat] /\ lost \in [Slots -> Nat]
  /\ pc \in {"user", "scan", "read", "rsleep", "write", "wsleep"} /\ arg \in Slots
  /\ it \in Nat
  /\ base \in [Slots -> Nat] /\ looked \subseteq Slots /\ told \in [Slots -> Nat]
  /\ calls \in 0 .. MaxCalls

LEMMA TypeParts ==
  /\ TypeOK <=> VectorOK /\ OthersOK
  /\ TypeOK' <=> VectorOK' /\ OthersOK'
  BY DEF TypeOK, VectorOK, OthersOK, Target

\* A step that leaves the targets and the scan alone keeps the vector's type.
LEMMA SameVector ==
  ASSUME IInv, UNCHANGED <<targets, scan>>
  PROVE  VectorOK'
  BY TypeParts DEF IInv, VectorOK, targets, scan

-------------------------------------------------------------------------------
\* The memory of the vector: what the operators on it return.

\* The properties of buf and of its elements that the steps use.
LEMMA BufFacts ==
  ASSUME TypeOK
  PROVE  /\ buf \in Seq(Target) /\ Len(buf) \in Nat /\ size \in 0 .. Len(buf)
         /\ \A i \in 1 .. Len(buf) : buf[i] \in Target
  BY LenProperties, ElementOfSeq DEF TypeOK, Target

\* The swap of erase exchanges two elements.
LEMMA ErasedFacts ==
  ASSUME TypeOK, NEW i \in 1 .. size
  PROVE  /\ Erased(i) \in Seq(Target) /\ Len(Erased(i)) = Len(buf)
         /\ \A j \in 1 .. Len(buf) :
              Erased(i)[j] = IF j = size THEN buf[i] ELSE IF j = i THEN buf[size] ELSE buf[j]
<1>1. i \in 1 .. Len(buf) /\ size \in 1 .. Len(buf)
  BY BufFacts
<1> DEFINE half == [buf EXCEPT ![i] = buf[size]]
<1>2. /\ half \in Seq(Target) /\ Len(half) = Len(buf)
      /\ \A j \in 1 .. Len(buf) : half[j] = IF j = i THEN buf[size] ELSE buf[j]
  BY <1>1, BufFacts, ExceptSeq
<1>3. buf[i] \in Target
  BY <1>1, BufFacts
<1>4. Erased(i) = [half EXCEPT ![size] = buf[i]]
  BY DEF Erased
<1> HIDE DEF half
<1> QED  BY <1>1, <1>2, <1>3, <1>4, ExceptSeq

\* checkAndUpdate changes the last value of one element.
LEMMA CheckedFacts ==
  ASSUME TypeOK, NEW i \in 1 .. Len(buf)
  PROVE  /\ Checked(i) \in Seq(Target) /\ Len(Checked(i)) = Len(buf)
         /\ \A j \in 1 .. Len(buf) :
              /\ Checked(i)[j].slot = buf[j].slot
              /\ Checked(i)[j].last = IF j = i THEN seq[buf[i].slot] ELSE buf[j].last
<1>1. buf[i] \in Target /\ buf[i].slot \in Slots /\ seq[buf[i].slot] \in Nat
  BY BufFacts DEF TypeOK, Target
<1> DEFINE e == [buf[i] EXCEPT !.last = seq[buf[i].slot]]
<1>2. e \in Target /\ e.slot = buf[i].slot /\ e.last = seq[buf[i].slot]
  BY <1>1 DEF Target
<1>3. Checked(i) = [buf EXCEPT ![i] = e]
  BY DEF Checked
<1> HIDE DEF e
<1> QED  BY <1>2, <1>3, BufFacts, ExceptSeq

\* Forgetting the erased elements.
LEMMA PrefixFacts ==
  ASSUME NEW b \in Seq(Target), NEW n \in 0 .. Len(b)
  PROVE  /\ SubSeq(b, 1, n) \in Seq(Target) /\ Len(SubSeq(b, 1, n)) = n
         /\ \A j \in 1 .. n : SubSeq(b, 1, n)[j] = b[j]
  BY LenProperties, SubSeqProperties

LEMMA AppendFacts ==
  ASSUME NEW b \in Seq(Target), NEW e \in Target
  PROVE  /\ Append(b, e) \in Seq(Target) /\ Len(Append(b, e)) = Len(b) + 1
         /\ \A j \in 1 .. Len(b) : Append(b, e)[j] = b[j]
         /\ Append(b, e)[Len(b) + 1] = e
  BY LenProperties, AppendProperties

LEMMA NoSlotIsSlot == NoSlot \in Slots
  BY BoundsAssumption DEF NoSlot

-------------------------------------------------------------------------------
\* One lemma per kind of step: it keeps IInv.

\* What a step that leaves the targets, the scan and the counters alone preserves.
LEMMA SameTargets ==
  ASSUME IInv, UNCHANGED <<seq, targets, pc, arg, scan, told>>
  PROVE  DistinctInv' /\ ScanInv' /\ LookedInv' /\ CountInv' /\ SeenIsShown' /\ PassedInv'
<1>1. UNCHANGED <<seq, buf, size, pc, arg, it, end, base, looked, told>>
  BY DEF targets, scan
<1>2. DistinctInv' /\ ScanInv' /\ LookedInv'
  BY <1>1 DEF IInv, DistinctInv, ScanInv, LookedInv, Ahead, Reading, Writing
<1>3. CountInv' /\ SeenIsShown' /\ PassedInv'
  BY <1>1 DEF IInv, CountInv, SeenIsShown, PassedInv, Passed, Reading, Writing
<1> QED  BY <1>2, <1>3

LEMMA ReadLockedViewStep ==
  ASSUME IInv, NEW s \in Slots, ReadLockedView(s)
  PROVE  IInv'
<1>1. OthersOK'
  BY TypeParts, BoundsAssumption DEF IInv, OthersOK, ReadLockedView, TakeView, scan
<1>2. LocksAreViews'
  BY TypeParts DEF IInv, OthersOK, LocksAreViews, ReadLockedView, TakeView
<1> QED  BY <1>1, <1>2, TypeParts, SameVector, SameTargets DEF IInv, ReadLockedView

LEMMA UnlockViewStep ==
  ASSUME IInv, NEW s \in Slots, UnlockView(s)
  PROVE  IInv'
<1>1. readers[s] \in Nat /\ held[s] \in Nat /\ lost[s] \in Nat /\ readers[s] > 0
  BY TypeParts DEF IInv, OthersOK, LocksAreViews, UnlockView
<1>2. OthersOK'
  BY <1>1, TypeParts DEF IInv, OthersOK, UnlockView, scan
<1>3. LocksAreViews'
  BY <1>1, TypeParts DEF IInv, OthersOK, LocksAreViews, UnlockView
<1> QED  BY <1>2, <1>3, TypeParts, SameVector, SameTargets DEF IInv, UnlockView

LEMMA CopyToVecStep ==
  ASSUME IInv, NEW s \in Slots, CopyToVec(s)
  PROVE  IInv'
<1>1. OthersOK'
  BY TypeParts DEF IInv, OthersOK, CopyToVec, locks, scan
<1>2. LocksAreViews'
  BY TypeParts DEF IInv, OthersOK, LocksAreViews, CopyToVec, locks
<1> QED  BY <1>1, <1>2, TypeParts, SameVector, SameTargets DEF IInv, CopyToVec

LEMMA DomainCloseStep ==
  ASSUME IInv, DomainClose
  PROVE  IInv'
<1>1. OthersOK'
  BY TypeParts DEF IInv, OthersOK, DomainClose, locks, scan, Zero
<1>2. LocksAreViews'
  BY TypeParts DEF IInv, OthersOK, LocksAreViews, DomainClose, locks, Zero
<1> QED  BY <1>1, <1>2, TypeParts, SameVector, SameTargets DEF IInv, DomainClose

\* A subscription adds an element of its own, up to date, behind the others.
LEMMA SubscribeFacts ==
  ASSUME IInv, NEW s \in Slots, Subscribe(s)
  PROVE  /\ size = Len(buf) /\ Len(buf) \in Nat /\ size' = Len(buf) + 1
         /\ buf' \in Seq(Target) /\ Len(buf') = Len(buf) + 1
         /\ \A i \in 1 .. Len(buf) : buf'[i] = buf[i] /\ buf[i] \in Target /\ buf[i].slot # s
         /\ buf'[Len(buf) + 1].slot = s /\ buf'[Len(buf) + 1].last = seq[s]
<1> DEFINE e == [slot |-> s, last |-> seq[s]]
<1>1. Len(buf) \in Nat /\ size = Len(buf) /\ seq[s] \in Nat
  BY BufFacts DEF IInv, TypeOK, ScanInv, Subscribe, Idle
<1>2. e \in Target
  BY <1>1 DEF Target
<1>3. buf' = Append(buf, e) /\ size' = Len(buf) + 1
  BY <1>1 DEF Subscribe
<1>4. \A i \in 1 .. Len(buf) : buf[i].slot # s
  BY <1>1 DEF Subscribe, Find
<1> QED  BY <1>1, <1>2, <1>3, <1>4, AppendFacts, BufFacts DEF IInv

LEMMA SubscribeStep ==
  ASSUME IInv, NEW s \in Slots, Subscribe(s)
  PROVE  IInv'
<1> DEFINE n == Len(buf)
<1>1. n \in Nat /\ size = n /\ it = 0 /\ end = 0 /\ pc = "user"
  BY SubscribeFacts DEF IInv, ScanInv, Subscribe, Idle
<1>2. /\ buf' \in Seq(Target) /\ Len(buf') = n + 1 /\ size' = n + 1
      /\ \A i \in 1 .. n : buf'[i] = buf[i] /\ buf[i] \in Target /\ buf[i].slot # s
      /\ buf'[n + 1].slot = s /\ buf'[n + 1].last = seq[s]
  BY SubscribeFacts
<1>3. UNCHANGED <<seq, readers, writer, held, lost, pc, arg, it, end, base, looked, calls>>
  BY DEF Subscribe, locks, views, scan
<1>4. /\ told' \in [Slots -> Nat] /\ told'[s] = seq[s] /\ seq[s] \in Nat
      /\ \A t \in Slots \ {s} : told'[t] = told[t]
  BY TypeParts DEF IInv, OthersOK, Subscribe
<1> HIDE DEF n
<1>5. TypeOK'
  <2>1. VectorOK'
    BY <1>1, <1>2, <1>3 DEF VectorOK
  <2>2. OthersOK'
    BY <1>3, <1>4, TypeParts DEF IInv, OthersOK
  <2> QED  BY <2>1, <2>2, TypeParts
<1>6. LocksAreViews'
  BY <1>3 DEF IInv, LocksAreViews
<1>7. DistinctInv'
  BY <1>1, <1>2 DEF IInv, DistinctInv, n
<1>8. ScanInv' /\ LookedInv' /\ PassedInv'
  BY <1>1, <1>2, <1>3 DEF ScanInv, LookedInv, PassedInv, Reading
<1>9. CountInv'
  BY <1>1, <1>2, <1>3, <1>4 DEF IInv, CountInv, n
<1>10. SeenIsShown'
  <2>1. \A i \in 1 .. n : told[buf[i].slot] >= buf[i].last
    BY <1>1 DEF IInv, SeenIsShown, Reading
  <2>2. \A i \in 1 .. n : told'[buf'[i].slot] >= buf'[i].last
    BY <1>2, <1>4, <2>1 DEF Target
  <2> QED  BY <1>1, <1>2, <1>4, <2>2 DEF SeenIsShown
<1> QED  BY <1>5, <1>6, <1>7, <1>8, <1>9, <1>10 DEF IInv

\* Where an element comes from when element i is erased.
Source(i, j) == IF j = size THEN i ELSE IF j = i THEN size ELSE j

\* An unsubscription permutes the elements; outside of a scan it also forgets the last.
LEMMA UnsubscribeFacts ==
  ASSUME IInv, NEW s \in Slots, Unsubscribe(s)
  PROVE  /\ Len(buf) \in Nat /\ size \in 1 .. Len(buf) /\ size' = size - 1
         /\ \E i \in 1 .. size :
              /\ buf[i].slot = s
              /\ buf' \in Seq(Target) /\ Len(buf') = IF it = 0 THEN Len(buf) - 1 ELSE Len(buf)
              /\ \A j \in 1 .. Len(buf') : buf'[j] = buf[Source(i, j)]
<1> DEFINE n == Len(buf)
<1>1. n \in Nat /\ size \in 1 .. n /\ size' = size - 1 /\ pc = "user" /\ it \in Nat
  BY BufFacts, TypeParts DEF IInv, OthersOK, Unsubscribe, Find
<1>2. PICK i \in Find(s) : buf' = IF Idle THEN SubSeq(Erased(i), 1, size - 1) ELSE Erased(i)
  BY DEF Unsubscribe
<1>3. i \in 1 .. size /\ buf[i].slot = s
  BY DEF Find
<1>4. /\ Erased(i) \in Seq(Target) /\ Len(Erased(i)) = n
      /\ \A j \in 1 .. n : Erased(i)[j] = buf[Source(i, j)]
  BY <1>3, ErasedFacts DEF IInv, Source
<1>5. CASE it = 0
  <2>1. buf' = SubSeq(Erased(i), 1, n - 1)
    BY <1>1, <1>2, <1>5 DEF IInv, ScanInv, Idle
  <2>2. n - 1 \in 0 .. n /\ \A j \in 1 .. n - 1 : j \in 1 .. n
    BY <1>1
  <2>3. /\ buf' \in Seq(Target) /\ Len(buf') = n - 1
        /\ \A j \in 1 .. n - 1 : buf'[j] = Erased(i)[j]
    BY <1>4, <2>1, <2>2, PrefixFacts
  <2> QED  BY <1>1, <1>3, <1>4, <1>5, <2>2, <2>3
<1>6. CASE it > 0
  <2>1. buf' = Erased(i)
    BY <1>2, <1>6 DEF Idle
  <2> QED  BY <1>1, <1>3, <1>4, <1>6, <2>1
<1> QED  BY <1>1, <1>5, <1>6

LEMMA UnsubscribeStep ==
  ASSUME IInv, NEW s \in Slots, Unsubscribe(s)
  PROVE  IInv'
<1> DEFINE n == Len(buf)
<1>1. n \in Nat /\ size \in 1 .. n /\ pc = "user" /\ size' = size - 1
  BY UnsubscribeFacts DEF Unsubscribe
<1>2. /\ UNCHANGED <<seq, readers, writer, held, lost, pc, arg, told, calls>>
      /\ UNCHANGED <<it, end, base, looked>>
  BY DEF Unsubscribe, locks, views, scan
<1>3. PICK i \in 1 .. size :
        /\ buf' \in Seq(Target) /\ Len(buf') = IF it = 0 THEN n - 1 ELSE n
        /\ \A j \in 1 .. Len(buf') : buf'[j] = buf[Source(i, j)]
  BY UnsubscribeFacts
<1>4. \A j \in 1 .. n : Source(i, j) \in 1 .. n
  BY <1>1 DEF Source
<1>5. \A j, k \in 1 .. n : Source(i, j) = Source(i, k) => j = k
  BY <1>1 DEF Source
<1>6. \A j \in 1 .. size' : Source(i, j) \in 1 .. size
  BY <1>1 DEF Source
<1>7. it = 0 => size = n /\ end = 0
  BY DEF IInv, ScanInv
<1>8. it > 0 => end = n /\ it <= end
  BY <1>1 DEF IInv, ScanInv
<1>9. it \in Nat
  BY TypeParts DEF IInv, OthersOK
<1> HIDE DEF n
<1>10. Len(buf') \in 0 .. n /\ size' \in 0 .. Len(buf')
  BY <1>1, <1>7, <1>9, <1>3
<1>11. TypeOK'
  <2>1. VectorOK'
    BY <1>1, <1>2, <1>7, <1>8, <1>9, <1>3, <1>10 DEF VectorOK
  <2>2. OthersOK'
    BY <1>2, TypeParts DEF IInv, OthersOK
  <2> QED  BY <2>1, <2>2, TypeParts
<1>12. LocksAreViews'
  BY <1>2 DEF IInv, LocksAreViews
<1>13. DistinctInv'
  <2>1. SUFFICES ASSUME NEW j \in 1 .. Len(buf'), NEW k \in 1 .. Len(buf'),
                        buf'[j].slot = buf'[k].slot
                 PROVE  j = k
    BY DEF DistinctInv
  <2>2. j \in 1 .. n /\ k \in 1 .. n
    BY <1>1, <1>10
  <2>3. buf[Source(i, j)].slot = buf[Source(i, k)].slot
    BY <1>3, <2>1
  <2>4. Source(i, j) = Source(i, k)
    BY <1>4, <2>2, <2>3 DEF IInv, DistinctInv, n
  <2> QED  BY <1>5, <2>2, <2>4
<1>14. ScanInv'
  BY <1>1, <1>2, <1>7, <1>8, <1>9, <1>3 DEF ScanInv, Reading, Writing
<1>14a. LookedInv'
  <2>1. SUFFICES ASSUME it > 0, NEW j \in Ahead', j <= size'
                 PROVE  buf'[j].slot \notin looked
    BY <1>2 DEF LookedInv
  <2>2. j \in it + 1 .. end /\ j \in Int
    BY <1>1, <1>2, <2>1 DEF Ahead
  <2>3. j \in 1 .. Len(buf') /\ j < size
    BY <1>1, <1>3, <1>8, <1>9, <2>1, <2>2
  <2>4. Source(i, j) \in it + 1 .. end /\ Source(i, j) <= size
    BY <1>1, <1>8, <1>9, <2>1, <2>2, <2>3 DEF Source
  <2>5. buf[Source(i, j)].slot \notin looked
    BY <1>1, <2>1, <2>4 DEF IInv, LookedInv, Ahead
  <2> QED  BY <1>3, <2>3, <2>5
<1>15. CountInv'
  <2>1. \A j \in 1 .. Len(buf') : buf'[j].last <= seq[buf'[j].slot]
    <3>1. SUFFICES ASSUME NEW j \in 1 .. Len(buf') PROVE buf'[j].last <= seq[buf'[j].slot]
      OBVIOUS
    <3>2. j \in 1 .. n
      BY <1>1, <1>10
    <3> QED  BY <1>4, <1>3, <3>2 DEF IInv, CountInv, n
  <2> QED  BY <1>2, <2>1 DEF IInv, CountInv
<1>16. SeenIsShown'
  BY <1>1, <1>2, <1>6, <1>3, <1>10 DEF IInv, SeenIsShown, Reading
<1>17. PassedInv'
  BY <1>1, <1>2, <1>8 DEF PassedInv
<1> QED  BY <1>11, <1>12, <1>13, <1>14, <1>15, <1>16, <1>17, <1>14a DEF IInv

LEMMA WaiterFreeStep ==
  ASSUME IInv, WaiterFree
  PROVE  IInv'
<1>1. /\ buf' \in Seq(Target) /\ Len(buf') = 0 /\ size' = 0 /\ it = 0 /\ end = 0
      /\ pc = "user"
  BY EmptySeq DEF IInv, ScanInv, WaiterFree, Idle
<1>2. /\ UNCHANGED <<seq, readers, writer, held, lost, pc, arg, told, calls>>
      /\ UNCHANGED <<it, end, base, looked>>
  BY DEF WaiterFree, locks, views, scan
<1>3. VectorOK'
  BY <1>1, <1>2 DEF VectorOK
<1>4. OthersOK' /\ LocksAreViews'
  BY <1>2, TypeParts DEF IInv, OthersOK, LocksAreViews
<1>5. DistinctInv' /\ ScanInv' /\ LookedInv' /\ CountInv' /\ SeenIsShown' /\ PassedInv'
  BY <1>1, <1>2 DEF IInv, DistinctInv, ScanInv, LookedInv, CountInv, SeenIsShown, PassedInv,
                    Reading, Writing
<1> QED  BY <1>3, <1>4, <1>5, TypeParts DEF IInv

LEMMA ForEachNewSlotStep ==
  ASSUME IInv, ForEachNewSlot
  PROVE  IInv'
<1>1. size = Len(buf) /\ Len(buf) \in Nat
  BY BufFacts DEF IInv, ScanInv, ForEachNewSlot, Idle
<1>2. /\ UNCHANGED <<seq, readers, writer, held, lost, buf, size, arg, told>>
      /\ it' = 1 /\ end' = size /\ base' = seq /\ looked' = {} /\ pc' = "scan"
  BY DEF ForEachNewSlot, End, locks, views, targets
<1>3. VectorOK'
  BY <1>1, <1>2, TypeParts DEF IInv, VectorOK
<1>4. OthersOK'
  BY <1>2, TypeParts, BoundsAssumption DEF IInv, OthersOK, ForEachNewSlot
<1>5. LocksAreViews' /\ DistinctInv' /\ ScanInv' /\ LookedInv'
  BY <1>1, <1>2
     DEF IInv, LocksAreViews, DistinctInv, ScanInv, LookedInv, Reading, Writing
<1>6. CountInv' /\ SeenIsShown' /\ PassedInv'
  BY <1>2, TypeParts
     DEF IInv, OthersOK, CountInv, SeenIsShown, ForEachNewSlot, Idle, PassedInv, Passed,
         Reading, Writing
<1> QED  BY <1>3, <1>4, <1>5, <1>6, TypeParts DEF IInv

\* checkAndUpdate finds a new message: it counts as seen, and is about to be shown.
LEMMA CheckNewStep ==
  ASSUME IInv, Check, seq[buf[it].slot] > buf[it].last
  PROVE  IInv'
<1>1. it \in 1 .. Len(buf) /\ end = Len(buf) /\ Len(buf) \in Nat /\ it \in 1 .. end
  <2>1. it \in Nat /\ it > 0 /\ it <= end /\ Len(buf) \in Nat
    BY TypeParts, BufFacts DEF IInv, OthersOK, ScanInv, Check
  <2> QED  BY <2>1 DEF IInv, ScanInv
<1>2. /\ buf' = Checked(it) /\ arg' = buf[it].slot /\ pc' = "read" /\ pc = "scan"
      /\ looked' = looked \cup {buf[it].slot}
      /\ UNCHANGED <<seq, readers, writer, held, lost, size, it, end, base, told, calls>>
  BY DEF Check, locks, views
<1>3. /\ buf' \in Seq(Target) /\ Len(buf') = Len(buf)
      /\ \A j \in 1 .. Len(buf) :
           /\ buf'[j].slot = buf[j].slot
           /\ buf'[j].last = IF j = it THEN seq[buf[it].slot] ELSE buf[j].last
  BY <1>1, <1>2, CheckedFacts DEF IInv
<1>4. \A j \in 1 .. Len(buf) : buf[j] \in Target /\ seq[buf[j].slot] \in Nat
  BY BufFacts, TypeParts DEF IInv, OthersOK, Target
<1>5. VectorOK'
  BY <1>2, <1>3, TypeParts DEF IInv, VectorOK
<1>6. OthersOK'
  BY <1>1, <1>2, <1>4, TypeParts DEF IInv, OthersOK, Target
<1>7. LocksAreViews' /\ DistinctInv'
  BY <1>2, <1>3 DEF IInv, LocksAreViews, DistinctInv
<1>8. ScanInv'
  BY <1>1, <1>2, <1>3 DEF IInv, ScanInv, Reading, Writing
<1>8a. LookedInv'
  <2>1. SUFFICES ASSUME NEW j \in it + 1 .. end, j <= size
                 PROVE  buf'[j].slot \notin looked'
    BY <1>2 DEF LookedInv, Ahead
  <2>2. j \in 1 .. Len(buf) /\ j # it
    BY <1>1
  <2>3. buf[j].slot \notin looked /\ buf[j].slot # buf[it].slot
    BY <1>1, <1>2, <2>1, <2>2 DEF IInv, LookedInv, Ahead, DistinctInv
  <2> QED  BY <1>2, <1>3, <2>2, <2>3
<1>9. CountInv'
  BY <1>2, <1>3, <1>4 DEF IInv, CountInv
<1>10. \A j \in 1 .. size : j \in 1 .. Len(buf)
  BY <1>1, BufFacts DEF IInv
<1>11. SeenIsShown'
  BY <1>2, <1>3, <1>10 DEF IInv, SeenIsShown, Reading
<1>12. PassedInv'
  <2>1. \A j \in Passed' : j \in Passed /\ j \in 1 .. Len(buf)
    BY <1>1, <1>2 DEF Passed, Writing
  <2> QED  BY <1>2, <1>3, <2>1 DEF IInv, PassedInv
<1> QED  BY <1>5, <1>6, <1>7, <1>8, <1>9, <1>11, <1>12, <1>8a, TypeParts DEF IInv

\* checkAndUpdate finds nothing new: the element was shown up to its counter.
LEMMA CheckOldStep ==
  ASSUME IInv, Check, ~(seq[buf[it].slot] > buf[it].last)
  PROVE  IInv'
<1>1. it \in 1 .. Len(buf) /\ end = Len(buf) /\ Len(buf) \in Nat /\ it \in 1 .. end
  <2>1. it \in Nat /\ it > 0 /\ it <= end /\ Len(buf) \in Nat
    BY TypeParts, BufFacts DEF IInv, OthersOK, ScanInv, Check
  <2> QED  BY <2>1 DEF IInv, ScanInv
<1>2. /\ it' = it + 1 /\ pc = "scan" /\ looked' = looked \cup {buf[it].slot}
      /\ UNCHANGED <<seq, readers, writer, held, lost, buf, size, pc, arg, end, base, told, calls>>
  BY DEF Check, locks, views
<1>3. VectorOK'
  BY <1>2, TypeParts DEF IInv, VectorOK
<1>4. OthersOK'
  <2>1. it' \in Nat
    BY <1>1, <1>2
  <2>2. looked' \subseteq Slots
    BY <1>1, <1>2, BufFacts, TypeParts DEF IInv, OthersOK, Target
  <2> QED  BY <1>2, <2>1, <2>2, TypeParts DEF IInv, OthersOK
<1>5. LocksAreViews' /\ DistinctInv' /\ CountInv'
  BY <1>2 DEF IInv, LocksAreViews, DistinctInv, CountInv
<1>6. ScanInv'
  BY <1>1, <1>2 DEF ScanInv, Reading, Writing
<1>6a. LookedInv'
  <2>1. SUFFICES ASSUME NEW j \in it + 1 .. end, j <= size
                 PROVE  buf[j].slot \notin looked'
    BY <1>2 DEF LookedInv, Ahead
  <2>2. j \in 1 .. Len(buf) /\ j # it
    BY <1>1
  <2>3. buf[j].slot \notin looked /\ buf[j].slot # buf[it].slot
    BY <1>1, <1>2, <2>1, <2>2 DEF IInv, LookedInv, Ahead, DistinctInv
  <2> QED  BY <1>2, <2>3
<1>7. SeenIsShown'
  BY <1>2 DEF IInv, SeenIsShown, Reading
<1>8. PassedInv'
  <2>1. SUFFICES ASSUME size = end PROVE told[buf[it].slot] >= base[buf[it].slot]
    <3>1. \A j \in Passed' : j \in Passed \/ j = it
      BY <1>1, <1>2 DEF Passed, Writing
    <3> QED  BY <1>1, <1>2, <2>1, <3>1 DEF IInv, PassedInv
  <2> DEFINE s == buf[it].slot
  <2>2. s \in Slots /\ buf[it].last \in Nat
    BY <1>1, BufFacts DEF IInv, Target
  <2>3. told[s] \in Nat /\ base[s] \in Nat /\ seq[s] \in Nat
    BY <2>2, TypeParts DEF IInv, OthersOK
  <2>4. told[s] >= buf[it].last
    BY <1>1, <1>2, <2>1 DEF IInv, SeenIsShown, Reading
  <2>5. buf[it].last >= seq[s]
    BY <2>2, <2>3
  <2>6. base[s] <= seq[s]
    BY <2>2 DEF IInv, CountInv
  <2> QED  BY <2>2, <2>3, <2>4, <2>5, <2>6
<1> QED  BY <1>3, <1>4, <1>5, <1>6, <1>7, <1>8, <1>6a, TypeParts DEF IInv

\* What Callback and ReadThrows have in common: the slot's newest message was told.
LEMMA Told ==
  ASSUME IInv, Reading, told' = [told EXCEPT ![arg] = seq[arg]]
  PROVE  /\ \A s \in Slots : told'[s] = IF s = arg THEN seq[s] ELSE told[s]
         /\ \A i \in 1 .. size : told'[buf[i].slot] >= buf[i].last
         /\ (it > 0 /\ size = end) => \A i \in 1 .. it : told'[buf[i].slot] >= base[buf[i].slot]
<1>1. \A i \in 1 .. Len(buf) : buf[i].slot \in Slots
  BY BufFacts DEF IInv, Target
<1>2. /\ size \in 0 .. Len(buf) /\ Len(buf) \in Nat
      /\ it \in 1 .. end /\ end = Len(buf) /\ arg = buf[it].slot
  BY BufFacts DEF IInv, TypeOK, ScanInv
<1>3. \A s \in Slots : told'[s] = IF s = arg THEN seq[s] ELSE told[s]
  BY TypeParts DEF IInv, OthersOK
<1>4. \A i \in 1 .. size : told'[buf[i].slot] >= buf[i].last
  <2>1. SUFFICES ASSUME NEW i \in 1 .. size PROVE told'[buf[i].slot] >= buf[i].last
    OBVIOUS
  <2>2. i \in 1 .. Len(buf)
    BY <1>2
  <2>3. buf[i].last <= seq[buf[i].slot]
    BY <2>2 DEF IInv, CountInv
  <2>4. buf[i].last \in Nat /\ seq[buf[i].slot] \in Nat
    BY <1>1, <2>2, BufFacts, TypeParts DEF IInv, Target, OthersOK
  <2> QED  BY <1>1, <1>3, <2>2, <2>3, <2>4 DEF IInv, SeenIsShown
<1>5. ASSUME it > 0, size = end, NEW i \in 1 .. it
      PROVE  told'[buf[i].slot] >= base[buf[i].slot]
  <2>1. i \in 1 .. Len(buf) /\ (i \in Passed \/ i = it)
    BY <1>2 DEF Passed, Reading, Writing
  <2>2. /\ seq[buf[i].slot] \in Nat /\ base[buf[i].slot] \in Nat
        /\ base[buf[i].slot] <= seq[buf[i].slot]
    BY <1>1, <2>1, TypeParts DEF IInv, OthersOK, CountInv
  <2> QED  BY <1>1, <1>2, <1>3, <1>5, <2>1, <2>2 DEF IInv, PassedInv
<1> QED  BY <1>3, <1>4, <1>5

LEMMA CallbackStep ==
  ASSUME IInv, Callback
  PROVE  IInv'
<1>1. /\ Reading /\ pc' = "user" /\ told' = [told EXCEPT ![arg] = seq[arg]]
      /\ UNCHANGED <<seq, writer, lost, buf, size, arg, it, end, base, looked, calls>>
  BY DEF Callback, targets, scan
<1>2. it \in 1 .. end /\ end \in Nat
  BY TypeParts, BufFacts DEF IInv, VectorOK, ScanInv, Callback
<1>3. arg \in Slots
  BY TypeParts DEF IInv, OthersOK
<1>4. VectorOK'
  BY <1>1, TypeParts DEF IInv, VectorOK
<1>5. OthersOK'
  BY <1>1, <1>3, TypeParts DEF IInv, OthersOK, Callback, TakeView
<1>6. LocksAreViews'
  BY <1>1, <1>3, TypeParts DEF IInv, OthersOK, LocksAreViews, Callback, TakeView
<1>7. DistinctInv' /\ ScanInv' /\ LookedInv' /\ CountInv'
  BY <1>1, <1>2
     DEF IInv, DistinctInv, ScanInv, LookedInv, Ahead, CountInv, Reading, Writing
<1>8. SeenIsShown' /\ PassedInv'
  BY <1>1, <1>2, Told DEF SeenIsShown, PassedInv, Passed, Writing
<1> QED  BY <1>4, <1>5, <1>6, <1>7, <1>8, TypeParts DEF IInv

\* The scan is over, at its end or by an exception: what is left of erased elements goes.
LEMMA LeaveFacts ==
  ASSUME IInv, Leave, UNCHANGED size
  PROVE  /\ buf' \in Seq(Target) /\ Len(buf') = size /\ size \in 0 .. Len(buf) /\ Len(buf) \in Nat
         /\ \A j \in 1 .. size : buf'[j] = buf[j]
         /\ it' = 0 /\ end' = 0 /\ pc' = "user" /\ looked' = {}
         /\ base' = Zero /\ \A s \in Slots : base'[s] = 0
  BY BufFacts, PrefixFacts DEF IInv, Leave, Zero

\* With the iterators gone, all is well if every target's message was told.
LEMMA LeaveStep ==
  ASSUME IInv, Leave, UNCHANGED <<seq, locks, views, size, calls>>, arg' \in Slots,
         told' \in [Slots -> Nat],
         \A i \in 1 .. size : told'[buf[i].slot] >= buf[i].last
  PROVE  IInv'
<1>1. VectorOK'
  BY LeaveFacts DEF VectorOK
<1>2. OthersOK'
  <2>1. base' \in [Slots -> Nat] /\ it' \in Nat /\ pc' = "user" /\ looked' = {}
    BY LeaveFacts DEF Zero
  <2> QED  BY <2>1, TypeParts DEF IInv, OthersOK, locks, views
<1>3. LocksAreViews'
  BY DEF IInv, LocksAreViews, locks, views
<1>4. \A j \in 1 .. size : j \in 1 .. Len(buf)
  BY LeaveFacts
<1>5. DistinctInv'
  BY <1>4, LeaveFacts DEF IInv, DistinctInv
<1>6. ScanInv' /\ LookedInv' /\ PassedInv' /\ SeenIsShown'
  BY LeaveFacts DEF ScanInv, LookedInv, PassedInv, SeenIsShown, Reading, Writing
<1>7. CountInv'
  <2>1. \A s \in Slots : base'[s] <= seq'[s]
    <3>1. \A s \in Slots : base'[s] = 0 /\ seq'[s] = seq[s]
      BY LeaveFacts
    <3>2. \A s \in Slots : seq[s] \in Nat
      BY TypeParts DEF IInv, OthersOK
    <3> QED  BY <3>1, <3>2
  <2> QED  BY <1>4, <2>1, LeaveFacts DEF IInv, CountInv
<1> QED  BY <1>1, <1>2, <1>3, <1>5, <1>6, <1>7, TypeParts DEF IInv

LEMMA ReadThrowsStep ==
  ASSUME IInv, ReadThrows
  PROVE  IInv'
<1>1. \A i \in 1 .. size : told'[buf[i].slot] >= buf[i].last
  BY Told DEF ReadThrows, Reading
<1>2. told' \in [Slots -> Nat] /\ arg' \in Slots
  BY TypeParts, NoSlotIsSlot DEF IInv, OthersOK, ReadThrows
<1> QED  BY <1>1, <1>2, LeaveStep DEF ReadThrows, locks

LEMMA ScanEndsStep ==
  ASSUME IInv, ScanEnds
  PROVE  IInv'
<1>1. \A i \in 1 .. size : told[buf[i].slot] >= buf[i].last
  BY DEF IInv, SeenIsShown, ScanEnds, Reading
<1>2. told \in [Slots -> Nat] /\ arg \in Slots
  BY TypeParts DEF IInv, OthersOK
<1> QED  BY <1>1, <1>2, LeaveStep DEF ScanEnds

\* The guard leaves the lock to the view, and the scan goes on behind the element.
LEMMA ReturnStep ==
  ASSUME IInv, Return
  PROVE  IInv'
<1>1. /\ pc = "user" /\ pc' = "scan" /\ it' = it + 1 /\ it > 0 /\ arg' = NoSlot
      /\ UNCHANGED <<seq, readers, writer, held, lost, buf, size, end, base, looked, told, calls>>
  BY DEF Return, InCallback, GuardReleases, views, targets
<1>2. it \in 1 .. end /\ end = Len(buf) /\ end \in Nat
  BY <1>1, TypeParts, BufFacts DEF IInv, OthersOK, ScanInv
<1>3. VectorOK'
  BY <1>1, TypeParts DEF IInv, VectorOK
<1>4. OthersOK'
  BY <1>1, TypeParts, NoSlotIsSlot DEF IInv, OthersOK
<1>5. LocksAreViews' /\ DistinctInv' /\ CountInv' /\ SeenIsShown'
  BY <1>1 DEF IInv, LocksAreViews, DistinctInv, CountInv, SeenIsShown, Reading
<1>6. ScanInv' /\ LookedInv'
  BY <1>1, <1>2 DEF IInv, ScanInv, LookedInv, Ahead, Reading, Writing
<1>7. PassedInv'
  <2>1. Passed' = Passed
    BY <1>1, <1>2 DEF Passed, Writing
  <2> QED  BY <1>1, <2>1 DEF IInv, PassedInv
<1> QED  BY <1>3, <1>4, <1>5, <1>6, <1>7, TypeParts DEF IInv

\* What a step that only counts a message, and leaves a call, preserves.
LEMMA CountedStep ==
  ASSUME IInv, NEW s \in Slots, seq' = [seq EXCEPT ![s] = @ + 1],
         UNCHANGED <<targets, scan, told>>,
         UNCHANGED <<pc, arg>> \/ (Writing /\ pc' = "user")
  PROVE  DistinctInv' /\ ScanInv' /\ LookedInv' /\ CountInv' /\ SeenIsShown' /\ PassedInv'
<1>1. UNCHANGED <<buf, size, it, end, base, looked, told>>
  BY DEF targets, scan
<1>2. \A t \in Slots : seq[t] \in Nat /\ seq'[t] \in Nat /\ seq[t] <= seq'[t]
  BY TypeParts DEF IInv, OthersOK
<1>3. \A i \in 1 .. Len(buf) : buf[i].slot \in Slots /\ buf[i].last \in Nat
  BY BufFacts DEF IInv, Target
<1>4. \A t \in Slots : base[t] \in Nat
  BY TypeParts DEF IInv, OthersOK
<1>5. CountInv'
  <2>1. \A i \in 1 .. Len(buf) : buf[i].last <= seq'[buf[i].slot]
    BY <1>2, <1>3 DEF IInv, CountInv
  <2>2. \A t \in Slots : base[t] <= seq'[t]
    BY <1>2, <1>4 DEF IInv, CountInv
  <2> QED  BY <1>1, <2>1, <2>2 DEF CountInv
<1>6. DistinctInv' /\ ScanInv' /\ LookedInv'
  BY <1>1 DEF IInv, DistinctInv, ScanInv, LookedInv, Ahead, Reading, Writing
<1>7. SeenIsShown'
  BY <1>1 DEF IInv, SeenIsShown, Reading, Writing
<1>8. PassedInv'
  BY <1>1 DEF IInv, PassedInv, Passed, Reading, Writing
<1> QED  BY <1>5, <1>6, <1>7, <1>8

\* The thread enters a write, or is thrown out of it.
LEMMA WriteSlotStep ==
  ASSUME IInv, NEW s \in Slots, WriteSlot(s)
  PROVE  IInv'
<1>1. /\ pc = "user" /\ pc' = "write" /\ arg' = s /\ calls' = calls + 1 /\ calls < MaxCalls
      /\ UNCHANGED <<seq, readers, writer, held, lost, buf, size, it, end, base, looked, told>>
  BY DEF WriteSlot, locks, views, targets, scan
<1>2. VectorOK'
  BY <1>1, TypeParts DEF IInv, VectorOK
<1>3. OthersOK'
  BY <1>1, TypeParts, BoundsAssumption DEF IInv, OthersOK
<1>4. LocksAreViews' /\ DistinctInv' /\ ScanInv' /\ LookedInv' /\ CountInv'
  BY <1>1
     DEF IInv, LocksAreViews, DistinctInv, ScanInv, LookedInv, Ahead, CountInv, Reading, Writing
<1>5. SeenIsShown' /\ PassedInv'
  BY <1>1 DEF IInv, SeenIsShown, PassedInv, Passed, Reading, Writing
<1> QED  BY <1>2, <1>3, <1>4, <1>5, TypeParts DEF IInv

\* The lock puts the thread to sleep.
LEMMA LockSleepsStep ==
  ASSUME IInv, LockSleeps
  PROVE  IInv'
<1>1. /\ \/ pc = "read" /\ pc' = "rsleep"
         \/ pc = "write" /\ pc' = "wsleep"
      /\ UNCHANGED <<seq, readers, writer, held, lost, buf, size, arg, told, calls>>
      /\ UNCHANGED <<it, end, base, looked>>
  BY DEF LockSleeps, locks, views, targets, scan
<1>2. VectorOK'
  BY <1>1, TypeParts DEF IInv, VectorOK
<1>3. OthersOK'
  BY <1>1, TypeParts DEF IInv, OthersOK
<1>4. LocksAreViews' /\ DistinctInv' /\ ScanInv' /\ LookedInv' /\ CountInv'
  BY <1>1
     DEF IInv, LocksAreViews, DistinctInv, ScanInv, LookedInv, Ahead, CountInv, Reading, Writing
<1>5. SeenIsShown' /\ PassedInv'
  BY <1>1 DEF IInv, SeenIsShown, PassedInv, Passed, Reading, Writing
<1> QED  BY <1>2, <1>3, <1>4, <1>5, TypeParts DEF IInv

LEMMA WriteThrowsStep ==
  ASSUME IInv, WriteThrows
  PROVE  IInv'
<1>1. /\ pc = "wsleep" /\ pc' = "user" /\ arg' = NoSlot
      /\ UNCHANGED <<seq, readers, writer, held, lost, buf, size, told, calls>>
      /\ UNCHANGED <<it, end, base, looked>>
  BY DEF WriteThrows, locks, views, targets, scan
<1>2. VectorOK'
  BY <1>1, TypeParts DEF IInv, VectorOK
<1>3. OthersOK'
  BY <1>1, TypeParts, NoSlotIsSlot DEF IInv, OthersOK
<1>4. LocksAreViews' /\ DistinctInv' /\ ScanInv' /\ LookedInv' /\ CountInv'
  BY <1>1
     DEF IInv, LocksAreViews, DistinctInv, ScanInv, LookedInv, Ahead, CountInv, Reading, Writing
<1>5. SeenIsShown' /\ PassedInv'
  BY <1>1 DEF IInv, SeenIsShown, PassedInv, Passed, Reading, Writing
<1> QED  BY <1>2, <1>3, <1>4, <1>5, TypeParts DEF IInv

LEMMA WrittenStep ==
  ASSUME IInv, Written
  PROVE  IInv'
<1>1. arg \in Slots
  BY TypeParts DEF IInv, OthersOK
<1>2. VectorOK'
  BY SameVector DEF Written
<1>3. OthersOK'
  BY <1>1, TypeParts, NoSlotIsSlot DEF IInv, OthersOK, Written, locks, views, scan
<1>4. LocksAreViews'
  BY DEF IInv, LocksAreViews, Written, locks, views
<1>5. DistinctInv' /\ ScanInv' /\ LookedInv' /\ CountInv' /\ SeenIsShown' /\ PassedInv'
  BY <1>1, CountedStep DEF Written
<1> QED  BY <1>2, <1>3, <1>4, <1>5, TypeParts DEF IInv

LEMMA OtherUnlocksStep ==
  ASSUME IInv, NEW s \in Slots, OtherUnlocks(s)
  PROVE  IInv'
<1>1. VectorOK'
  BY SameVector DEF OtherUnlocks
<1>2. OthersOK'
  BY TypeParts DEF IInv, OthersOK, OtherUnlocks, views, scan
<1>3. LocksAreViews'
  BY DEF IInv, LocksAreViews, OtherUnlocks, views
<1>4. DistinctInv' /\ ScanInv' /\ LookedInv' /\ CountInv' /\ SeenIsShown' /\ PassedInv'
  <2>1. /\ seq' = [seq EXCEPT ![s] = @ + 1]
        /\ UNCHANGED <<targets, scan, told>> /\ UNCHANGED <<pc, arg>>
    BY DEF OtherUnlocks
  <2> QED  BY <2>1, CountedStep
<1> QED  BY <1>1, <1>2, <1>3, <1>4, TypeParts DEF IInv

\* The other thread waits for the views' locks, and takes its own.
LEMMA OtherWaitsStep ==
  ASSUME IInv, NEW s \in Slots, OtherWrites(s) \/ OtherLocks(s)
  PROVE  IInv'
<1>1. UNCHANGED <<seq, readers, views, targets, pc, arg, scan, told, calls>>
  BY DEF OtherWrites, OtherLocks
<1>2. VectorOK'
  BY <1>1, SameVector
<1>3. OthersOK'
  BY <1>1, TypeParts DEF IInv, OthersOK, OtherWrites, OtherLocks, views, scan
<1>4. LocksAreViews'
  BY <1>1 DEF IInv, LocksAreViews, views
<1> QED  BY <1>1, <1>2, <1>3, <1>4, SameTargets, TypeParts DEF IInv

LEMMA InitInv == Init => IInv
<1> SUFFICES ASSUME Init PROVE IInv
  OBVIOUS
<1>1. Zero \in [Slots -> Nat] /\ \A s \in Slots : Zero[s] = 0
  BY DEF Zero
<1>2. buf = << >> /\ Len(buf) = 0 /\ buf \in Seq(Target)
  BY EmptySeq DEF Init
<1>3. VectorOK
  BY <1>2 DEF Init, VectorOK
<1>4. OthersOK
  BY <1>1, NoSlotIsSlot, BoundsAssumption DEF Init, OthersOK
<1>5. LocksAreViews
  <2>1. \A s \in Slots : readers[s] = 0 /\ held[s] = 0 /\ lost[s] = 0
    BY <1>1 DEF Init
  <2>2. ASSUME NEW s \in Slots PROVE readers[s] = held[s] + lost[s]
    BY <2>1
  <2> QED  BY <2>2 DEF LocksAreViews
<1>6. DistinctInv /\ ScanInv /\ LookedInv /\ CountInv /\ SeenIsShown /\ PassedInv
  BY <1>1, <1>2
     DEF Init, DistinctInv, ScanInv, LookedInv, CountInv, SeenIsShown, PassedInv, Reading, Writing
<1> QED  BY <1>3, <1>4, <1>5, <1>6, TypeParts DEF IInv

LEMMA NextInv == IInv /\ [Next]_vars => IInv'
<1> SUFFICES ASSUME IInv, [Next]_vars PROVE IInv'
  OBVIOUS
<1>1. ASSUME Step PROVE IInv'
  BY <1>1, CheckNewStep, CheckOldStep, CallbackStep, ScanEndsStep, WrittenStep DEF Step
<1>2. ASSUME \/ ForEachNewSlot \/ Return \/ LockSleeps \/ ReadThrows \/ WriteThrows
             \/ WaiterFree \/ DomainClose
      PROVE  IInv'
  BY <1>2, ForEachNewSlotStep, ReturnStep, LockSleepsStep, ReadThrowsStep, WriteThrowsStep,
     WaiterFreeStep, DomainCloseStep
<1>3. ASSUME NEW s \in Slots, Call(s) PROVE IInv'
  BY <1>3, ReadLockedViewStep, UnlockViewStep, CopyToVecStep, SubscribeStep, UnsubscribeStep,
     WriteSlotStep DEF Call
<1>4. ASSUME NEW s \in Slots, OtherWrites(s) \/ OtherLocks(s) \/ OtherUnlocks(s) PROVE IInv'
  BY <1>4, OtherWaitsStep, OtherUnlocksStep
<1>5. CASE UNCHANGED vars
  <2>1. VectorOK'
    BY <1>5, SameVector DEF vars
  <2>2. OthersOK' /\ LocksAreViews'
    BY <1>5, TypeParts DEF vars, locks, views, scan, IInv, OthersOK, LocksAreViews
  <2> QED  BY <1>5, <2>1, <2>2, TypeParts, SameTargets DEF vars, IInv
<1> QED  BY <1>1, <1>2, <1>3, <1>4, <1>5 DEF Next

-------------------------------------------------------------------------------
\* The inductive invariant holds in every state.
THEOREM Invariance == Spec => []IInv
  BY InitInv, NextInv, PTL DEF Spec

\* The variables have their types: no count of locks or views becomes negative, and the
\* indices of the vector and of the iterators stay inside its memory.
THEOREM TypeCorrect == Spec => []TypeOK
<1>1. IInv => TypeOK
  BY DEF IInv
<1> QED  BY <1>1, Invariance, PTL

\* A slot is read-locked once by each view handed out and not unlocked.
THEOREM ViewsHoldTheLocks == Spec => []LocksAreViews
<1>1. IInv => LocksAreViews
  BY DEF IInv
<1> QED  BY <1>1, Invariance, PTL

\* A scan looks twice at no target that is subscribed, whatever its callbacks erase: an
\* element whose slot it has looked at, met again, was erased and is no target.
THEOREM TargetsAreReadOnce == Spec => []NoTargetTwice
<1>1. IInv => NoTargetTwice
  <2>1. SUFFICES ASSUME IInv, it > 0, NEW i \in Ahead, buf[i].slot \in looked,
                        NEW j \in Find(buf[i].slot)
                 PROVE  FALSE
    BY DEF NoTargetTwice
  <2>2. it \in Nat /\ end = Len(buf) /\ Len(buf) \in Nat /\ size \in 0 .. Len(buf)
    BY <2>1, TypeParts, BufFacts DEF IInv, OthersOK, ScanInv
  <2>3. i \in 1 .. Len(buf)
    BY <2>1, <2>2 DEF Ahead
  <2>4. ~ (i <= size)
    BY <2>1 DEF IInv, LookedInv
  <2>5. j \in 1 .. size /\ buf[j].slot = buf[i].slot
    BY DEF Find
  <2>6. i = j
    BY <2>1, <2>2, <2>3, <2>5 DEF IInv, DistinctInv
  <2> QED  BY <2>2, <2>4, <2>5, <2>6
<1> QED  BY <1>1, Invariance, PTL

\* What checkAndUpdate marks as seen is shown, or answered with an exception, next.
THEOREM SeenMessagesAreShown == Spec => []SeenIsShown
<1>1. IInv => SeenIsShown
  BY DEF IInv
<1> QED  BY <1>1, Invariance, PTL

\* A scan without unsubscriptions shows all that was counted before it.
THEOREM ScansShowAll == Spec => []ScanShowsAll
<1>1. IInv => ScanShowsAll
  <2>1. SUFFICES ASSUME IInv, pc = "scan", it > end, size >= end, NEW i \in 1 .. size
                 PROVE  told[buf[i].slot] >= base[buf[i].slot]
    BY DEF ScanShowsAll
  <2>2. it \in Nat /\ it > 0 /\ end = Len(buf) /\ Len(buf) \in Nat /\ size \in 0 .. Len(buf)
    BY <2>1, TypeParts, BufFacts DEF IInv, OthersOK, ScanInv
  <2>3. size = end /\ i \in Passed
    BY <2>1, <2>2 DEF Passed
  <2> QED  BY <2>1, <2>2, <2>3 DEF IInv, PassedInv
<1> QED  BY <1>1, Invariance, PTL

-------------------------------------------------------------------------------
\* Views implements Subscriptions: the abstract variable seen, and what a step does to it.

Seen == [s \in {buf[i].slot : i \in 1 .. size} |->
           buf[CHOOSE i \in 1 .. size : buf[i].slot = s].last]

SeenMatches ==
  /\ DOMAIN Seen = {buf[i].slot : i \in 1 .. size}
  /\ \A i \in 1 .. size : Seen[buf[i].slot] = buf[i].last
  /\ DOMAIN Seen \subseteq Slots

\* The targets' slots are distinct, so each has the value of its own element.
LEMMA SeenFacts == IInv => SeenMatches
<1> SUFFICES ASSUME IInv PROVE SeenMatches
  OBVIOUS
<1>1. size \in 0 .. Len(buf) /\ Len(buf) \in Nat
  BY BufFacts DEF IInv
<1>2. \A i \in 1 .. size : i \in 1 .. Len(buf)
  BY <1>1
<1>3. \A i \in 1 .. size : buf[i].slot \in Slots
  BY <1>2, BufFacts DEF IInv, Target
<1>4. DOMAIN Seen = {buf[i].slot : i \in 1 .. size}
  BY DEF Seen
<1>5. ASSUME NEW i \in 1 .. size PROVE Seen[buf[i].slot] = buf[i].last
  <2>1. (CHOOSE j \in 1 .. size : buf[j].slot = buf[i].slot) = i
    BY <1>2 DEF IInv, DistinctInv
  <2>2. buf[i].slot \in {buf[j].slot : j \in 1 .. size}
    OBVIOUS
  <2> QED  BY <2>1, <2>2 DEF Seen
<1> QED  BY <1>3, <1>4, <1>5 DEF SeenMatches

\* Two vectors with the same elements, in any order, are the same subscriptions.
LEMMA SameSeen ==
  ASSUME IInv, IInv',
         \A i \in 1 .. size : \E j \in 1 .. size' : buf'[j] = buf[i],
         \A j \in 1 .. size' : \E i \in 1 .. size : buf'[j] = buf[i]
  PROVE  Seen' = Seen
<1>1. SeenMatches /\ SeenMatches'
  BY SeenFacts, PTL
<1>2. Seen' = [s \in DOMAIN Seen' |-> Seen'[s]] /\ Seen = [s \in DOMAIN Seen |-> Seen[s]]
  BY DEF Seen
<1>3. DOMAIN Seen' = DOMAIN Seen
  BY <1>1 DEF SeenMatches
<1>4. \A s \in DOMAIN Seen : Seen'[s] = Seen[s]
  BY <1>1 DEF SeenMatches
<1> QED  BY <1>2, <1>3, <1>4

\* A step that changes neither the elements nor the counters is no step of Subscriptions.
LEMMA SameSubscriptions ==
  ASSUME UNCHANGED <<seq, targets>>
  PROVE  UNCHANGED <<seq, Seen>>
  BY DEF targets, Seen

LEMMA SubscribeSeen ==
  ASSUME IInv, IInv', NEW s \in Slots, Subscribe(s)
  PROVE  /\ s \notin DOMAIN Seen /\ UNCHANGED seq
         /\ Seen' = [t \in DOMAIN Seen \cup {s} |-> IF t = s THEN seq[s] ELSE Seen[t]]
<1> DEFINE new == [t \in DOMAIN Seen \cup {s} |-> IF t = s THEN seq[s] ELSE Seen[t]]
<1>1. SeenMatches /\ SeenMatches'
  BY SeenFacts, PTL
<1>2. s \notin DOMAIN Seen
  BY <1>1, SubscribeFacts DEF SeenMatches
<1>3. DOMAIN Seen' = DOMAIN Seen \cup {s}
  <2>1. /\ Len(buf) \in Nat /\ size = Len(buf) /\ size' = Len(buf) + 1
        /\ buf'[size'].slot = s /\ \A i \in 1 .. size : buf'[i] = buf[i]
    BY SubscribeFacts
  <2>2. \A i \in 1 .. size' : i \in 1 .. size \/ i = size'
    BY <2>1
  <2>3. size' \in 1 .. size' /\ \A i \in 1 .. size : i \in 1 .. size'
    BY <2>1
  <2>4. {buf'[i].slot : i \in 1 .. size'} = {buf[i].slot : i \in 1 .. size} \cup {s}
    BY <2>1, <2>2, <2>3
  <2>5. DOMAIN Seen' = {buf'[i].slot : i \in 1 .. size'}
    BY <1>1 DEF SeenMatches
  <2>6. DOMAIN Seen = {buf[i].slot : i \in 1 .. size}
    BY <1>1 DEF SeenMatches
  <2> QED  BY <2>4, <2>5, <2>6
<1>4. ASSUME NEW t \in DOMAIN Seen PROVE Seen'[t] = Seen[t]
  <2>1. PICK i \in 1 .. size : buf[i].slot = t
    BY <1>1 DEF SeenMatches
  <2>2. i \in 1 .. size' /\ buf'[i] = buf[i]
    BY SubscribeFacts
  <2> QED  BY <1>1, <2>1, <2>2 DEF SeenMatches
<1>5. Seen'[s] = seq[s]
  BY <1>1, SubscribeFacts DEF SeenMatches
<1>6. Seen' = [t \in DOMAIN Seen' |-> Seen'[t]]
  BY DEF Seen
<1>7. Seen' = new
  BY <1>2, <1>3, <1>4, <1>5, <1>6
<1> QED  BY <1>2, <1>7 DEF Subscribe

LEMMA UnsubscribeSeen ==
  ASSUME IInv, IInv', NEW s \in Slots, Unsubscribe(s)
  PROVE  /\ s \in DOMAIN Seen /\ UNCHANGED seq
         /\ Seen' = [t \in DOMAIN Seen \ {s} |-> Seen[t]]
<1>1. SeenMatches /\ SeenMatches'
  BY SeenFacts, PTL
<1>2. Len(buf) \in Nat /\ size \in 1 .. Len(buf) /\ size' = size - 1
  BY UnsubscribeFacts
<1>3. PICK i \in 1 .. size : /\ buf[i].slot = s
                             /\ Len(buf') = IF it = 0 THEN Len(buf) - 1 ELSE Len(buf)
                             /\ \A j \in 1 .. Len(buf') : buf'[j] = buf[Source(i, j)]
  BY UnsubscribeFacts
<1>4. \A j \in 1 .. size' : buf'[j] = buf[IF j = i THEN size ELSE j]
  <2>1. size' <= Len(buf')
    BY <1>2, <1>3 DEF IInv, ScanInv
  <2>2. \A j \in 1 .. size' : j \in 1 .. Len(buf') /\ j # size
    BY <1>2, <1>3, <2>1
  <2> QED  BY <1>3, <2>2 DEF Source
<1>5. \A j, k \in 1 .. size : buf[j].slot = buf[k].slot => j = k
  BY <1>2 DEF IInv, DistinctInv
<1>6. ASSUME NEW j \in 1 .. size'
      PROVE  \E k \in 1 .. size : buf'[j] = buf[k] /\ buf[k].slot # s
  <2> DEFINE k == IF j = i THEN size ELSE j
  <2>1. k \in 1 .. size /\ k # i
    BY <1>2
  <2>2. buf[k].slot # s
    BY <1>3, <1>5, <2>1
  <2> QED  BY <1>4, <2>1, <2>2
<1>7. ASSUME NEW k \in 1 .. size, buf[k].slot # s
      PROVE  \E j \in 1 .. size' : buf'[j] = buf[k]
  <2> DEFINE j == IF k = size THEN i ELSE k
  <2>1. k # i
    BY <1>3, <1>7
  <2>2. j \in 1 .. size' /\ (IF j = i THEN size ELSE j) = k
    BY <1>2, <2>1
  <2> QED  BY <1>4, <2>2
<1>8. DOMAIN Seen' = DOMAIN Seen \ {s}
  BY <1>1, <1>6, <1>7 DEF SeenMatches
<1>9. \A t \in DOMAIN Seen' : Seen'[t] = Seen[t]
  BY <1>1, <1>6 DEF SeenMatches
<1>10. s \in DOMAIN Seen
  BY <1>1, <1>3 DEF SeenMatches
<1>11. Seen' = [t \in DOMAIN Seen' |-> Seen'[t]]
  BY DEF Seen
<1> QED  BY <1>8, <1>9, <1>10, <1>11 DEF Unsubscribe

\* An element found new is seen, unless it was erased, when nobody's subscription changes.
LEMMA CheckSeen ==
  ASSUME IInv, IInv', Check, seq[buf[it].slot] > buf[it].last
  PROVE  \/ UNCHANGED <<seq, Seen>>
         \/ \E s \in Slots : /\ s \in DOMAIN Seen /\ seq[s] > Seen[s] /\ UNCHANGED seq
                             /\ Seen' = [Seen EXCEPT ![s] = seq[s]]
<1>1. SeenMatches /\ SeenMatches'
  BY SeenFacts, PTL
<1>2. it \in 1 .. Len(buf) /\ size \in 0 .. Len(buf) /\ Len(buf) \in Nat
  <2>1. size \in 0 .. Len(buf) /\ Len(buf) \in Nat /\ it \in Nat
    BY BufFacts, TypeParts DEF IInv, OthersOK
  <2>2. it > 0 /\ end = Len(buf) /\ it <= end
    BY <2>1 DEF IInv, ScanInv, Check
  <2> QED  BY <2>1, <2>2
<1>3. \A j \in 1 .. size : /\ buf'[j].slot = buf[j].slot
                           /\ buf'[j].last = IF j = it THEN seq[buf[it].slot] ELSE buf[j].last
  <2>1. buf' = Checked(it) /\ \A j \in 1 .. size : j \in 1 .. Len(buf)
    BY <1>2 DEF Check
  <2> QED  BY <1>2, <2>1, CheckedFacts DEF IInv
<1>4. UNCHANGED <<seq, size>>
  BY DEF Check
<1>5. Seen' = [t \in DOMAIN Seen' |-> Seen'[t]] /\ Seen = [t \in DOMAIN Seen |-> Seen[t]]
  BY DEF Seen
<1>6. DOMAIN Seen' = DOMAIN Seen
  BY <1>1, <1>3, <1>4 DEF SeenMatches
<1>7. CASE it > size
  <2>1. ASSUME NEW t \in DOMAIN Seen PROVE Seen'[t] = Seen[t]
    <3>1. PICK j \in 1 .. size : buf[j].slot = t
      BY <1>1 DEF SeenMatches
    <3>2. buf'[j].slot = t /\ buf'[j].last = buf[j].last
      BY <1>2, <1>3, <1>7, <3>1
    <3> QED  BY <1>1, <1>4, <3>1, <3>2 DEF SeenMatches
  <2> QED  BY <1>4, <1>5, <1>6, <2>1
<1>8. CASE it <= size
  <2> DEFINE s == buf[it].slot
  <2>1. it \in 1 .. size
    BY <1>2, <1>8
  <2>2. s \in DOMAIN Seen /\ s \in Slots /\ seq[s] > Seen[s]
    BY <1>1, <2>1 DEF SeenMatches
  <2>3. ASSUME NEW t \in DOMAIN Seen PROVE Seen'[t] = IF t = s THEN seq[s] ELSE Seen[t]
    <3>1. PICK j \in 1 .. size : buf[j].slot = t
      BY <1>1 DEF SeenMatches
    <3>2. t = s <=> j = it
      BY <1>2, <2>1, <3>1 DEF IInv, DistinctInv
    <3> QED  BY <1>1, <1>3, <1>4, <3>1, <3>2 DEF SeenMatches
  <2>4. Seen' = [Seen EXCEPT ![s] = seq[s]]
    BY <1>5, <1>6, <2>3
  <2> QED  BY <1>4, <2>2, <2>4
<1> QED  BY <1>2, <1>7, <1>8

\* Freeing the Waiter, and forgetting what is left of erased elements after a scan.
LEMMA FreeSeen ==
  ASSUME IInv, IInv', WaiterFree
  PROVE  Seen' = Subs!NoTargets /\ UNCHANGED seq
<1>1. SeenMatches'
  BY SeenFacts, PTL
<1>2. DOMAIN Seen' = {}
  BY <1>1 DEF SeenMatches, WaiterFree
<1>3. Seen' = [t \in DOMAIN Seen' |-> Seen'[t]]
  BY DEF Seen
<1> QED  BY <1>2, <1>3 DEF WaiterFree, Subs!NoTargets

LEMMA LeaveSeen ==
  ASSUME IInv, IInv', Leave, UNCHANGED size
  PROVE  Seen' = Seen
  BY LeaveFacts, SameSeen

\* Every step of the thread and of the other writer is a step of Subscriptions or leaves
\* the subscriptions and the counters as they are.
LEMMA NextImplements ==
  ASSUME IInv, IInv', [Next]_vars
  PROVE  [Subs!Next]_(Subs!vars)
<1>1. Subs!vars = <<seq, Seen>> /\ Subs!vars' = <<seq', Seen'>>
  BY DEF Subs!vars, Seen
<1>2. ASSUME UNCHANGED <<seq, targets>> PROVE UNCHANGED Subs!vars
  BY <1>1, <1>2, SameSubscriptions
<1>3. ASSUME NEW s \in Slots, seq' = [seq EXCEPT ![s] = @ + 1], UNCHANGED targets
      PROVE  Subs!Next
  <2>1. Seen' = Seen
    BY <1>3 DEF targets, Seen
  <2> QED  BY <1>3, <2>1 DEF Subs!Next, Subs!Count, Seen
<1>4. ASSUME Check PROVE [Subs!Next]_(Subs!vars)
  <2>1. CASE seq[buf[it].slot] > buf[it].last
    <3>1. CASE UNCHANGED <<seq, Seen>>
      BY <1>1, <3>1
    <3>2. CASE \E s \in Slots : /\ s \in DOMAIN Seen /\ seq[s] > Seen[s] /\ UNCHANGED seq
                                /\ Seen' = [Seen EXCEPT ![s] = seq[s]]
      BY <3>2 DEF Subs!Next, Subs!See, Seen
    <3> QED  BY <1>4, <2>1, <3>1, <3>2, CheckSeen
  <2>2. CASE ~(seq[buf[it].slot] > buf[it].last)
    BY <1>2, <1>4, <2>2 DEF Check, targets
  <2> QED  BY <2>1, <2>2
<1>5. ASSUME Callback \/ Return \/ ForEachNewSlot \/ LockSleeps \/ WriteThrows \/ DomainClose
      PROVE  UNCHANGED <<seq, targets>>
  BY <1>5 DEF Callback, Return, ForEachNewSlot, LockSleeps, WriteThrows, DomainClose
<1>6. ASSUME ScanEnds \/ ReadThrows PROVE UNCHANGED Subs!vars
  BY <1>1, <1>6, LeaveSeen DEF ScanEnds, ReadThrows
<1>7. ASSUME Written PROVE Subs!Next
  BY <1>3, <1>7, TypeParts DEF Written, IInv, OthersOK
<1>8. ASSUME WaiterFree PROVE Subs!Next
  BY <1>8, FreeSeen DEF Subs!Next, Subs!Free, Seen
<1>9. ASSUME NEW s \in Slots, ReadLockedView(s) \/ UnlockView(s) \/ CopyToVec(s) \/ WriteSlot(s)
      PROVE  UNCHANGED <<seq, targets>>
  BY <1>9 DEF ReadLockedView, UnlockView, CopyToVec, WriteSlot
<1>10. ASSUME NEW s \in Slots, Subscribe(s) PROVE Subs!Next
  BY <1>10, SubscribeSeen DEF Subs!Next, Subs!Subscribe, Seen
<1>11. ASSUME NEW s \in Slots, Unsubscribe(s) PROVE Subs!Next
  BY <1>11, UnsubscribeSeen DEF Subs!Next, Subs!Unsubscribe, Seen
<1>12. ASSUME NEW s \in Slots, OtherWrites(s) \/ OtherLocks(s) PROVE UNCHANGED <<seq, targets>>
  BY <1>12 DEF OtherWrites, OtherLocks
<1>13. ASSUME NEW s \in Slots, OtherUnlocks(s) PROVE Subs!Next
  BY <1>3, <1>13 DEF OtherUnlocks
<1>14. CASE UNCHANGED vars
  BY <1>2, <1>14 DEF vars
<1> QED
  BY <1>2, <1>4, <1>5, <1>6, <1>7, <1>8, <1>9, <1>10, <1>11, <1>12, <1>13, <1>14
     DEF Next, Step, Call

\* The vector, its swaps, the elements left behind and the iterators on them are, to the
\* Waiter's owner, a set of subscriptions changed by one call at a time.
THEOREM Refinement == Spec => ImplementsSubscriptions
<1>1. Init => Subs!Init
  <2>1. SUFFICES ASSUME Init PROVE Subs!Init
    OBVIOUS
  <2>2. seq = [s \in Slots |-> 0]
    BY <2>1 DEF Init, Zero
  <2>3. {buf[i].slot : i \in 1 .. size} = {}
    BY <2>1 DEF Init
  <2> QED  BY <2>2, <2>3 DEF Subs!Init, Subs!NoTargets
<1>2. IInv /\ IInv' /\ [Next]_vars => [Subs!Next]_(Subs!vars)
  BY NextImplements
<1> QED  BY <1>1, <1>2, Invariance, PTL DEF Spec, ImplementsSubscriptions, Subs!Spec
================================================================================
