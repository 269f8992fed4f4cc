-------------------------- MODULE OpenOrCreateProofs --------------------------
(***************************************************************************)
(* OpenOrCreate is right for every set of processes, whichever of them die  *)
(* and whichever system calls fail: one process constructs a file, a slot   *)
(* that was opened is constructed and stays so, and its counter only grows. *)
(***************************************************************************)
EXTENDS OpenOrCreate, FiniteSetTheorems, TLAPS

\* From the exclusive create to the last field: the file is the process's to construct.
Making == Constructing \cup {"truncate", "mapNew"}

\* Inside openOrCreate.
InCall == Making \cup {"open", "create", "mapOld", "checkMagic", "checkName"}

\* The processes that counted a message in the slot and not yet in the domain.
Announcers == {p \in Processes : pc[p] = "announce"}

\* O_EXCL: one maker for each file, and none before the file is there.
MakersInv ==
  /\ \A p, q \in Processes :
       (on[p] = on[q] /\ pc[p] \in Making /\ pc[q] \in Making) => p = q
  /\ \A p \in Processes : pc[p] \in Making => file[on[p]] # "absent"

\* How far a header is constructed, by where its maker is; the name comes last, so that
\* nobody is making a slot that has one.
FieldsInv ==
  /\ \A p \in Processes :
       /\ pc[p] \in {"setMtx", "setSeq", "setName"} => magic[on[p]]
       /\ pc[p] \in {"setSeq", "setName"} => mtx[on[p]] = 1
       /\ pc[p] \in {"setName", "checkName"} => on[p] = "slot"
       /\ name["slot"] /\ on[p] = "slot" => pc[p] \notin Making
  /\ name["slot"] => file["slot"] # "absent" /\ magic["slot"] /\ mtx["slot"] = 1

\* A slot is opened through its name, and inside an open domain.
OpenedInv ==
  \A p \in Processes :
    /\ "slot" \in opened[p] => name["slot"]
    /\ pc[p] \in InCall /\ on[p] = "slot" => opened[p] = {"domain"}

\* No message is counted before the slot has its name, and none is counted twice.
CountersInv ==
  /\ ~name["slot"] => seq["slot"] = 0
  /\ seq["slot"] <= writes
  /\ IsFiniteSet(Announcers)
  /\ seq["domain"] + Cardinality(Announcers) <= writes

IInv == TypeOK /\ MakersInv /\ FieldsInv /\ OpenedInv /\ CountersInv

-------------------------------------------------------------------------------
\* One lemma per step: it keeps IInv.

LEMMA OpenOrCreateStep ==
  ASSUME IInv, NEW p \in Processes, NEW f \in Files, OpenOrCreate(p, f)
  PROVE  IInv'
<1>1. TypeOK'
  BY DEF IInv, TypeOK, Locations, Files, OpenOrCreate, Goto, header
<1>2. MakersInv'
  BY DEF IInv, MakersInv, Constructing, Making, OpenOrCreate, Goto
<1>3. FieldsInv'
  BY DEF IInv, FieldsInv, Constructing, Making, Files, OpenOrCreate, Goto, header
<1>4. OpenedInv'
  BY DEF IInv, TypeOK, OpenedInv, Files, OpenOrCreate, Goto, header
<1>5. Announcers' = Announcers
  BY DEF IInv, Announcers, OpenOrCreate, Goto
<1>6. CountersInv'
  BY <1>5 DEF IInv, CountersInv, OpenOrCreate, header
<1> QED  BY <1>1, <1>2, <1>3, <1>4, <1>6 DEF IInv

LEMMA OpenStep ==
  ASSUME IInv, NEW p \in Processes, Open(p)
  PROVE  IInv'
<1>1. TypeOK'
  BY DEF IInv, TypeOK, Locations, Open, Goto, header
<1>2. MakersInv'
  BY DEF IInv, MakersInv, Constructing, Making, Open, Goto
<1>3. FieldsInv'
  BY DEF IInv, FieldsInv, Constructing, Making, Open, Goto, header
<1>4. OpenedInv'
  BY DEF IInv, OpenedInv, InCall, Open, Goto, header
<1>5. Announcers' = Announcers
  BY DEF IInv, Announcers, Open, Goto
<1>6. CountersInv'
  BY <1>5 DEF IInv, CountersInv, Open, header
<1> QED  BY <1>1, <1>2, <1>3, <1>4, <1>6 DEF IInv

\* O_EXCL: only a file that is not there, and so has no maker, gets one.
LEMMA CreateStep ==
  ASSUME IInv, NEW p \in Processes, Create(p)
  PROVE  IInv'
<1>1. TypeOK'
  BY DEF IInv, TypeOK, Locations, Create, Goto, header
<1>2. MakersInv'
  BY DEF IInv, TypeOK, MakersInv, Constructing, Making, Create, Goto
<1>3. FieldsInv'
  BY DEF IInv, TypeOK, FieldsInv, Constructing, Making, Files, Create, Goto, header
<1>4. OpenedInv'
  BY DEF IInv, TypeOK, OpenedInv, InCall, Create, Goto, header
<1>5. Announcers' = Announcers
  BY DEF IInv, TypeOK, Announcers, Create, Goto
<1>6. CountersInv'
  BY <1>5 DEF IInv, CountersInv, Create, header
<1> QED  BY <1>1, <1>2, <1>3, <1>4, <1>6 DEF IInv

LEMMA TruncateStep ==
  ASSUME IInv, NEW p \in Processes, Truncate(p)
  PROVE  IInv'
<1>1. TypeOK'
  BY DEF IInv, TypeOK, Locations, Truncate, Goto, header
<1>2. MakersInv'
  BY DEF IInv, TypeOK, MakersInv, Making, Truncate, Goto
<1>3. FieldsInv'
  BY DEF IInv, TypeOK, FieldsInv, Making, Files, Truncate, Goto, header
<1>4. OpenedInv'
  BY DEF IInv, OpenedInv, Making, InCall, Truncate, Goto, header
<1>5. Announcers' = Announcers
  BY DEF IInv, Announcers, Truncate, Goto
<1>6. CountersInv'
  BY <1>5 DEF IInv, CountersInv, Truncate, header
<1> QED  BY <1>1, <1>2, <1>3, <1>4, <1>6 DEF IInv

LEMMA MapStep ==
  ASSUME IInv, NEW p \in Processes, Map(p)
  PROVE  IInv'
<1>1. TypeOK'
  BY DEF IInv, TypeOK, Locations, Constructing, Map, Goto, header, Die
<1>2. MakersInv'
  BY DEF IInv, TypeOK, MakersInv, Constructing, Making, Map, Goto, Die
<1>3. FieldsInv'
  BY DEF IInv, TypeOK, FieldsInv, Constructing, Making, Map, Goto, header, Die
<1>4. OpenedInv'
  BY DEF IInv, TypeOK, OpenedInv, Constructing, Making, InCall, Map, Goto, header, Die
<1>5. Announcers' = Announcers
  BY DEF IInv, TypeOK, Announcers, Map, Goto, Die
<1>6. CountersInv'
  BY <1>5 DEF IInv, CountersInv, Map, header
<1> QED  BY <1>1, <1>2, <1>3, <1>4, <1>6 DEF IInv

LEMMA SetMagicStep ==
  ASSUME IInv, NEW p \in Processes, SetMagic(p)
  PROVE  IInv'
<1>1. TypeOK'
  <2>1. CASE file[on[p]] = "sized"
    <3>1. magic' \in [Files -> BOOLEAN]
      BY <2>1 DEF IInv, TypeOK, SetMagic
    <3>2. pc' \in [Processes -> Locations]
      BY <2>1 DEF IInv, TypeOK, Locations, Constructing, SetMagic, Goto
    <3> QED  BY <2>1, <3>1, <3>2 DEF IInv, TypeOK, SetMagic
  <2>2. CASE file[on[p]] # "sized"
    BY <2>2 DEF IInv, TypeOK, Locations, SetMagic, Goto, Die
  <2> QED  BY <2>1, <2>2
<1>2. MakersInv'
  BY DEF IInv, TypeOK, MakersInv, Constructing, Making, SetMagic, Goto, Die
<1>3. FieldsInv'
  BY DEF IInv, TypeOK, FieldsInv, Constructing, Making, Files, SetMagic, Goto, Die
<1>4. OpenedInv'
  BY DEF IInv, TypeOK, OpenedInv, Constructing, Making, InCall, SetMagic, Goto, Die
<1>5. Announcers' = Announcers
  BY DEF IInv, TypeOK, Announcers, SetMagic, Goto, Die
<1>6. CountersInv'
  BY <1>5 DEF IInv, CountersInv, SetMagic
<1> QED  BY <1>1, <1>2, <1>3, <1>4, <1>6 DEF IInv

LEMMA SetMtxStep ==
  ASSUME IInv, NEW p \in Processes, SetMtx(p)
  PROVE  IInv'
<1>1. TypeOK'
  BY DEF IInv, TypeOK, Locations, Constructing, SetMtx, Goto
<1>2. MakersInv'
  BY DEF IInv, MakersInv, Constructing, Making, SetMtx, Goto
<1>3. FieldsInv'
  BY DEF IInv, TypeOK, FieldsInv, Constructing, Making, SetMtx, Goto
<1>4. OpenedInv'
  BY DEF IInv, OpenedInv, Constructing, Making, InCall, SetMtx, Goto
<1>5. Announcers' = Announcers
  BY DEF IInv, Announcers, SetMtx, Goto
<1>6. CountersInv'
  BY <1>5 DEF IInv, CountersInv, SetMtx
<1> QED  BY <1>1, <1>2, <1>3, <1>4, <1>6 DEF IInv

LEMMA SetSeqStep ==
  ASSUME IInv, NEW p \in Processes, SetSeq(p)
  PROVE  IInv'
<1>1. TypeOK'
  BY ProcessesAssumption DEF IInv, TypeOK, Locations, Constructing, SetSeq, Goto
<1>2. MakersInv'
  BY DEF IInv, MakersInv, Constructing, Making, SetSeq, Goto
<1>3. FieldsInv'
  BY DEF IInv, FieldsInv, Constructing, Making, SetSeq, Goto
<1>4. OpenedInv'
  BY DEF IInv, OpenedInv, Constructing, Making, InCall, SetSeq, Goto
<1>5. Announcers' = Announcers
  BY DEF IInv, Announcers, SetSeq, Goto
<1>6. CountersInv'
  <2>1. on[p] = "slot" => ~name["slot"] /\ seq["slot"] = 0
    BY DEF IInv, FieldsInv, CountersInv, Making, Constructing, SetSeq
  <2>2. seq'["slot"] = seq["slot"]
    BY <2>1 DEF IInv, SetSeq
  <2>3. seq'["domain"] <= seq["domain"] /\ seq'["domain"] \in Nat /\ seq["domain"] \in Nat
    BY ProcessesAssumption DEF IInv, TypeOK, SetSeq, Files
  <2>4. Cardinality(Announcers) \in Nat /\ writes \in Nat
    BY FS_CardinalityType, ProcessesAssumption DEF IInv, TypeOK, CountersInv
  <2> QED  BY <1>5, <2>2, <2>3, <2>4 DEF IInv, CountersInv, SetSeq
<1> QED  BY <1>1, <1>2, <1>3, <1>4, <1>6 DEF IInv

LEMMA SetNameStep ==
  ASSUME IInv, NEW p \in Processes, SetName(p)
  PROVE  IInv'
<1>1. TypeOK'
  BY DEF IInv, TypeOK, Locations, SetName, Goto
<1>2. MakersInv'
  BY DEF IInv, MakersInv, Constructing, Making, SetName, Goto
<1>3. FieldsInv'
  BY DEF IInv, TypeOK, MakersInv, FieldsInv, Constructing, Making, SetName, Goto
<1>4. OpenedInv'
  BY DEF IInv, OpenedInv, Constructing, Making, InCall, SetName, Goto
<1>5. Announcers' = Announcers
  BY DEF IInv, Announcers, SetName, Goto
<1>6. CountersInv'
  BY <1>5 DEF IInv, CountersInv, SetName
<1> QED  BY <1>1, <1>2, <1>3, <1>4, <1>6 DEF IInv

LEMMA CheckMagicStep ==
  ASSUME IInv, NEW p \in Processes, CheckMagic(p)
  PROVE  IInv'
<1>1. TypeOK'
  BY DEF IInv, TypeOK, Locations, Files, CheckMagic, Goto, header, Die, Succeed
<1>2. MakersInv'
  BY DEF IInv, TypeOK, MakersInv, Constructing, Making, CheckMagic, Goto, Die, Succeed
<1>3. FieldsInv'
  BY DEF IInv, TypeOK, FieldsInv, Constructing, Making, CheckMagic, Goto, header, Die, Succeed
<1>4. OpenedInv'
  BY DEF IInv, TypeOK, OpenedInv, Constructing, Making, InCall, CheckMagic, Goto, header, Die,
         Succeed
<1>5. Announcers' = Announcers
  BY DEF IInv, TypeOK, Announcers, CheckMagic, Goto, Die, Succeed
<1>6. CountersInv'
  BY <1>5 DEF IInv, CountersInv, CheckMagic, header
<1> QED  BY <1>1, <1>2, <1>3, <1>4, <1>6 DEF IInv

LEMMA CheckNameStep ==
  ASSUME IInv, NEW p \in Processes, CheckName(p)
  PROVE  IInv'
<1>1. TypeOK'
  BY DEF IInv, TypeOK, OpenedInv, Locations, InCall, Files, CheckName, Goto, header, Succeed
<1>2. MakersInv'
  BY DEF IInv, TypeOK, MakersInv, Constructing, Making, CheckName, Goto, Succeed
<1>3. FieldsInv'
  BY DEF IInv, TypeOK, FieldsInv, Constructing, Making, CheckName, Goto, header, Succeed
<1>4. OpenedInv'
  BY DEF IInv, TypeOK, OpenedInv, Constructing, Making, InCall, CheckName, Goto, header,
         Succeed
<1>5. Announcers' = Announcers
  BY DEF IInv, TypeOK, Announcers, CheckName, Goto, Succeed
<1>6. CountersInv'
  BY <1>5 DEF IInv, CountersInv, CheckName, header
<1> QED  BY <1>1, <1>2, <1>3, <1>4, <1>6 DEF IInv

LEMMA CloseStep ==
  ASSUME IInv, NEW p \in Processes, Close(p)
  PROVE  IInv'
<1>1. TypeOK'
  BY DEF IInv, TypeOK, Close, header
<1>2. MakersInv'
  BY DEF IInv, MakersInv, Close
<1>3. FieldsInv'
  BY DEF IInv, FieldsInv, Close, header
<1>4. OpenedInv'
  BY DEF IInv, OpenedInv, Constructing, Making, InCall, Close, header
<1>5. Announcers' = Announcers
  BY DEF IInv, Announcers, Close
<1>6. CountersInv'
  BY <1>5 DEF IInv, CountersInv, Close, header
<1> QED  BY <1>1, <1>2, <1>3, <1>4, <1>6 DEF IInv

\* A write adds a message to the slot's counter and a process to the announcers.
LEMMA WriteStep ==
  ASSUME IInv, NEW p \in Processes, Write(p)
  PROVE  IInv'
<1>1. seq["slot"] \in 0 .. writes /\ writes \in Nat /\ writes < MaxWrites /\ MaxWrites \in Nat
  BY ProcessesAssumption DEF IInv, TypeOK, CountersInv, Write, Files
<1>2. /\ seq'["slot"] = seq["slot"] + 1 /\ seq'["domain"] = seq["domain"]
      /\ writes' = writes + 1
  BY DEF IInv, TypeOK, Write, Files
<1>3. TypeOK'
  BY <1>1 DEF IInv, TypeOK, Write, Goto, Locations, Files
<1>4. MakersInv' /\ FieldsInv' /\ OpenedInv'
  BY DEF IInv, MakersInv, FieldsInv, OpenedInv, Constructing, Making, InCall, Write, Goto
<1>5. CountersInv'
  <2>1. Announcers' = Announcers \cup {p} /\ p \notin Announcers
    BY DEF IInv, TypeOK, Announcers, Write, Goto
  <2>2. /\ IsFiniteSet(Announcers)' /\ Cardinality(Announcers') = Cardinality(Announcers) + 1
        /\ Cardinality(Announcers) \in Nat
    BY <2>1, FS_AddElement, FS_CardinalityType DEF IInv, CountersInv
  <2>3. name' = name /\ name["slot"]
    BY DEF IInv, OpenedInv, Write, Files
  <2> QED
    BY <1>1, <1>2, <2>2, <2>3, ProcessesAssumption DEF IInv, TypeOK, CountersInv, Files
<1> QED  BY <1>3, <1>4, <1>5 DEF IInv

\* An announcement adds a message to the domain's counter and takes an announcer away.
LEMMA AnnounceStep ==
  ASSUME IInv, NEW p \in Processes, Announce(p)
  PROVE  IInv'
<1>1. Announcers' = Announcers \ {p} /\ p \in Announcers
  BY DEF IInv, TypeOK, Announcers, Announce, Goto
<1>2. /\ IsFiniteSet(Announcers)' /\ Cardinality(Announcers') = Cardinality(Announcers) - 1
      /\ Cardinality(Announcers) \in Nat /\ Cardinality(Announcers') \in Nat
  BY <1>1, FS_RemoveElement, FS_CardinalityType DEF IInv, CountersInv
<1>3. seq["domain"] \in Nat /\ writes \in 0 .. MaxWrites /\ MaxWrites \in Nat
  BY ProcessesAssumption DEF IInv, TypeOK, Files
<1>4. seq'["slot"] = seq["slot"] /\ seq'["domain"] = seq["domain"] + 1
  BY DEF IInv, TypeOK, Announce, Files
<1>5. CountersInv'
  BY <1>2, <1>3, <1>4 DEF IInv, CountersInv, Announce
<1>6. seq'["domain"] \in 0 .. MaxWrites
  BY <1>2, <1>3, <1>4, <1>5 DEF CountersInv, Announce
<1>7. TypeOK'
  BY <1>4, <1>6 DEF IInv, TypeOK, Announce, Goto, Locations
<1>8. MakersInv' /\ FieldsInv' /\ OpenedInv'
  BY DEF IInv, MakersInv, FieldsInv, OpenedInv, Constructing, Making, InCall, Announce, Goto
<1> QED  BY <1>5, <1>7, <1>8 DEF IInv

\* The dead leave their files as they are, and the messages they did not announce.
LEMMA CrashStep ==
  ASSUME IInv, NEW p \in Processes, Crash(p)
  PROVE  IInv'
<1>1. TypeOK' /\ MakersInv' /\ FieldsInv' /\ OpenedInv'
  BY DEF IInv, TypeOK, MakersInv, FieldsInv, OpenedInv, Locations, Constructing, Making,
         InCall, Crash, Die, Goto, header
<1>2. Announcers' \in SUBSET Announcers
  BY DEF IInv, Announcers, Crash, Die, Goto
<1>3. /\ IsFiniteSet(Announcers)' /\ Cardinality(Announcers') <= Cardinality(Announcers)
      /\ Cardinality(Announcers) \in Nat /\ Cardinality(Announcers') \in Nat
  BY <1>2, FS_Subset, FS_CardinalityType DEF IInv, CountersInv
<1>4. CountersInv'
  BY <1>3, ProcessesAssumption DEF IInv, TypeOK, CountersInv, Crash, Files, header
<1> QED  BY <1>1, <1>4 DEF IInv

LEMMA InitInv == Init => IInv
<1> SUFFICES ASSUME Init PROVE IInv
  OBVIOUS
<1>1. Announcers = {}
  BY DEF Init, Announcers
<1>2. CountersInv
  BY <1>1, FS_EmptySet DEF Init, CountersInv, Files
<1>3. TypeOK
  BY ProcessesAssumption DEF Init, TypeOK, Locations, Files
<1>4. MakersInv /\ FieldsInv /\ OpenedInv
  BY DEF Init, MakersInv, FieldsInv, OpenedInv, Constructing, Making, Files
<1> QED  BY <1>2, <1>3, <1>4 DEF IInv

LEMMA NextInv == IInv /\ [Next]_vars => IInv'
<1> SUFFICES ASSUME IInv, [Next]_vars PROVE IInv'
  OBVIOUS
<1>1. ASSUME NEW p \in Processes, NEW f \in Files, OpenOrCreate(p, f) PROVE IInv'
  BY <1>1, OpenOrCreateStep
<1>2. ASSUME NEW p \in Processes, Step(p) PROVE IInv'
  BY <1>2, OpenStep, CreateStep, TruncateStep, MapStep, SetMagicStep, SetMtxStep, SetSeqStep,
     SetNameStep, CheckMagicStep, CheckNameStep, AnnounceStep DEF Step
<1>3. ASSUME NEW p \in Processes, Write(p) \/ Close(p) \/ Crash(p) PROVE IInv'
  BY <1>3, WriteStep, CloseStep, CrashStep
<1>4. CASE UNCHANGED vars
  BY <1>4 DEF vars, header, IInv, TypeOK, MakersInv, FieldsInv, OpenedInv, CountersInv,
              Announcers
<1> QED  BY <1>1, <1>2, <1>3, <1>4 DEF Next

-------------------------------------------------------------------------------
\* The inductive invariant holds in every state.
THEOREM Invariance == Spec => []IInv
  BY InitInv, NextInv, PTL DEF Spec

\* The variables have their types; in particular neither counter counts more messages
\* than were written, whoever dies between the two.
THEOREM TypeCorrect == Spec => []TypeOK
<1>1. IInv => TypeOK
  BY DEF IInv
<1> QED  BY <1>1, Invariance, PTL

\* However many processes race for a file, one constructs its header.
THEOREM CreationIsExclusive == Spec => []OneConstructor
<1>1. IInv => OneConstructor
  BY DEF IInv, MakersInv, OneConstructor, Making
<1> QED  BY <1>1, Invariance, PTL

\* A slot that passed the checks of ClientSlot::openOrCreate is constructed, and nobody
\* is constructing it again.
THEOREM OpenSlotsAreUsable == Spec => []OpenSlotIsConstructed
<1>1. IInv => OpenSlotIsConstructed
  BY DEF IInv, FieldsInv, OpenedInv, OpenSlotIsConstructed, Constructed, Making
<1> QED  BY <1>1, Invariance, PTL

\* What a step does to the slot's counter: the construction sets it to the 0 it has, a
\* write adds one.
LEMMA SlotSeqStep == IInv /\ [Next]_vars => seq'["slot"] >= seq["slot"]
<1> SUFFICES ASSUME IInv, [Next]_vars PROVE seq'["slot"] >= seq["slot"]
  OBVIOUS
<1>1. seq["slot"] \in Nat
  BY ProcessesAssumption DEF IInv, TypeOK, Files
<1>2. ASSUME NEW p \in Processes, SetSeq(p) PROVE seq'["slot"] = seq["slot"]
  BY <1>2 DEF IInv, FieldsInv, CountersInv, Making, Constructing, SetSeq
<1>3. ASSUME NEW p \in Processes, Write(p) PROVE seq'["slot"] = seq["slot"] + 1
  BY <1>3 DEF IInv, TypeOK, Write, Files
<1>4. ASSUME NEW p \in Processes, Announce(p) PROVE seq'["slot"] = seq["slot"]
  BY <1>4 DEF IInv, Announce
<1>5. ASSUME NEW p \in Processes, Step(p), ~SetSeq(p), ~Announce(p) PROVE seq' = seq
  BY <1>5 DEF Step, Open, Create, Truncate, Map, SetMagic, SetMtx, SetName, CheckMagic,
              CheckName, header
<1>6. ASSUME NEW p \in Processes, NEW f \in Files, OpenOrCreate(p, f) \/ Close(p) \/ Crash(p)
      PROVE  seq' = seq
  BY <1>6 DEF OpenOrCreate, Close, Crash, header
<1>7. CASE UNCHANGED vars
  BY <1>1, <1>7 DEF vars, header
<1> QED  BY <1>1, <1>2, <1>3, <1>4, <1>5, <1>6, <1>7 DEF Next, Files

\* No message counted in a slot is ever forgotten, whoever opens it again, and whichever
\* process died while it constructed or wrote it.
THEOREM SlotCounterCountsUp == Spec => SlotSeqCountsUp
  BY Invariance, SlotSeqStep, PTL DEF Spec, SlotSeqCountsUp
===============================================================================
