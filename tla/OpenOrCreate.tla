----------------------------- MODULE OpenOrCreate -----------------------------
(***************************************************************************)
(* How processes come to share a domain and a slot: MmapBuilder::build      *)
(* (fs/mmap.cc) and the two openOrCreate functions (client.cc), over files  *)
(* in /dev/shm that outlive every process.                                  *)
(*                                                                          *)
(* A process opens the domain's file, then the slot's, and then writes.     *)
(* Whoever finds a file missing creates it, gives it its size and           *)
(* constructs its header in place, field by field; whoever finds it there   *)
(* maps it and checks the header.  Nothing orders the two but the order of  *)
(* the fields.                                                              *)
(***************************************************************************)
EXTENDS Integers, FiniteSets

CONSTANTS
  Processes,
  MaxWrites,   \* bound: messages written in a behaviour
  MayCrash,    \* processes that may die at any point
  MayFail      \* processes whose ftruncate, mmap and close may fail

ASSUME ProcessesAssumption ==
  MayCrash \subseteq Processes /\ MayFail \subseteq Processes /\ MaxWrites \in Nat

Files == {"domain", "slot"}

VARIABLES
  file,     \* [Files -> {"absent", "empty", "sized"}]: before open, before ftruncate, after
  magic,    \* whether a file's header has its magic number: zero bytes have not
  mtx,      \* the header's lock word, 0 (locked!) in a fresh file
  name,     \* whether the header has its name
  seq,      \* the header's sequence counter
  pc,       \* where each process is
  on,       \* the file it is opening
  opened,   \* the files it has opened
  writes    \* messages written so far

header == <<magic, mtx, name, seq>>
vars   == <<file, header, pc, on, opened, writes>>

\* Constructing a header, in the order of its fields.
Constructing == {"setMagic", "setMtx", "setSeq", "setName"}
Locations == Constructing \cup
  {"idle", "open", "create", "truncate", "mapNew", "mapOld", "checkMagic", "checkName",
   "announce", "failed", "dead"}

Init ==
  /\ file   = [f \in Files |-> "absent"]
  /\ magic  = [f \in Files |-> FALSE]
  /\ mtx    = [f \in Files |-> 0]
  /\ name   = [f \in Files |-> FALSE]
  /\ seq    = [f \in Files |-> 0]
  /\ pc     = [p \in Processes |-> "idle"]
  /\ on     = [p \in Processes |-> "domain"]
  /\ opened = [p \in Processes |-> {}]
  /\ writes = 0

Goto(p, l) == pc' = [pc EXCEPT ![p] = l]

Die(p) == Goto(p, "dead") /\ opened' = [opened EXCEPT ![p] = {}]

-------------------------------------------------------------------------------
\* The domain first, then getSlot.  A call that threw may be made again.
OpenOrCreate(p, f) ==
  /\ pc[p] \in {"idle", "failed"}
  /\ f \notin opened[p] /\ (f = "slot" => "domain" \in opened[p])
  /\ on' = [on EXCEPT ![p] = f]
  /\ Goto(p, "open")
  /\ UNCHANGED <<file, header, opened, writes>>

\* Wrong variant of Open: does not try to open an existing file first.
OpenNothing(p) ==
  /\ pc[p] = "open"
  /\ Goto(p, "create")
  /\ UNCHANGED <<file, header, on, opened, writes>>

\* open(O_RDWR); an existing file is mapped as it is.
Open(p) ==
  /\ pc[p] = "open"
  /\ Goto(p, IF file[on[p]] = "absent" THEN "create" ELSE "mapOld")
  /\ UNCHANGED <<file, header, on, opened, writes>>

\* Wrong variant of Create: O_CREAT without O_EXCL.
CreateShared(p) ==
  /\ pc[p] = "create"
  /\ file' = [file EXCEPT ![on[p]] = IF @ = "absent" THEN "empty" ELSE @]
  /\ Goto(p, "truncate")
  /\ UNCHANGED <<header, on, opened, writes>>

\* open(O_RDWR | O_CREAT | O_EXCL): throws if somebody else was faster.
Create(p) ==
  /\ pc[p] = "create"
  /\ IF file[on[p]] = "absent"
     THEN file' = [file EXCEPT ![on[p]] = "empty"] /\ Goto(p, "truncate")
     ELSE Goto(p, "failed") /\ UNCHANGED file
  /\ UNCHANGED <<header, on, opened, writes>>

\* ftruncate, whose result nobody looks at.
Truncate(p) ==
  /\ pc[p] = "truncate"
  /\ \/ file' = [file EXCEPT ![on[p]] = "sized"]
     \/ p \in MayFail /\ UNCHANGED file
  /\ Goto(p, "mapNew")
  /\ UNCHANGED <<header, on, opened, writes>>

\* mmap and close.  A failed close throws.  A failed mmap returns MAP_FAILED, not the 0
\* that build compares with: the process dies in the alignment assertion or, built
\* without it, in its first access.
Map(p) ==
  /\ pc[p] \in {"mapNew", "mapOld"}
  /\ \/ /\ Goto(p, IF pc[p] = "mapNew" THEN "setMagic" ELSE "checkMagic")
        /\ UNCHANGED opened
     \/ p \in MayFail /\ Goto(p, "failed") /\ UNCHANGED opened
     \/ p \in MayFail /\ Die(p)
  /\ UNCHANGED <<file, header, on, writes>>

-------------------------------------------------------------------------------
\* Placement new of Domain or Slot, and the memcpy of a slot's name

\* Touching a mapping beyond the end of its file kills the process (SIGBUS).
SetMagic(p) ==
  /\ pc[p] = "setMagic"
  /\ IF file[on[p]] = "sized"
     THEN magic' = [magic EXCEPT ![on[p]] = TRUE] /\ Goto(p, "setMtx") /\ UNCHANGED opened
     ELSE Die(p) /\ UNCHANGED magic
  /\ UNCHANGED <<file, mtx, name, seq, on, writes>>

SetMtx(p) ==
  /\ pc[p] = "setMtx"
  /\ mtx' = [mtx EXCEPT ![on[p]] = 1]
  /\ Goto(p, "setSeq")
  /\ UNCHANGED <<file, magic, name, seq, on, opened, writes>>

SetSeq(p) ==
  /\ pc[p] = "setSeq"
  /\ seq' = [seq EXCEPT ![on[p]] = 0]
  /\ Goto(p, IF on[p] = "slot" THEN "setName" ELSE "checkMagic")
  /\ UNCHANGED <<file, magic, mtx, name, on, opened, writes>>

SetName(p) ==
  /\ pc[p] = "setName"
  /\ name' = [name EXCEPT ![on[p]] = TRUE]
  /\ Goto(p, "checkMagic")
  /\ UNCHANGED <<file, magic, mtx, seq, on, opened, writes>>

-------------------------------------------------------------------------------
\* The checks of openOrCreate, on one's own header or somebody else's

Succeed(p) ==
  /\ Goto(p, "idle")
  /\ opened' = [opened EXCEPT ![p] = @ \cup {on[p]}]

CheckMagic(p) ==
  /\ pc[p] = "checkMagic"
  /\ CASE file[on[p]] = "empty"                    -> Die(p)
       [] file[on[p]] = "sized" /\ ~magic[on[p]]   -> Goto(p, "failed") /\ UNCHANGED opened
       [] OTHER -> IF on[p] = "slot" THEN Goto(p, "checkName") /\ UNCHANGED opened
                                     ELSE Succeed(p)
  /\ UNCHANGED <<file, header, on, writes>>

\* Wrong variant of CheckName: the magic number is enough.
TrustMagic(p) ==
  /\ pc[p] = "checkName"
  /\ Succeed(p)
  /\ UNCHANGED <<file, header, on, writes>>

CheckName(p) ==
  /\ pc[p] = "checkName"
  /\ IF name[on[p]] THEN Succeed(p) ELSE Goto(p, "failed") /\ UNCHANGED opened
  /\ UNCHANGED <<file, header, on, writes>>

-------------------------------------------------------------------------------
\* Using the files, and leaving them

\* Slot::write, as far as the headers are concerned: the slot's counter, then the domain's.
Write(p) ==
  /\ pc[p] = "idle" /\ opened[p] = Files
  /\ writes < MaxWrites
  /\ writes' = writes + 1
  /\ seq' = [seq EXCEPT !["slot"] = @ + 1]
  /\ Goto(p, "announce")
  /\ UNCHANGED <<file, magic, mtx, name, on, opened>>

Announce(p) ==
  /\ pc[p] = "announce"
  /\ seq' = [seq EXCEPT !["domain"] = @ + 1]
  /\ Goto(p, "idle")
  /\ UNCHANGED <<file, magic, mtx, name, on, opened, writes>>

\* Wrong variant of Close: the domain's mapping goes, its slots' stay.
CloseDomainOnly(p) ==
  /\ pc[p] = "idle" /\ opened[p] # {}
  /\ opened' = [opened EXCEPT ![p] = @ \ {"domain"}]
  /\ UNCHANGED <<file, header, pc, on, writes>>

\* The ClientDomain is destroyed, with the ClientSlots it owns: everything is unmapped,
\* the files stay.
Close(p) ==
  /\ pc[p] = "idle" /\ opened[p] # {}
  /\ opened' = [opened EXCEPT ![p] = {}]
  /\ UNCHANGED <<file, header, pc, on, writes>>

Crash(p) ==
  /\ p \in MayCrash /\ pc[p] # "dead"
  /\ Die(p)
  /\ UNCHANGED <<file, header, on, writes>>

\* What a process does next inside a call.
Step(p) == \/ Open(p)
           \/ Create(p)
           \/ Truncate(p)
           \/ Map(p)
           \/ SetMagic(p)
           \/ SetMtx(p)
           \/ SetSeq(p)
           \/ SetName(p)
           \/ CheckMagic(p)
           \/ CheckName(p)
           \/ Announce(p)

Next == \E p \in Processes : \/ \E f \in Files : OpenOrCreate(p, f)
                             \/ Step(p)
                             \/ Write(p)
                             \/ Close(p)
                             \/ Crash(p)

Spec == Init /\ [][Next]_vars

\* A live process finishes the call it is in.
Fairness == \A p \in Processes : WF_vars(Step(p))

FairSpec == Spec /\ Fairness

-------------------------------------------------------------------------------
\* Properties

\* Every field of the header has its value.
Constructed(f) == magic[f] /\ mtx[f] = 1 /\ (f = "slot" => name[f])

\* The variables have their types, and a slot is open only while its domain is.
TypeOK ==
  /\ file \in [Files -> {"absent", "empty", "sized"}]
  /\ magic \in [Files -> BOOLEAN] /\ name \in [Files -> BOOLEAN]
  /\ mtx \in [Files -> {0, 1}]
  /\ seq \in [Files -> 0 .. MaxWrites]
  /\ pc \in [Processes -> Locations]
  /\ on \in [Processes -> Files]
  /\ opened \in [Processes -> {{}, {"domain"}, Files}]
  /\ writes \in 0 .. MaxWrites

\* However many processes race to create a file, one constructs it.
OneConstructor ==
  \A p, q \in Processes :
    (on[p] = on[q] /\ pc[p] \in Constructing /\ pc[q] \in Constructing) => p = q

\* A process that got through the checks of ClientSlot::openOrCreate has a slot whose
\* header is constructed to the last field, though its creator may be at any point of
\* its own call or dead: the lock works and the counter will not be reset.  It is the
\* name, written last and checked last, that makes this true.
OpenSlotIsConstructed ==
  \A p \in Processes :
    "slot" \in opened[p] =>
      /\ Constructed("slot")
      /\ \A q \in Processes : on[q] = "slot" => pc[q] \notin Constructing

\* The slot's counter only counts up: no message counted is ever forgotten.
SlotSeqCountsUp == [][seq'["slot"] >= seq["slot"]]_vars

\* Opening a file that somebody has finished constructing succeeds, whatever became of
\* the processes that failed to open it before.
OpenOfConstructedSucceeds ==
  \A p \in Processes \ MayFail :
    (pc[p] = "open" /\ Constructed(on[p])) ~> (on[p] \in opened[p] \/ pc[p] = "dead")

-------------------------------------------------------------------------------
\* What the documentation says and the code does not do

\* "A 32-bit sequence counter counts up": the domain's too.
DomainSeqCountsUp == [][seq'["domain"] >= seq["domain"]]_vars
===============================================================================
