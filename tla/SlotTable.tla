------------------------------ MODULE SlotTable ------------------------------
(***************************************************************************)
(* The slot table of a process: ClientDomain::getSlot (client.cc) on a      *)
(* SmallMap (detail/small_map.hpp), and the formatter of ClientDomain, the  *)
(* two functions that take processPrivateMtx_.                              *)
(*                                                                          *)
(* The map is a vector of pairs searched one by one with strcmp.  Its keys  *)
(* are the pointers that the callers passed, not copies of the names: what  *)
(* a key compares equal to is what the caller's buffer holds at that        *)
(* moment.  The warning in keyIsSame asks the callers to keep those buffers *)
(* as they are (KeysStayAlive); Rust's ClientDomain::get_slot (model.rs)    *)
(* frees its buffer when it returns.                                        *)
(*                                                                          *)
(* The formatter takes a read lock of every slot, one by one, while it holds *)
(* the mutex.  Whoever write-locks a slot, in any process, may keep it for   *)
(* ever: its process may die.                                               *)
(***************************************************************************)
EXTENDS Integers, Sequences

CONSTANTS
  Threads,
  Names,          \* what a buffer may hold
  Invalid,        \* the names that throwIfNotValidFileName refuses
  Buffers,        \* the addresses that callers pass names at
  KeysStayAlive,  \* whether callers leave a buffer alone once it is a key
  NoThread,       \* nobody holds the mutex
  MaxCalls        \* bound: calls of getSlot and of the formatter in a behaviour

ASSUME NamesAssumption == Invalid \subseteq Names
ASSUME CallersAssumption ==
  KeysStayAlive \in BOOLEAN /\ NoThread \notin Threads /\ Buffers # {} /\ MaxCalls \in Nat

VARIABLES
  text,     \* [Buffers -> Names]: the string at each address
  items,    \* slots_.items: a sequence of [key, file], the file being the one that is mapped
  locked,   \* the mapped files whose slots somebody, in any process, holds write-locked
  owner,    \* who holds processPrivateMtx_
  pc,       \* where each thread is
  arg,      \* the buffer its getSlot was called with
  at,       \* its iterator, as an index into items
  calls     \* calls so far

vars == <<text, items, locked, owner, pc, arg, at, calls>>

\* The formatter's own are "flock", "format", "asleep" (in the futex of a slot's lock) and
\* "fthrow".
Locations == {"idle", "lock", "find", "open", "insert", "refind", "return", "throw",
              "flock", "format", "asleep", "fthrow"}

NoBuffer == CHOOSE b \in Buffers : TRUE

Init ==
  /\ text \in [Buffers -> Names]
  /\ items = << >>
  /\ locked = {}
  /\ owner = NoThread
  /\ pc    = [t \in Threads |-> "idle"]
  /\ arg   = [t \in Threads |-> NoBuffer]
  /\ at    = [t \in Threads |-> 1]
  /\ calls = 0

Goto(t, l) == pc' = [pc EXCEPT ![t] = l]

Keys == {items[i].key : i \in DOMAIN items}

\* In a call of getSlot.
Getting(t) == pc[t] \in Locations \ {"idle", "flock", "format", "asleep", "fthrow"}

-------------------------------------------------------------------------------
\* SmallMap::find, which getSlot runs three times: "find" for itself, "insert" inside
\* SmallMap::insert, "refind" after the insertion.

\* Wrong variant of KeyIsSame: the pointers are compared.
PointerIsSame(a, b) == a = b

KeyIsSame(a, b) == text[a] = text[b]

\* Wrong variant of Begin: one before the first pair.
BeforeBegin == 0
Begin == 1

AtEnd(t) == at[t] \notin DOMAIN items

Matches(t) == ~AtEnd(t) /\ KeyIsSame(items[at[t]].key, arg[t])

Advance(t) ==
  /\ pc[t] \in {"find", "insert", "refind"}
  /\ ~AtEnd(t) /\ ~Matches(t)
  /\ at' = [at EXCEPT ![t] = @ + 1]
  /\ UNCHANGED <<text, items, locked, owner, pc, arg, calls>>

-------------------------------------------------------------------------------
\* ClientDomain::getSlot

GetSlot(t, b) ==
  /\ pc[t] = "idle" /\ calls < MaxCalls
  /\ Goto(t, "lock")
  /\ arg' = [arg EXCEPT ![t] = b]
  /\ calls' = calls + 1
  /\ UNCHANGED <<text, items, locked, owner, at>>

\* Wrong variant of Available: the mutex does not exclude.
Anytime == TRUE
Available == owner = NoThread

\* The lock_guard, for getSlot and for the formatter.
Lock(t) ==
  /\ pc[t] \in {"lock", "flock"}
  /\ Available
  /\ owner' = t
  /\ at' = [at EXCEPT ![t] = Begin]
  /\ Goto(t, IF pc[t] = "lock" THEN "find" ELSE "format")
  /\ UNCHANGED <<text, items, locked, arg, calls>>

\* A pair with an equal key: getSlot returns its slot, but SmallMap::insert throws "insert()
\* called but key already existed in map".
Found(t) ==
  /\ pc[t] \in {"find", "insert", "refind"} /\ Matches(t)
  /\ Goto(t, IF pc[t] = "insert" THEN "throw" ELSE "return")
  /\ UNCHANGED <<text, items, locked, owner, arg, at, calls>>

\* No such pair: a slot is opened, unless the name is invalid, or the search was the last
\* one, "just created+inserted slot but its missing?".
NotFound(t) ==
  /\ pc[t] \in {"find", "refind"} /\ AtEnd(t)
  /\ Goto(t, IF pc[t] = "refind" \/ text[arg[t]] \in Invalid THEN "throw" ELSE "open")
  /\ UNCHANGED <<text, items, locked, owner, arg, at, calls>>

\* ClientSlot::openOrCreate: a mapping of the file of that name, or an exception.
Open(t) ==
  /\ pc[t] = "open"
  /\ \/ Goto(t, "insert") /\ at' = [at EXCEPT ![t] = Begin]
     \/ Goto(t, "throw") /\ UNCHANGED at
  /\ UNCHANGED <<text, items, locked, owner, arg, calls>>

\* The end of SmallMap::insert.
PushBack(t) ==
  /\ pc[t] = "insert" /\ AtEnd(t)
  /\ items' = Append(items, [key |-> arg[t], file |-> text[arg[t]]])
  /\ at' = [at EXCEPT ![t] = Begin]
  /\ Goto(t, "refind")
  /\ UNCHANGED <<text, locked, owner, arg, calls>>

\* Wrong variant of OwnerAfter: an exception leaves the mutex locked.
KeptOnThrow(t) == IF pc[t] \in {"throw", "fthrow"} THEN owner ELSE NoThread
OwnerAfter(t) == NoThread

\* The lock_guard goes out of scope, on return, exception or the end of the formatter.
Unlock(t) ==
  /\ pc[t] \in {"return", "throw", "fthrow"} \/ (pc[t] = "format" /\ AtEnd(t))
  /\ owner' = OwnerAfter(t)
  /\ Goto(t, "idle")
  /\ UNCHANGED <<text, items, locked, arg, at, calls>>

-------------------------------------------------------------------------------
\* formatter<ClientDomain>::format

Format(t) ==
  /\ pc[t] = "idle" /\ calls < MaxCalls
  /\ Goto(t, "flock")
  /\ calls' = calls + 1
  /\ UNCHANGED <<text, items, locked, owner, arg, at>>

\* formatter<Slot>::format, from a view of the slot: the read lock is taken and given back.
FormatSlot(t) ==
  /\ pc[t] = "format" /\ ~AtEnd(t)
  /\ items[at[t]].file \notin locked
  /\ at' = [at EXCEPT ![t] = @ + 1]
  /\ UNCHANGED <<text, items, locked, owner, pc, arg, calls>>

\* r_lock finds the slot write-locked, and sleeps with processPrivateMtx_ held.
FormatSleeps(t) ==
  /\ pc[t] = "format" /\ ~AtEnd(t)
  /\ items[at[t]].file \in locked
  /\ Goto(t, "asleep")
  /\ UNCHANGED <<text, items, locked, owner, arg, at, calls>>

\* w_unlock woke it, and it tries again.
FormatWakes(t) ==
  /\ pc[t] = "asleep"
  /\ items[at[t]].file \notin locked
  /\ Goto(t, "format")
  /\ UNCHANGED <<text, items, locked, owner, arg, at, calls>>

\* A signal ends the sleep, at any time until the wake: r_lock throws, out of the formatter.
FormatThrows(t) ==
  /\ pc[t] = "asleep"
  /\ Goto(t, "fthrow")
  /\ UNCHANGED <<text, items, locked, owner, arg, at, calls>>

\* Slot::write, by any thread of any process.  (Of a slot that is mapped here: nobody here
\* can tell whether another one is locked.)
OthersLock(f) ==
  /\ f \in {items[i].file : i \in DOMAIN items} \ locked
  /\ locked' = locked \cup {f}
  /\ UNCHANGED <<text, items, owner, pc, arg, at, calls>>

OthersUnlock(f) ==
  /\ f \in locked
  /\ locked' = locked \ {f}
  /\ UNCHANGED <<text, items, owner, pc, arg, at, calls>>

-------------------------------------------------------------------------------
\* The callers' memory: a buffer that no call is using is freed and used for another
\* string, unless it is a key and its owner heeds the warning.
Reuse(b, n) ==
  /\ text[b] # n
  /\ \A t \in Threads : Getting(t) => arg[t] # b
  /\ KeysStayAlive => b \notin Keys
  /\ text' = [text EXCEPT ![b] = n]
  /\ UNCHANGED <<items, locked, owner, pc, arg, at, calls>>

\* What a thread does next inside a call.
Step(t) == \/ Lock(t)
           \/ Advance(t)
           \/ Found(t)
           \/ NotFound(t)
           \/ Open(t)
           \/ PushBack(t)
           \/ FormatSlot(t)
           \/ FormatSleeps(t)
           \/ FormatWakes(t)
           \/ Unlock(t)

Next == \/ \E t \in Threads : \/ \E b \in Buffers : GetSlot(t, b)
                              \/ Format(t)
                              \/ Step(t)
                              \/ FormatThrows(t)
        \/ \E f \in Names \ Invalid : OthersLock(f) \/ OthersUnlock(f)
        \/ \E b \in Buffers, n \in Names : Reuse(b, n)

Spec == Init /\ [][Next]_vars

\* Threads are scheduled; nothing is assumed of new calls and signals, nor of the writers
\* of the slots, which need not ever unlock.
FairSpec == Spec /\ \A t \in Threads : WF_vars(Step(t))

-------------------------------------------------------------------------------
\* Properties

\* The variables have their types.
TypeOK ==
  /\ text \in [Buffers -> Names]
  /\ items \in Seq([key : Buffers, file : Names \ Invalid])
  /\ locked \subseteq Names \ Invalid
  /\ owner \in Threads \cup {NoThread}
  /\ pc \in [Threads -> Locations]
  /\ arg \in [Threads -> Buffers]
  /\ at \in [Threads -> Nat \ {0}]
  /\ calls \in 0 .. MaxCalls

\* While the keys stay alive, neither of getSlot's internal errors happens: the name that
\* was missing is still missing when it is inserted, and is there afterwards.
NoInternalError ==
  \A t \in Threads :
    /\ pc[t] = "insert" => ~Matches(t)
    /\ pc[t] = "refind" => ~AtEnd(t)

\* While the keys stay alive, the table is a directory: one mapping per name whichever
\* buffers its callers use, and the callers get the mappings of their names.
Dir == INSTANCE Directory WITH
         Callers <- Threads,
         table   <- [f \in {items[i].file : i \in DOMAIN items} |->
                       CHOOSE i \in DOMAIN items : items[i].file = f],
         calls   <- {[who |-> t, name |-> text[arg[t]],
                      reply |-> IF pc[t] = "return" THEN at[t] ELSE 0] :
                        t \in {u \in Threads : Getting(u)}}
ImplementsDirectory == Dir!Spec

\* A formatter at a slot that is write-locked.
KeptWaiting(t) ==
  pc[t] \in {"format", "asleep"} /\ ~AtEnd(t) /\ items[at[t]].file \in locked

\* Every call comes back, whatever exceptions and signals there are, unless a formatter,
\* which has the mutex, waits for ever for a slot: one whose writer has died, or that is
\* write-locked again whenever the formatter tries.  Then getSlot of every name hangs, but
\* no slot's lock hangs a getSlot that no formatter is in the way of.  MaxCalls stands for
\* callers that pause at times, a std::mutex not being fair.
EveryCallReturns ==
  \A t \in Threads : \/ pc[t] # "idle" ~> pc[t] = "idle"
                     \/ \E u \in Threads : []<>KeptWaiting(u)

\* What getSlot returns is the slot of the name it was asked for, and not of the name whose
\* buffer was at the same address before.
ReturnsSlotAskedFor ==
  \A t \in Threads : pc[t] = "return" => items[at[t]].file = text[arg[t]]
===============================================================================
