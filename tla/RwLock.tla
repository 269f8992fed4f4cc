-------------------------------- MODULE RwLock --------------------------------
(***************************************************************************)
(* What babus' RwMutex promises to its callers, with no word about atomics  *)
(* or futexes: any number of readers or one writer, acquired in one step.   *)
(* A client that crashes while it holds the lock simply never releases it.  *)
(* RwMutex implements this specification; Channel takes its slot locks      *)
(* from it.                                                                 *)
(***************************************************************************)

CONSTANT Clients    \* whoever may lock: one element per outstanding lock call

VARIABLES readers,  \* the clients that hold the lock shared
          writers   \* the clients that hold it exclusively

lockVars == <<readers, writers>>

Init == readers = {} /\ writers = {}

AcquireRead(c) ==
  /\ c \notin readers
  /\ writers = {}
  /\ readers' = readers \cup {c}
  /\ UNCHANGED writers

AcquireWrite(c) ==
  /\ writers = {} /\ readers = {}
  /\ writers' = {c}
  /\ UNCHANGED readers

ReleaseRead(c) ==
  /\ c \in readers
  /\ readers' = readers \ {c}
  /\ UNCHANGED writers

ReleaseWrite(c) ==
  /\ c \in writers
  /\ writers' = writers \ {c}
  /\ UNCHANGED readers

Next == \E c \in Clients : \/ AcquireRead(c)
                           \/ AcquireWrite(c)
                           \/ ReleaseRead(c)
                           \/ ReleaseWrite(c)

Spec == Init /\ [][Next]_lockVars
===============================================================================
