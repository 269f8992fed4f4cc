---------------------------- MODULE Subscriptions ----------------------------
(***************************************************************************)
(* What a Waiter promises about its targets: a set of slots, each with the  *)
(* counter value that its owner has seen last, changed by one call at a     *)
(* time and never behind the owner's back.                                  *)
(***************************************************************************)
EXTENDS Naturals

CONSTANT Slots

VARIABLES
  seq,   \* the slots' sequence counters
  seen   \* the value last seen of each subscribed slot: a function from those slots

vars == <<seq, seen>>

NoTargets == [s \in {} |-> 0]

Init == seq = [s \in Slots |-> 0] /\ seen = NoTargets

Count(s) == seq' = [seq EXCEPT ![s] = @ + 1] /\ UNCHANGED seen

Subscribe(s) ==
  /\ s \notin DOMAIN seen
  /\ seen' = [t \in DOMAIN seen \cup {s} |-> IF t = s THEN seq[s] ELSE seen[t]]
  /\ UNCHANGED seq

Unsubscribe(s) ==
  /\ s \in DOMAIN seen
  /\ seen' = [t \in DOMAIN seen \ {s} |-> seen[t]]
  /\ UNCHANGED seq

See(s) ==
  /\ s \in DOMAIN seen /\ seq[s] > seen[s]
  /\ seen' = [seen EXCEPT ![s] = seq[s]]
  /\ UNCHANGED seq

Free == seen' = NoTargets /\ UNCHANGED seq

Next == Free \/ \E s \in Slots : Count(s) \/ Subscribe(s) \/ Unsubscribe(s) \/ See(s)

Spec == Init /\ [][Next]_vars
===============================================================================
