------------------------------- MODULE Mailbox -------------------------------
(***************************************************************************)
(* What a set of babus slots promises its users, with no word about locks,  *)
(* copies or counters: each slot holds its latest message, messages of a    *)
(* slot are published one after the other, and a view shows the message     *)
(* that was current when it was opened and pins it until it is closed.      *)
(* Channel implements this specification.                                   *)
(***************************************************************************)
EXTENDS Naturals

CONSTANTS Slots, Viewers, Lengths

VARIABLES
  current,   \* the latest message of each slot: [ver, len]
  views      \* the open views: [who, slot, msg]

mailboxVars == <<current, views>>

\* A slot that was never written holds no bytes.
Nothing == [ver |-> 0, len |-> 0]

Init ==
  /\ current = [s \in Slots |-> Nothing]
  /\ views = {}

\* The next message of s; nobody may be looking at the one it replaces.
Publish(s, l) ==
  /\ \A v \in views : v.slot # s
  /\ current' = [current EXCEPT ![s] = [ver |-> @.ver + 1, len |-> l]]
  /\ UNCHANGED views

Open(w, s) ==
  /\ \A v \in views : v.who # w
  /\ views' = views \cup {[who |-> w, slot |-> s, msg |-> current[s]]}
  /\ UNCHANGED current

Close(v) ==
  /\ views' = views \ {v}
  /\ UNCHANGED current

Next == \/ \E s \in Slots, l \in Lengths : Publish(s, l)
        \/ \E w \in Viewers, s \in Slots : Open(w, s)
        \/ \E v \in views : Close(v)

Spec == Init /\ [][Next]_mailboxVars
===============================================================================
