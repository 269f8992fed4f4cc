------------------------------ MODULE Directory ------------------------------
(***************************************************************************)
(* What ClientDomain::getSlot promises to the threads of a process: every   *)
(* name gets one mapping, once and for all, and a caller gets the mapping   *)
(* of the name it asked for, or an exception.                               *)
(***************************************************************************)
EXTENDS Naturals, FiniteSets

CONSTANTS Names, Callers

VARIABLES
  table,    \* the mapping of each name that has one: a function to numbers
  calls     \* the calls in progress: [who, name, reply], reply 0 while there is none

vars == <<table, calls>>

Init ==
  /\ table = [n \in {} |-> 0]
  /\ calls = {}

Call(c, n) ==
  /\ \A k \in calls : k.who # c
  /\ calls' = calls \cup {[who |-> c, name |-> n, reply |-> 0]}
  /\ UNCHANGED table

\* A name that somebody asks for is mapped.
Enter(k) ==
  /\ k.reply = 0 /\ k.name \notin DOMAIN table
  /\ table' = [n \in DOMAIN table \cup {k.name} |->
                 IF n = k.name THEN Cardinality(DOMAIN table) + 1 ELSE table[n]]
  /\ UNCHANGED calls

Reply(k) ==
  /\ k.reply = 0 /\ k.name \in DOMAIN table
  /\ calls' = (calls \ {k}) \cup {[k EXCEPT !.reply = table[k.name]]}
  /\ UNCHANGED table

\* The caller goes on, with its reply or with an exception.
Finish(k) ==
  /\ calls' = calls \ {k}
  /\ UNCHANGED table

Next == \/ \E c \in Callers, n \in Names : Call(c, n)
        \/ \E k \in calls : Enter(k) \/ Reply(k) \/ Finish(k)

Spec == Init /\ [][Next]_vars
===============================================================================
