----------------------------- MODULE LeaseTable ------------------------------
(***************************************************************************)
(* What leasing promises while no node leaves: a table of ranges and the   *)
(* nodes they are leased to that only grows, by ranges that share no       *)
(* address with those leased before, and nodes that use nothing but ranges *)
(* leased to them.  Keys, mutexes, cache files, crashes and lost answers   *)
(* are not part of it: a node may have the use of fewer ranges than it has *)
(* leased, and of others from one moment to the next.                      *)
(***************************************************************************)
EXTENDS Integers

CONSTANTS Node, Ranges

VARIABLES
  table,            \* the ranges leased, each with its node
  usable            \* the ranges each node may hand out addresses from

tableVars == <<table, usable>>

Init ==
  /\ table = {}
  /\ usable = [n \in Node |-> {}]

Apart(r, s) == r.hi < s.lo \/ s.hi < r.lo

Use ==
  /\ usable' \in [Node -> SUBSET Ranges]
  /\ \A n \in Node : \A r \in usable'[n] : <<r, n>> \in table'

Grant(n, r) ==
  /\ \A e \in table : Apart(r, e[1])
  /\ table' = table \cup {<<r, n>>}
  /\ Use

Change == UNCHANGED table /\ Use

Next == Change \/ \E n \in Node, r \in Ranges : Grant(n, r)

Spec == Init /\ [][Next]_tableVars
=============================================================================
