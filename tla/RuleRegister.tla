---------------------------- MODULE RuleRegister ----------------------------
(***************************************************************************)
(* What the IDS rule synchronisation promises of its status file: for each *)
(* engine the bundle in force and whether the last attempt to change it    *)
(* succeeded.  A bundle enters only if the engine can run it and it is not *)
(* older than the one it replaces; a failed attempt leaves the version.    *)
(***************************************************************************)
EXTENDS Integers

CONSTANTS Engines, MaxVersion, Good

VARIABLE reg   \* reg[e]: [version, ok]

Init == reg = [e \in Engines |-> [version |-> 0, ok |-> FALSE]]

\* A bundle is accepted for engine e.
Accept(e) ==
  \E v \in Good :
    /\ v >= reg[e].version
    /\ reg' = [reg EXCEPT ![e] = [version |-> v, ok |-> TRUE]]

\* An attempt failed: the version stays.
Reject(e) == reg' = [reg EXCEPT ![e] = [version |-> reg[e].version, ok |-> FALSE]]

Next == \E e \in Engines : Accept(e) \/ Reject(e)

Spec == Init /\ [][Next]_reg
=============================================================================
