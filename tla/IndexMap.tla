------------------------------ MODULE IndexMap ------------------------------
(***************************************************************************)
(* What an object index promises its readers: a map from keys to objects   *)
(* that every operation changes in one step.                               *)
(***************************************************************************)
CONSTANTS Key, Object

VARIABLE content        \* partial function from keys to objects

Init == content = [k \in {} |-> CHOOSE o \in Object : TRUE]

Put == \E k \in Key, o \in Object :
    content' = [x \in DOMAIN content \cup {k} |-> IF x = k THEN o ELSE content[x]]

Remove == \E k \in DOMAIN content :
    content' = [x \in DOMAIN content \ {k} |-> content[x]]

Clear == content' = [x \in {} |-> content[x]]

Next == Put \/ Remove \/ Clear

Spec == Init /\ [][Next]_content

=============================================================================
