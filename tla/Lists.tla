------------------------------- MODULE Lists -------------------------------
(***************************************************************************)
(* The linked lists of the driver (dl_list.h, and list.h of the kernel).   *)
(* A list is the sequence of its members from head to tail.                *)
(***************************************************************************)
EXTENDS Integers, Sequences

Elements(q) == {q[i] : i \in 1..Len(q)}

(* No member is linked twice.                                              *)
Distinct(q) == \A i, j \in 1..Len(q) : q[i] = q[j] => i = j

(* Unlinks x wherever it is, and does nothing to one that is not linked.   *)
DL_ListRemove(q, x) ==
    IF x \in Elements(q)
    THEN LET i == CHOOSE j \in 1..Len(q) : q[j] = x
         IN  SubSeq(q, 1, i - 1) \o SubSeq(q, i + 1, Len(q))
    ELSE q

(* list_for_each_entry_safe that moves the members of S to another list.   *)
Without(q, S) ==
    LET kept[i \in 0..Len(q)] ==
          IF i = 0 THEN <<>>
          ELSE IF q[i] \in S THEN kept[i - 1] ELSE Append(kept[i - 1], q[i])
    IN  kept[Len(q)]
=============================================================================
