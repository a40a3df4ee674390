------------------------------ MODULE MCUserNs -----------------------------
EXTENDS UserNs

CONSTANTS r, u1, u2, u3

MCNSIds == {r, u1, u2, u3}

Ext(f, l, c) == [first |-> f, lower_first |-> l, count |-> c]

(* Disjoint on both sides and within range, as spec 4.7 requires, and the *)
(* empty vector; one extent ends at MaxId on both sides, and one vector   *)
(* lists its extents in the reverse order of their parent ids.            *)
ValidLists == {<<>>, <<Ext(0, 2, 3)>>, <<Ext(0, 4, 2), Ext(2, 0, 2)>>, <<Ext(1, 1, 1)>>,
               <<Ext(5, 5, 3)>>, <<Ext(0, 5, 2), Ext(2, 2, 3), Ext(5, 0, 2)>>}

(* Disjoint and within range, with its parent ids ending at MaxId.       *)
ParentEdgeLists == {<<Ext(0, 6, 2)>>}

(* Extents overlapping in the parent, and an offset that saturates. *)
BadLists == {<<Ext(0, 4, 2), Ext(2, 5, 2)>>, <<Ext(0, 5, 3)>>}

(* A shifting map for the nested namespaces. *)
ShiftLists == {<<Ext(0, 2, 3)>>}

(* The empty vector, then a real one. *)
EmptyThenSet == {<<>>, <<Ext(0, 2, 3)>>}
=============================================================================
