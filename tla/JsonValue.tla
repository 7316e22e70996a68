------------------------------ MODULE JsonValue ------------------------------
(***************************************************************************)
(* The data of a JsonW: type, valid, the value of its token, the members   *)
(* jobject_ and the elements jarray_.  The parts are the values themselves *)
(* in a tree, and references in a heap.                                    *)
(***************************************************************************)

Value(type, valid, value, members, elems) ==
  [type |-> type, valid |-> valid, value |-> value, members |-> members, elems |-> elems]

NoMembers == [k \in {} |-> 0]

Scalar(type, value) == Value(type, TRUE, value, NoMembers, <<>>)

NullValue == Scalar("NULLVALUE", <<>>)

(* The members or the elements: no value has both. *)
Parts(v) == IF v.members = NoMembers THEN v.elems ELSE v.members

=============================================================================
