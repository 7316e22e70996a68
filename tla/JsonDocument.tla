---------------------------- MODULE JsonDocument ----------------------------
(***************************************************************************)
(* The documents of a heap as trees, and as the texts one side sends and   *)
(* the other side reads.                                                   *)
(***************************************************************************)
EXTENDS JsonW, JsonText

RECURSIVE Tree(_, _)
(* The value at n, with the values of its members and elements. *)
Tree(h, n) ==
  [h[n] EXCEPT !.members = [k \in DOMAIN h[n].members |-> Tree(h, h[n].members[k])],
               !.elems = [i \in DOMAIN h[n].elems |-> Tree(h, h[n].elems[i])]]

RECURSIVE Paths(_), Follow(_, _)
Paths(v) == {Top} \cup UNION {{<<s>> \o path : path \in Paths(Parts(v)[s])} : s \in DOMAIN Parts(v)}

Follow(v, path) == IF path = Top THEN v ELSE Follow(Parts(v)[Head(path)], Tail(path))

(* The heap of one document: the path to a part is its reference. *)
HeapOf(v) ==
  LET At(path, w) == [w EXCEPT !.members = [k \in DOMAIN w.members |-> Append(path, k)],
                               !.elems = [i \in DOMAIN w.elems |-> Append(path, i)]]
  IN [path \in Paths(v) |-> At(path, Follow(v, path))]

---------------------------------------------------------------------------
(* Properties. *)

(* The documents with nothing of a text that could not be read in them. *)
Documents ==
  {Tree(store, x) : x \in {y \in Var : \A n \in Below(store, y) : store[n].type # "BAD"}}

(* What one side builds and sends is what the other side reads, on one     *)
(* line or on many: commas, quotes, nesting (text(), wss_jobject).         *)
RoundTrip == \A v \in Documents : Read(Text(v, TRUE, 0)) = v /\ Read(Text(v, FALSE, 0)) = v

(* A file or a packet that is cut short is never taken for a smaller       *)
(* document by who asks for valid() and the type: the readers look for the *)
(* bracket that closes the first.  Not every caller asks for both.         *)
CutRefused ==
  \A v \in {w \in Documents : w.type \in {"OBJECT", "ARRAY"}} :
    \A i \in 0..(Len(OneLine(v)) - 1) : ~Accepted(Read(SubSeq(OneLine(v), 1, i)))
=============================================================================
