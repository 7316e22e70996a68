-------------------------------- MODULE JsonW --------------------------------
(***************************************************************************)
(* The JsonW variables of a program.  A value owns its members and         *)
(* elements through shared_ptr: store is the heap of the values in use.    *)
(* The references are the variables and the cells of the heap.             *)
(*                                                                         *)
(* The caller of an operation has a reference to any value it can reach    *)
(* (get, operator[]).  It does not assign a value to a part of itself or   *)
(* the other way round: copy() clears the target before it reads.  What    *)
(* it hands over to add() it has just built.                               *)
(***************************************************************************)
EXTENDS Integers, SequencesExt, JsonValue

CONSTANTS Var, Cell,
          Names, MaxIndex,
          Scalars, \* the values without parts that are set
          Parsed,  \* what json() may leave: heaps whose root is Top
          Handed   \* values handed over to add(): heaps whose root is Top

ASSUME IndexAssumption == MaxIndex \in Nat

VARIABLE store  \* reference -> the value there, its parts references

Top == <<>>

Kids(v) == {Parts(v)[s] : s \in DOMAIN Parts(v)}

(* What is in every closed set with the roots: they and all below them. *)
Reach(h, roots) ==
  LET owns == {<<n, Kids(h[n])>> : n \in DOMAIN h}
      closed == {refs \in SUBSET DOMAIN h :
                   roots \subseteq refs /\ \A o \in owns : o[1] \in refs => o[2] \subseteq refs}
  IN {n \in DOMAIN h : \A refs \in closed : n \in refs}

Below(h, n) == Reach(h, {n})

(* The value at n with all its parts. *)
Document(h, n) == [m \in Below(h, n) |-> h[m]]

(* What no shared_ptr owns any more is gone. *)
Collected(h) == [n \in Reach(h, Var) |-> h[n]]

Fresh(h) == Cell \ DOMAIN h

With(f, s, x) == [t \in DOMAIN f \cup {s} |-> IF t = s THEN x ELSE f[t]]

Injections(S, T) == {at \in [S -> T] : \A m, n \in S : at[m] = at[n] => m = n}

Moved(v, at) ==
  [v EXCEPT !.members = [k \in DOMAIN v.members |-> at[v.members[k]]],
            !.elems = [i \in DOMAIN v.elems |-> at[v.elems[i]]]]

Places(doc, at) == {at[m] : m \in DOMAIN doc}

(* h with the values of doc, each at the place that at gives it. *)
Joined(h, doc, at) ==
  [n \in DOMAIN h \cup Places(doc, at) |->
     IF n \in Places(doc, at) THEN Moved(doc[CHOOSE m \in DOMAIN doc : at[m] = n], at) ELSE h[n]]

---------------------------------------------------------------------------
(* clean(): the value at n is null, what it owned is released. *)
Clean(h, n) == Collected([h EXCEPT ![n] = NullValue])

(* MUTANT of Become: what the value was before stays in it. *)
X_BecomeKeeps(h, n, type) == [h EXCEPT ![n].type = type, ![n].valid = TRUE]

(* clean() unless the value is of the type already. *)
Become(h, n, type) ==
  IF h[n].type = type THEN h
  ELSE Collected([h EXCEPT ![n] = Value(type, TRUE, <<>>, NoMembers, <<>>)])

(* doc is written at n, its parts to new cells. *)
Write(n, h, doc, root) ==
  \E at \in Injections(DOMAIN doc, Fresh(h) \cup {n}) :
    at[root] = n /\ store' = Collected(Joined(h, doc, at))

(* integer(), frac(), str(), boolean(), reset() and operator= of these. *)
Set(n, v) == store' = Collected([store EXCEPT ![n] = v])

(* MUTANT of Assign: the members and elements are shared. *)
X_AssignShares(n, m) ==
  /\ n \notin Below(store, m) /\ m \notin Below(store, n)
  /\ store' = Collected([store EXCEPT ![n] = store[m]])

(* operator=(const JsonW&), the copy constructor: copy().  The children of *)
(* the source are copied, not shared.                                      *)
Assign(n, m) ==
  LET h == Clean(store, n)
  IN /\ n \notin Below(store, m) /\ m \notin Below(store, n)
     /\ Write(n, h, Document(h, m), m)

(* json() *)
Json(n, doc) == Write(n, Clean(store, n), doc, Top)

(* operator[](name): a name that is not there gets a null value. *)
IndexName(n, key) ==
  LET h == Become(store, n, "OBJECT")
  IN IF key \in DOMAIN h[n].members THEN store' = h
     ELSE \E r \in Fresh(h) :
            store' = Collected([With(h, r, NullValue) EXCEPT ![n].members = With(@, key, r)])

(* operator[](index): the array is filled up with null values. *)
IndexNumber(n, index) ==
  LET h == Become(store, n, "ARRAY")
      missing == index - Len(h[n].elems)
  IN \E cells \in Injections(1..missing, Fresh(h)) :
       store' = Collected([m \in DOMAIN h \cup {cells[i] : i \in 1..missing} |->
                             IF m \notin DOMAIN h THEN NullValue
                             ELSE IF m = n THEN [h[n] EXCEPT !.elems = @ \o cells] ELSE h[m]])

(* add(name, ...): the new value takes the place of the old one.  It was   *)
(* there before the old one was released.                                  *)
AddMember(n, key, doc) ==
  \E at \in Injections(DOMAIN doc, Fresh(store)) :
    store' = Collected([Joined(Become(store, n, "OBJECT"), doc, at)
                          EXCEPT ![n].members = With(@, key, at[Top])])

(* add(...) *)
AddElement(n, doc) ==
  \E at \in Injections(DOMAIN doc, Fresh(store)) :
    store' = Collected([Joined(Become(store, n, "ARRAY"), doc, at)
                          EXCEPT ![n].elems = Append(@, at[Top]), ![n].valid = TRUE])

(* erase(name), erase(index) *)
EraseName(n, key) ==
  /\ key \in DOMAIN store[n].members
  /\ store' = Collected([store EXCEPT ![n].members = [k \in DOMAIN @ \ {key} |-> @[k]]])

EraseIndex(n, index) ==
  /\ store[n].type = "ARRAY" /\ index <= Len(store[n].elems)
  /\ store' = Collected([store EXCEPT ![n].elems = RemoveAt(@, index)])

JsonInit == store = [x \in Var |-> NullValue]

Change(n) ==
  \/ \E v \in Scalars : Set(n, v)
  \/ \E doc \in Handed : AddElement(n, doc)
  \/ \E key \in Names : IndexName(n, key) \/ EraseName(n, key)
  \/ \E key \in Names, doc \in Handed : AddMember(n, key, doc)
  \/ \E index \in 1..MaxIndex : IndexNumber(n, index) \/ EraseIndex(n, index)
  \/ \E m \in DOMAIN store : Assign(n, m)
  \/ \E doc \in Parsed : Json(n, doc)

JsonNext == \E n \in DOMAIN store : Change(n)

JsonSpec == JsonInit /\ [][JsonNext]_store
---------------------------------------------------------------------------
(* Properties. *)

Types == {"BAD", "OBJECT", "ARRAY", "INTEGER", "FLOAT", "STRING", "BOOLEAN", "NULLVALUE"}

(* Only a text that could not be read leaves parts in a value that is      *)
(* neither an object nor an array.                                         *)
NodeOK(v) ==
  /\ v = Value(v.type, v.valid, v.value, v.members, v.elems)
  /\ v.type \in Types /\ v.valid \in BOOLEAN
  /\ v.type # "BAD" => v.valid
  /\ v.members = [k \in DOMAIN v.members |-> v.members[k]]
  /\ v.elems \in Seq({v.elems[i] : i \in DOMAIN v.elems})
  /\ v.type \notin {"OBJECT", "BAD"} => v.members = NoMembers
  /\ v.type \notin {"ARRAY", "BAD"} => v.elems = <<>>
  /\ v.members = NoMembers \/ v.elems = <<>>

OwnedOnce(h) ==
  \A m, n \in DOMAIN h : \A s \in DOMAIN Parts(h[m]), t \in DOMAIN Parts(h[n]) :
    Parts(h[m])[s] = Parts(h[n])[t] => m = n /\ s = t

(* All is below the roots, nothing owns a root, and no two parts are one   *)
(* value: no value is shared, and none is a part of itself.                *)
Forest(h, roots) ==
  /\ \A n \in DOMAIN h : NodeOK(h[n]) /\ Kids(h[n]) \subseteq DOMAIN h \ roots
  /\ roots \subseteq DOMAIN h
  /\ DOMAIN h \subseteq Reach(h, roots)
  /\ OwnedOnce(h)

ASSUME ScalarsAssumption == \A v \in Scalars : NodeOK(v) /\ Parts(v) = <<>>
ASSUME DocumentsAssumption == \A doc \in Parsed \cup Handed : Forest(doc, {Top})

(* The heap is a forest of values in use: an operation leaves nothing      *)
(* behind that is owned twice or by nobody (clean, copy, add, erase).      *)
JsonTypeOK == DOMAIN store \subseteq Var \cup Cell /\ Forest(store, Var)

(* One operation changes one document: a copy shares nothing with what it  *)
(* was copied from, so writing a reply never changes another (copy()).     *)
OneDocument ==
  [][\E y \in Var : \A x \in Var \ {y} : Document(store', x) = Document(store, x)]_store
=============================================================================
