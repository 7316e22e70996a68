----------------------------- MODULE JsonProofs -----------------------------
(***************************************************************************)
(* The heap of JsonW stays a forest, and an operation changes one          *)
(* document: for any number of variables, cells, names and texts.          *)
(***************************************************************************)
EXTENDS JsonW, ListProofs

---------------------------------------------------------------------------
(* What is below. *)

Closed(h, refs) == \A n \in refs : Kids(h[n]) \subseteq refs

(* What is reached is what is in every closed set with the roots.          *)
LEMMA Reached ==
  ASSUME NEW h, NEW roots
  PROVE  Reach(h, roots) = {n \in DOMAIN h : \A refs \in SUBSET DOMAIN h :
                              roots \subseteq refs /\ Closed(h, refs) => n \in refs}
<1> DEFINE owns == {<<n, Kids(h[n])>> : n \in DOMAIN h}
           Owning(refs) == \A o \in owns : o[1] \in refs => o[2] \subseteq refs
<1>1. \A refs \in SUBSET DOMAIN h : Owning(refs) <=> Closed(h, refs)
  <2> TAKE refs \in SUBSET DOMAIN h
  <2>1. ASSUME Owning(refs), NEW n \in refs
        PROVE  Kids(h[n]) \subseteq refs
    <3>1. <<n, Kids(h[n])>> \in owns
      OBVIOUS
    <3> QED
      BY <2>1, <3>1
  <2>2. ASSUME Closed(h, refs), NEW n \in DOMAIN h, n \in refs
        PROVE  Kids(h[n]) \subseteq refs
    BY <2>2 DEF Closed
  <2> QED
    BY <2>1, <2>2 DEF Closed
<1>2. Reach(h, roots) = {n \in DOMAIN h : \A refs \in {S \in SUBSET DOMAIN h : roots \subseteq S /\ Owning(S)} :
                           n \in refs}
  BY DEF Reach
<1> HIDE DEF Owning
<1> QED
  BY <1>1, <1>2

(* What is reached is in every closed set with the roots. *)
LEMMA ReachSmallest ==
  ASSUME NEW h, NEW roots, NEW refs \in SUBSET DOMAIN h, roots \subseteq refs, Closed(h, refs)
  PROVE  Reach(h, roots) \subseteq refs
BY Reached

(* In a heap without loose ends it is such a set itself. *)
LEMMA ReachClosed ==
  ASSUME NEW h, NEW roots, roots \subseteq DOMAIN h, \A n \in DOMAIN h : Kids(h[n]) \subseteq DOMAIN h
  PROVE  /\ roots \subseteq Reach(h, roots)
         /\ Reach(h, roots) \subseteq DOMAIN h
         /\ Closed(h, Reach(h, roots))
<1>1. roots \subseteq Reach(h, roots) /\ Reach(h, roots) \subseteq DOMAIN h
  BY Reached
<1>2. Closed(h, Reach(h, roots))
  <2> SUFFICES ASSUME NEW n \in Reach(h, roots), NEW k \in Kids(h[n]),
                      NEW refs \in SUBSET DOMAIN h, roots \subseteq refs, Closed(h, refs)
               PROVE  k \in DOMAIN h /\ k \in refs
    BY Reached DEF Closed
  <2>1. n \in refs
    BY ReachSmallest
  <2> QED
    BY <2>1 DEF Closed
<1> QED
  BY <1>1, <1>2

(* Only what is reached matters: heaps that agree on a closed set. *)
LEMMA ReachWithin ==
  ASSUME NEW g, NEW h, NEW roots, NEW refs, roots \subseteq refs,
         refs \subseteq DOMAIN g, refs \subseteq DOMAIN h, Closed(g, refs), \A n \in refs : g[n] = h[n]
  PROVE  Reach(g, roots) \subseteq Reach(h, roots)
<1> SUFFICES ASSUME NEW n \in Reach(g, roots),
                    NEW S \in SUBSET DOMAIN h, roots \subseteq S, Closed(h, S)
             PROVE  n \in DOMAIN h /\ n \in S
  BY Reached
<1>1. Closed(g, S \cap refs)
  BY DEF Closed
<1> QED
  BY <1>1, ReachSmallest

LEMMA ReachAgrees ==
  ASSUME NEW g, NEW h, NEW roots, NEW refs, roots \subseteq refs,
         refs \subseteq DOMAIN g, refs \subseteq DOMAIN h, Closed(g, refs), \A n \in refs : g[n] = h[n]
  PROVE  Reach(g, roots) = Reach(h, roots)
<1>1. Closed(h, refs)
  BY DEF Closed
<1>2. Reach(g, roots) \subseteq Reach(h, roots)
  BY ReachWithin
<1>3. Reach(h, roots) \subseteq Reach(g, roots)
  BY <1>1, ReachWithin
<1> QED
  BY <1>2, <1>3

(* Below a value is the value, and what is owned by something below it. *)
LEMMA Owned ==
  ASSUME NEW h, NEW n \in DOMAIN h, \A m \in DOMAIN h : Kids(h[m]) \subseteq DOMAIN h,
         NEW m \in Below(h, n), m # n
  PROVE  \E k \in Below(h, n) : m \in Kids(h[k])
<1> SUFFICES ASSUME \A k \in Below(h, n) : m \notin Kids(h[k])
             PROVE  FALSE
  OBVIOUS
<1>1. n \in Below(h, n) /\ Below(h, n) \subseteq DOMAIN h /\ Closed(h, Below(h, n))
  BY ReachClosed DEF Below
<1> DEFINE S == Below(h, n) \ {m}
<1>2. Closed(h, S) /\ S \subseteq DOMAIN h /\ {n} \subseteq S
  BY <1>1 DEF Closed
<1>3. Below(h, n) \subseteq S
  <2> HIDE DEF S
  <2> QED
    BY <1>2, ReachSmallest DEF Below
<1> QED
  BY <1>3

LEMMA OneOwner ==
  ASSUME NEW h, OwnedOnce(h), NEW m \in DOMAIN h, NEW n \in DOMAIN h,
         NEW r \in Kids(h[m]), r \in Kids(h[n])
  PROVE  m = n
<1>1. PICK s \in DOMAIN Parts(h[m]) : r = Parts(h[m])[s]
  BY DEF Kids
<1>2. PICK t \in DOMAIN Parts(h[n]) : r = Parts(h[n])[t]
  BY DEF Kids
<1> QED
  BY <1>1, <1>2 DEF OwnedOnce

LEMMA ForestClosed ==
  ASSUME NEW h, NEW roots, Forest(h, roots)
  PROVE  /\ \A m \in DOMAIN h : Kids(h[m]) \subseteq DOMAIN h \ roots
         /\ \A n \in DOMAIN h : /\ n \in Below(h, n) /\ Below(h, n) \subseteq DOMAIN h
                                /\ Closed(h, Below(h, n))
<1>1. \A m \in DOMAIN h : Kids(h[m]) \subseteq DOMAIN h \ roots
  BY DEF Forest
<1>2. ASSUME NEW n \in DOMAIN h
      PROVE  n \in Below(h, n) /\ Below(h, n) \subseteq DOMAIN h /\ Closed(h, Below(h, n))
  BY <1>1, ReachClosed DEF Below
<1> QED
  BY <1>1, <1>2

(* What is not below n owns nothing that is below n, but for n itself. *)
LEMMA NotBelow ==
  ASSUME NEW h, NEW roots, Forest(h, roots), NEW n \in DOMAIN h,
         NEW m \in DOMAIN h, m \notin Below(h, n), NEW k \in Kids(h[m]), k \in Below(h, n)
  PROVE  k = n
<1> SUFFICES ASSUME k # n
             PROVE  FALSE
  OBVIOUS
<1>1. PICK j \in Below(h, n) : k \in Kids(h[j])
  BY ForestClosed, Owned
<1> QED
  BY <1>1, OneOwner, ForestClosed DEF Forest

(* The documents of two variables have nothing in common. *)
LEMMA Apart ==
  ASSUME NEW h, NEW roots, Forest(h, roots), NEW x \in roots, NEW y \in roots, x # y
  PROVE  Below(h, x) \cap Below(h, y) = {}
<1> DEFINE S == Below(h, x) \ Below(h, y)
<1>1. x \in DOMAIN h /\ y \in DOMAIN h
  BY DEF Forest
<1>2. x \in S
  <2>1. x \notin Below(h, y)
    BY <1>1, Owned, ForestClosed
  <2> QED
    BY <1>1, <2>1, ForestClosed
<1>3. Closed(h, S)
  <2> SUFFICES ASSUME NEW m \in S, NEW k \in Kids(h[m]), k \in Below(h, y)
               PROVE  FALSE
    BY <1>1, ForestClosed DEF Closed
  <2>1. m \in DOMAIN h
    BY <1>1, ForestClosed
  <2>2. k = y
    BY <1>1, <2>1, NotBelow
  <2> QED
    BY <2>1, <2>2, ForestClosed
<1>4. S \subseteq DOMAIN h
  BY <1>1, ForestClosed
<1> QED
  BY <1>2, <1>3, <1>4, ReachSmallest DEF Below

(* No value is a part of itself. *)
LEMMA NotOwnPart ==
  ASSUME NEW h, NEW roots, Forest(h, roots), NEW n \in DOMAIN h, NEW k \in Below(h, n)
  PROVE  n \notin Kids(h[k])
<1> SUFFICES ASSUME n \in Kids(h[k])
             PROVE  FALSE
  OBVIOUS
<1> DEFINE S == DOMAIN h \ Below(h, n)
<1>1. k \in DOMAIN h /\ n \notin roots /\ roots \subseteq DOMAIN h
  BY ForestClosed DEF Forest
<1>2. roots \subseteq S
  <2> SUFFICES ASSUME NEW x \in roots, x \in Below(h, n)
               PROVE  FALSE
    BY <1>1
  <2> QED
    BY <1>1, Owned, ForestClosed
<1>3. Closed(h, S)
  <2> SUFFICES ASSUME NEW m \in S, NEW j \in Kids(h[m]), j \in Below(h, n)
               PROVE  FALSE
    BY ForestClosed DEF Closed
  <2>1. j = n
    BY NotBelow
  <2> QED
    BY <1>1, <2>1, OneOwner DEF Forest
<1>4. n \in S
  BY <1>2, <1>3, ReachSmallest DEF Forest
<1> QED
  BY <1>4, ForestClosed

(* A document is a forest of its own. *)
LEMMA DocumentForest ==
  ASSUME NEW h, NEW roots, Forest(h, roots), NEW n \in DOMAIN h
  PROVE  Forest(Document(h, n), {n}) /\ DOMAIN Document(h, n) = Below(h, n)
<1> DEFINE d == Document(h, n)
<1>1. /\ DOMAIN d = Below(h, n)
      /\ \A m \in Below(h, n) : d[m] = h[m]
  BY DEF Document
<1>2. n \in Below(h, n) /\ Below(h, n) \subseteq DOMAIN h /\ Closed(h, Below(h, n))
  BY ForestClosed
<1> HIDE DEF d
<1>3. \A m \in DOMAIN d : NodeOK(d[m]) /\ Kids(d[m]) \subseteq DOMAIN d \ {n}
  BY <1>1, <1>2, NotOwnPart DEF Forest, Closed
<1>4. Reach(h, {n}) = Reach(d, {n})
  BY <1>1, <1>2, ReachAgrees
<1>5. OwnedOnce(d)
  BY <1>1, <1>2 DEF OwnedOnce, Forest
<1>6. Forest(d, {n})
  BY <1>1, <1>2, <1>3, <1>4, <1>5 DEF Forest, Below
<1> QED
  BY <1>1, <1>6 DEF d

---------------------------------------------------------------------------
(* One change. *)

Added(h, g) == DOMAIN g \ DOMAIN h

(* g is h with new values, and with a change of the value at n, which may  *)
(* let go of parts and own new ones.                                       *)
Grown(h, g, n) ==
  /\ n \in DOMAIN h /\ DOMAIN h \subseteq DOMAIN g
  /\ \A m \in DOMAIN h \ {n} : g[m] = h[m]
  /\ \A m \in Added(h, g) \cup {n} : NodeOK(g[m])
  /\ Kids(g[n]) \subseteq Kids(h[n]) \cup Added(h, g)
  /\ \A m \in Added(h, g) : Kids(g[m]) \subseteq Added(h, g)
  /\ \A m, k \in Added(h, g) \cup {n} : \A s \in DOMAIN Parts(g[m]), t \in DOMAIN Parts(g[k]) :
       Parts(g[m])[s] = Parts(g[k])[t] => m = k /\ s = t

(* g is a forest again, and no document that n is not in has changed. *)
Kept(h, g, n) ==
  /\ Forest(g, Var) /\ n \in DOMAIN g
  /\ \A x \in Var : n \notin Below(h, x) => Document(g, x) = Document(h, x)

LEMMA GrownKids ==
  ASSUME NEW h, NEW g, NEW n, Forest(h, Var), Grown(h, g, n)
  PROVE  \A m \in DOMAIN g : NodeOK(g[m]) /\ Kids(g[m]) \subseteq DOMAIN g \ Var
<1> SUFFICES ASSUME NEW m \in DOMAIN g
             PROVE  NodeOK(g[m]) /\ Kids(g[m]) \subseteq DOMAIN g \ Var
  OBVIOUS
<1>1. Var \subseteq DOMAIN h /\ DOMAIN h \subseteq DOMAIN g /\ n \in DOMAIN h
  BY DEF Forest, Grown
<1>2. Added(h, g) \subseteq DOMAIN g \ Var
  BY <1>1 DEF Added
<1>3. \A k \in DOMAIN h : NodeOK(h[k]) /\ Kids(h[k]) \subseteq DOMAIN h \ Var
  BY DEF Forest
<1>4. CASE m \in DOMAIN h \ {n}
  <2>1. g[m] = h[m]
    BY <1>4 DEF Grown
  <2> QED
    BY <1>1, <1>3, <1>4, <2>1
<1>5. CASE m = n
  <2>1. NodeOK(g[n]) /\ Kids(g[n]) \subseteq Kids(h[n]) \cup Added(h, g)
    BY DEF Grown
  <2> QED
    BY <1>1, <1>2, <1>3, <1>5, <2>1
<1>6. CASE m \in Added(h, g)
  <2>1. NodeOK(g[m]) /\ Kids(g[m]) \subseteq Added(h, g)
    BY <1>6 DEF Grown
  <2> QED
    BY <1>2, <2>1
<1> QED
  BY <1>4, <1>5, <1>6 DEF Added

(* n is still below a variable: nothing above it has changed. *)
LEMMA GrownReach ==
  ASSUME NEW h, NEW g, NEW n, Forest(h, Var), Grown(h, g, n)
  PROVE  n \in Reach(g, Var)
<1>1. Var \subseteq DOMAIN h /\ DOMAIN h \subseteq DOMAIN g /\ n \in DOMAIN h
  BY DEF Forest, Grown
<1> SUFFICES ASSUME NEW refs \in SUBSET DOMAIN g, Var \subseteq refs, Closed(g, refs), n \notin refs
             PROVE  FALSE
  BY <1>1, Reached
<1>2. Closed(h, refs \cap DOMAIN h)
  <2> SUFFICES ASSUME NEW m \in refs \cap DOMAIN h, NEW k \in Kids(h[m])
               PROVE  k \in refs /\ k \in DOMAIN h
    BY DEF Closed
  <2>1. g[m] = h[m]
    BY DEF Grown
  <2>2. Kids(h[m]) \subseteq refs
    BY <2>1 DEF Closed
  <2> QED
    BY <2>2, ForestClosed
<1>3. Reach(h, Var) \subseteq refs \cap DOMAIN h
  BY <1>1, <1>2, ReachSmallest
<1> QED
  BY <1>1, <1>3 DEF Forest

LEMMA GrownOwnedOnce ==
  ASSUME NEW h, NEW g, NEW n, Forest(h, Var), Grown(h, g, n)
  PROVE  OwnedOnce(g)
<1>1. ASSUME NEW m \in DOMAIN h \ {n}, NEW k \in Added(h, g) \cup {n}, NEW r \in Kids(g[m]), r \in Kids(g[k])
      PROVE  FALSE
  <2>1. g[m] = h[m] /\ r \in DOMAIN h
    BY <1>1, ForestClosed DEF Grown
  <2>2. r \notin Added(h, g)
    BY <2>1 DEF Added
  <2>3. k = n /\ r \in Kids(h[n])
    BY <1>1, <2>2 DEF Grown
  <2>4. n \in DOMAIN h /\ r \in Kids(h[m]) /\ OwnedOnce(h)
    BY <2>1, <1>1 DEF Grown, Forest
  <2> QED
    BY <1>1, <2>3, <2>4, OneOwner
<1>2. \A m \in DOMAIN g : \A s \in DOMAIN Parts(g[m]) : Parts(g[m])[s] \in Kids(g[m])
  BY DEF Kids
<1> SUFFICES ASSUME NEW m \in DOMAIN g, NEW k \in DOMAIN g,
                    NEW s \in DOMAIN Parts(g[m]), NEW t \in DOMAIN Parts(g[k]),
                    Parts(g[m])[s] = Parts(g[k])[t]
             PROVE  m = k /\ s = t
  BY DEF OwnedOnce
<1>3. Parts(g[m])[s] \in Kids(g[m]) /\ Parts(g[m])[s] \in Kids(g[k])
  BY <1>2
<1>4. CASE m \in DOMAIN h \ {n} /\ k \in DOMAIN h \ {n}
  <2>1. g[m] = h[m] /\ g[k] = h[k]
    BY <1>4 DEF Grown
  <2> QED
    BY <1>4, <2>1 DEF Forest, OwnedOnce
<1>5. CASE m \in Added(h, g) \cup {n} /\ k \in Added(h, g) \cup {n}
  BY <1>5 DEF Grown
<1>6. CASE m \in DOMAIN h \ {n} /\ k \in Added(h, g) \cup {n}
  BY <1>1, <1>3, <1>6
<1>7. CASE k \in DOMAIN h \ {n} /\ m \in Added(h, g) \cup {n}
  BY <1>1, <1>3, <1>7
<1> QED
  BY <1>4, <1>5, <1>6, <1>7 DEF Added

(* What is left after collecting is all reached.                           *)
LEMMA CollectedForest ==
  ASSUME NEW g, Var \subseteq DOMAIN g, OwnedOnce(g),
         \A m \in DOMAIN g : NodeOK(g[m]) /\ Kids(g[m]) \subseteq DOMAIN g \ Var
  PROVE  Forest(Collected(g), Var)
<1> DEFINE c == Collected(g)
           S == Reach(g, Var)
<1>1. DOMAIN c = S /\ \A m \in S : c[m] = g[m]
  BY DEF Collected
<1>2. Var \subseteq S /\ S \subseteq DOMAIN g /\ Closed(g, S)
  BY ReachClosed
<1> HIDE DEF c
<1>3. Reach(g, Var) = Reach(c, Var)
  BY <1>1, <1>2, ReachAgrees
<1> HIDE DEF S
<1>4. \A m \in DOMAIN c : NodeOK(c[m]) /\ Kids(c[m]) \subseteq DOMAIN c \ Var
  BY <1>1, <1>2 DEF Closed
<1>5. OwnedOnce(c)
  BY <1>1, <1>2 DEF OwnedOnce
<1>6. Forest(c, Var)
  BY <1>1, <1>2, <1>3, <1>4, <1>5 DEF Forest, S
<1> QED
  BY <1>6 DEF c

(* A document without n stays as it is. *)
LEMMA GrownDocument ==
  ASSUME NEW h, NEW g, NEW n, Forest(h, Var), Grown(h, g, n), NEW x \in Var, n \notin Below(h, x)
  PROVE  Document(Collected(g), x) = Document(h, x)
<1> DEFINE c == Collected(g)
           S == Below(h, x)
<1>1. /\ DOMAIN c = Reach(g, Var)
      /\ \A m \in Reach(g, Var) : c[m] = g[m]
  BY DEF Collected
<1> HIDE DEF c
<1>2. x \in S /\ S \subseteq DOMAIN h /\ Closed(h, S) /\ DOMAIN h \subseteq DOMAIN g
  BY ForestClosed DEF Forest, Grown
<1>3. \A m \in S : g[m] = h[m]
  BY <1>2 DEF Grown
<1>4. Reach(h, {x}) = Reach(g, {x})
  BY <1>2, <1>3, ReachAgrees
<1>5. Closed(g, S)
  BY <1>2, <1>3 DEF Closed
<1>6. S \subseteq Reach(g, Var)
  <2> SUFFICES ASSUME NEW refs \in SUBSET DOMAIN g, Var \subseteq refs, Closed(g, refs)
               PROVE  S \subseteq refs
    BY <1>2, Reached
  <2>1. Reach(g, {x}) \subseteq refs
    BY ReachSmallest
  <2> QED
    BY <1>4, <2>1 DEF Below
<1>7. Reach(g, {x}) = Reach(c, {x})
  <2>1. S \subseteq DOMAIN g /\ S \subseteq DOMAIN c /\ \A m \in S : g[m] = c[m]
    BY <1>1, <1>2, <1>6
  <2> QED
    BY <1>2, <1>5, <2>1, ReachAgrees
<1>8. Below(c, x) = S /\ \A m \in S : c[m] = h[m]
  BY <1>1, <1>3, <1>4, <1>6, <1>7 DEF Below
<1> QED
  BY <1>8 DEF Document, c

LEMMA GrownKept ==
  ASSUME NEW h, NEW g, NEW n, Forest(h, Var), Grown(h, g, n)
  PROVE  Kept(h, Collected(g), n) /\ DOMAIN Collected(g) \subseteq DOMAIN g
<1>1. Var \subseteq DOMAIN g
  BY DEF Forest, Grown
<1>2. Forest(Collected(g), Var)
  BY <1>1, GrownKids, GrownOwnedOnce, CollectedForest
<1>3. DOMAIN Collected(g) = Reach(g, Var) /\ Reach(g, Var) \subseteq DOMAIN g
  BY DEF Collected, Reach
<1>4. n \in DOMAIN Collected(g)
  BY <1>3, GrownReach
<1>5. \A x \in Var : n \notin Below(h, x) => Document(Collected(g), x) = Document(h, x)
  BY GrownDocument
<1> QED
  BY <1>2, <1>3, <1>4, <1>5 DEF Kept

(* Two changes at one place, one after the other. *)
LEMMA KeptTwice ==
  ASSUME NEW f, NEW g, NEW h, NEW n, Kept(f, g, n), Kept(g, h, n)
  PROVE  Kept(f, h, n)
<1> SUFFICES ASSUME NEW x \in Var, n \notin Below(f, x)
             PROVE  Document(h, x) = Document(f, x)
  BY DEF Kept
<1>1. Document(g, x) = Document(f, x)
  BY DEF Kept
<1>2. \A j : DOMAIN Document(j, x) = Below(j, x)
  BY DEF Document
<1>3. Below(g, x) = Below(f, x)
  BY <1>1, <1>2
<1> QED
  BY <1>1, <1>3 DEF Kept

---------------------------------------------------------------------------
(* The values of the new heap. *)

Distinct(f) == \A s, t \in DOMAIN f : f[s] = f[t] => s = t

(* The values at refs own each other, and nothing of tops. *)
Grove(g, refs, tops) ==
  /\ \A m \in refs : NodeOK(g[m]) /\ Kids(g[m]) \subseteq refs \ tops
  /\ \A m, k \in refs : \A s \in DOMAIN Parts(g[m]), t \in DOMAIN Parts(g[k]) :
       Parts(g[m])[s] = Parts(g[k])[t] => m = k /\ s = t

(* g is h with values at new, and perhaps another value at n. *)
Grafted(h, g, n, new) ==
  /\ n \in DOMAIN h /\ new \cap DOMAIN h = {} /\ DOMAIN g = DOMAIN h \cup new
  /\ \A m \in DOMAIN h \ {n} : g[m] = h[m]

LEMMA EmptyParts ==
  ASSUME NEW type \in Types, NEW value
  PROVE  LET v == Value(type, TRUE, value, NoMembers, <<>>)
         IN NodeOK(v) /\ Parts(v) = <<>> /\ Kids(v) = {} /\ v.type = type
<1> DEFINE v == Value(type, TRUE, value, NoMembers, <<>>)
<1>1. /\ v.type = type /\ v.valid = TRUE /\ v.value = value /\ v.members = NoMembers /\ v.elems = <<>>
      /\ v = Value(v.type, v.valid, v.value, v.members, v.elems)
  BY DEF Value
<1> HIDE DEF v
<1>2. NoMembers = [k \in DOMAIN NoMembers |-> NoMembers[k]]
  BY DEF NoMembers
<1>3. v.elems \in Seq({v.elems[i] : i \in DOMAIN v.elems})
  BY <1>1
<1>4. NodeOK(v)
  BY <1>1, <1>2, <1>3 DEF NodeOK
<1>5. Parts(v) = <<>>
  BY <1>1 DEF Parts
<1>6. Kids(v) = {}
  BY <1>5 DEF Kids
<1> QED
  BY <1>1, <1>4, <1>5, <1>6 DEF v

LEMMA NullParts ==
  NodeOK(NullValue) /\ Parts(NullValue) = <<>> /\ Kids(NullValue) = {}
<1>1. "NULLVALUE" \in Types
  BY DEF Types
<1> QED
  BY <1>1, EmptyParts DEF NullValue, Scalar

LEMMA ElemsOfNode ==
  ASSUME NEW v, NodeOK(v)
  PROVE  Len(v.elems) \in Nat /\ DOMAIN v.elems = 1 .. Len(v.elems)
BY LenProperties DEF NodeOK

LEMMA MovedElems ==
  ASSUME NEW n \in Nat, NEW f
  PROVE  [i \in 1 .. n |-> f[i]] \in Seq({[i \in 1 .. n |-> f[i]][j] : j \in 1 .. n})
OBVIOUS

LEMMA ExceptMembers ==
  ASSUME NEW v, NEW type, NEW valid, NEW value, NEW members, NEW elems, NEW new,
         v = Value(type, valid, value, members, elems)
  PROVE  [v EXCEPT !.members = new] = Value(type, valid, value, new, elems)
BY DEF Value

LEMMA ExceptElems ==
  ASSUME NEW v, NEW type, NEW valid, NEW value, NEW members, NEW elems, NEW new,
         v = Value(type, valid, value, members, elems)
  PROVE  [v EXCEPT !.elems = new] = Value(type, valid, value, members, new)
BY DEF Value

LEMMA ExceptValid ==
  ASSUME NEW v, NEW type, NEW valid, NEW value, NEW members, NEW elems, NEW new,
         v = Value(type, valid, value, members, elems), new = valid
  PROVE  [v EXCEPT !.valid = new] = v
BY DEF Value

(* A value that is copied has the same parts, at other places. *)
LEMMA MovedParts ==
  ASSUME NEW v, NEW at, NodeOK(v)
  PROVE  /\ NodeOK(Moved(v, at))
         /\ Parts(Moved(v, at)) = [s \in DOMAIN Parts(v) |-> at[Parts(v)[s]]]
<1> DEFINE w == Moved(v, at)
           members == [k \in DOMAIN v.members |-> at[v.members[k]]]
           elems == [i \in DOMAIN v.elems |-> at[v.elems[i]]]
<1>1. w = Value(v.type, v.valid, v.value, members, elems)
  <2>1. v = Value(v.type, v.valid, v.value, v.members, v.elems)
    BY DEF NodeOK
  <2>2. w = [v EXCEPT !.members = members, !.elems = elems]
    BY DEF Moved
  <2> HIDE DEF w, members, elems
  <2> DEFINE u == [v EXCEPT !.members = members]
  <2>3. u = Value(v.type, v.valid, v.value, members, v.elems)
    BY <2>1, ExceptMembers
  <2> HIDE DEF u
  <2>4. [u EXCEPT !.elems = elems] = Value(v.type, v.valid, v.value, members, elems)
    BY <2>3, ExceptElems
  <2> QED
    BY <2>2, <2>4 DEF u
<1>2. /\ w.type = v.type /\ w.valid = v.valid /\ w.value = v.value
      /\ w.members = members /\ w.elems = elems
      /\ w = Value(w.type, w.valid, w.value, w.members, w.elems)
  BY <1>1 DEF Value
<1> HIDE DEF w
<1>3. v.members = NoMembers <=> members = NoMembers
  BY DEF NodeOK, NoMembers
<1>4. v.elems = <<>> => elems = <<>>
  OBVIOUS
<1>5. elems \in Seq({elems[i] : i \in DOMAIN elems})
  BY ElemsOfNode
<1>6. members = [k \in DOMAIN members |-> members[k]]
  OBVIOUS
<1> HIDE DEF members, elems
<1>7. NodeOK(w)
  BY <1>2, <1>3, <1>4, <1>5, <1>6 DEF NodeOK
<1>8. Parts(w) = [s \in DOMAIN Parts(v) |-> at[Parts(v)[s]]]
  BY <1>2, <1>3 DEF Parts, members, elems
<1> QED
  BY <1>7, <1>8 DEF w

(* Copies of the values of a document, none of them of two; the rest of   *)
(* the heap is as it was.                                                  *)
LEMMA JoinedAt ==
  ASSUME NEW h, NEW doc, NEW T, NEW at \in Injections(DOMAIN doc, T), NEW m \in DOMAIN doc
  PROVE  Joined(h, doc, at)[at[m]] = Moved(doc[m], at)
<1>1. (CHOOSE k \in DOMAIN doc : at[k] = at[m]) = m
  BY DEF Injections
<1>2. at[m] \in Places(doc, at)
  BY DEF Places
<1> QED
  BY <1>1, <1>2 DEF Joined

LEMMA JoinedRest ==
  ASSUME NEW h, NEW doc, NEW at
  PROVE  /\ DOMAIN Joined(h, doc, at) = DOMAIN h \cup Places(doc, at)
         /\ \A n \in DOMAIN h \ Places(doc, at) : Joined(h, doc, at)[n] = h[n]
BY DEF Joined

LEMMA PlacesIn ==
  ASSUME NEW doc, NEW T, NEW at \in Injections(DOMAIN doc, T)
  PROVE  Places(doc, at) \subseteq T
BY DEF Injections, Places

LEMMA JoinedGrove ==
  ASSUME NEW h, NEW doc, NEW root, Forest(doc, {root}), NEW T, NEW at \in Injections(DOMAIN doc, T)
  PROVE  at[root] \in Places(doc, at) /\ Grove(Joined(h, doc, at), Places(doc, at), {at[root]})
<1> DEFINE g == Joined(h, doc, at)
           places == Places(doc, at)
<1>1. root \in DOMAIN doc /\ \A m, n \in DOMAIN doc : at[m] = at[n] => m = n
  BY DEF Forest, Injections
<1> HIDE DEF g
<1>2. ASSUME NEW m \in DOMAIN doc
      PROVE  /\ NodeOK(g[at[m]])
             /\ Parts(g[at[m]]) = [s \in DOMAIN Parts(doc[m]) |-> at[Parts(doc[m])[s]]]
  <2>1. g[at[m]] = Moved(doc[m], at)
    BY JoinedAt DEF g
  <2>2. NodeOK(doc[m])
    BY DEF Forest
  <2> QED
    BY <2>1, <2>2, MovedParts
<1>3. \A m \in DOMAIN doc : \A s \in DOMAIN Parts(doc[m]) : Parts(doc[m])[s] \in DOMAIN doc \ {root}
  BY DEF Forest, Kids
<1>4. ASSUME NEW m \in DOMAIN doc
      PROVE  Kids(g[at[m]]) \subseteq places \ {at[root]}
  <2> SUFFICES ASSUME NEW s \in DOMAIN Parts(g[at[m]])
               PROVE  Parts(g[at[m]])[s] \in places \ {at[root]}
    BY DEF Kids
  <2>1. Parts(doc[m])[s] \in DOMAIN doc \ {root} /\ Parts(g[at[m]])[s] = at[Parts(doc[m])[s]]
    BY <1>2, <1>3
  <2> QED
    BY <1>1, <2>1 DEF Places
<1>5. ASSUME NEW m \in DOMAIN doc, NEW n \in DOMAIN doc,
             NEW s \in DOMAIN Parts(g[at[m]]), NEW t \in DOMAIN Parts(g[at[n]]),
             Parts(g[at[m]])[s] = Parts(g[at[n]])[t]
      PROVE  m = n /\ s = t
  <2>1. /\ s \in DOMAIN Parts(doc[m]) /\ Parts(g[at[m]])[s] = at[Parts(doc[m])[s]]
        /\ t \in DOMAIN Parts(doc[n]) /\ Parts(g[at[n]])[t] = at[Parts(doc[n])[t]]
    BY <1>2
  <2>2. Parts(doc[m])[s] \in DOMAIN doc /\ Parts(doc[n])[t] \in DOMAIN doc
    BY <1>3, <2>1
  <2>3. at[Parts(doc[m])[s]] = at[Parts(doc[n])[t]]
    BY <1>5, <2>1
  <2>4. Parts(doc[m])[s] = Parts(doc[n])[t]
    BY <1>1, <2>2, <2>3
  <2> QED
    BY <2>1, <2>4 DEF Forest, OwnedOnce
<1>6. ASSUME NEW i \in places, NEW j \in places,
             NEW s \in DOMAIN Parts(g[i]), NEW t \in DOMAIN Parts(g[j]), Parts(g[i])[s] = Parts(g[j])[t]
      PROVE  i = j /\ s = t
  <2>1. PICK m \in DOMAIN doc : i = at[m]
    BY DEF Places
  <2>2. PICK n \in DOMAIN doc : j = at[n]
    BY DEF Places
  <2> QED
    BY <1>5, <1>6, <2>1, <2>2
<1>7. ASSUME NEW i \in places
      PROVE  NodeOK(g[i]) /\ Kids(g[i]) \subseteq places \ {at[root]}
  <2>1. PICK m \in DOMAIN doc : i = at[m]
    BY DEF Places
  <2> QED
    BY <1>2, <1>4, <2>1
<1>8. at[root] \in places
  BY <1>1 DEF Places
<1> HIDE DEF places
<1>9. Grove(g, places, {at[root]})
  BY <1>6, <1>7 DEF Grove
<1> QED
  BY <1>8, <1>9 DEF g, places

(* New values that make a forest; n owns of them only the roots.           *)
LEMMA GraftGrown ==
  ASSUME NEW h, NEW n, Forest(h, Var), NEW g, NEW new, Grafted(h, g, n, new),
         NEW tops, tops \subseteq new, Grove(g, new, tops),
         NodeOK(g[n]), Kids(g[n]) \subseteq Kids(h[n]) \cup tops, Distinct(Parts(g[n]))
  PROVE  Grown(h, g, n)
<1>1. Added(h, g) = new /\ n \in DOMAIN h /\ DOMAIN h \subseteq DOMAIN g
  BY DEF Added, Grafted
<1>2. Kids(h[n]) \cap new = {}
  BY ForestClosed DEF Grafted
<1>3. ASSUME NEW m \in new, NEW r \in Kids(g[m]), r \in Kids(g[n])
      PROVE  FALSE
  BY <1>2, <1>3 DEF Grove
<1>4. \A m \in new \cup {n} : \A s \in DOMAIN Parts(g[m]) : Parts(g[m])[s] \in Kids(g[m])
  BY DEF Kids
<1>5. ASSUME NEW m \in new \cup {n}, NEW k \in new \cup {n},
             NEW s \in DOMAIN Parts(g[m]), NEW t \in DOMAIN Parts(g[k]), Parts(g[m])[s] = Parts(g[k])[t]
      PROVE  m = k /\ s = t
  <2>1. CASE m \in new /\ k \in new
    BY <1>5, <2>1 DEF Grove
  <2>2. CASE m = n /\ k = n
    BY <1>5, <2>2 DEF Distinct
  <2>3. CASE m \in new /\ k = n
    BY <1>3, <1>4, <1>5, <2>3
  <2>4. CASE m = n /\ k \in new
    BY <1>3, <1>4, <1>5, <2>4
  <2> QED
    BY <2>1, <2>2, <2>3, <2>4
<1>6. Kids(g[n]) \subseteq Kids(h[n]) \cup new /\ \A m \in new : Kids(g[m]) \subseteq new
  BY DEF Grove
<1>7. \A m \in new \cup {n} : NodeOK(g[m])
  BY DEF Grove
<1>8. \A m \in DOMAIN h \ {n} : g[m] = h[m]
  BY DEF Grafted
<1> QED
  BY <1>1, <1>5, <1>6, <1>7, <1>8 DEF Grown

---------------------------------------------------------------------------
(* The changed value. *)

LEMMA MembersParts ==
  ASSUME NEW v, v.elems = <<>>
  PROVE  DOMAIN Parts(v) = DOMAIN v.members /\ \A k \in DOMAIN v.members : Parts(v)[k] = v.members[k]
<1>1. DOMAIN NoMembers = {} /\ DOMAIN <<>> = {}
  BY DEF NoMembers
<1> QED
  BY <1>1 DEF Parts

LEMMA MembersReplaced ==
  ASSUME NEW v, NodeOK(v), v.elems = <<>>, v.type \in {"OBJECT", "BAD"},
         NEW members, members = [k \in DOMAIN members |-> members[k]]
  PROVE  LET w == [v EXCEPT !.members = members]
         IN /\ NodeOK(w)
            /\ DOMAIN Parts(w) = DOMAIN members
            /\ \A k \in DOMAIN members : Parts(w)[k] = members[k]
<1> DEFINE w == [v EXCEPT !.members = members]
<1>1. v = Value(v.type, v.valid, v.value, v.members, v.elems)
  BY DEF NodeOK
<1>2. w = Value(v.type, v.valid, v.value, members, v.elems)
  BY <1>1, ExceptMembers
<1> HIDE DEF w
<1>3. /\ w.type = v.type /\ w.valid = v.valid /\ w.members = members /\ w.elems = v.elems
      /\ w = Value(w.type, w.valid, w.value, w.members, w.elems)
  BY <1>2 DEF Value
<1>4. NodeOK(w)
  BY <1>3 DEF NodeOK
<1>5. DOMAIN Parts(w) = DOMAIN members /\ \A k \in DOMAIN members : Parts(w)[k] = members[k]
  BY <1>3, MembersParts
<1> QED
  BY <1>4, <1>5 DEF w

LEMMA ElemsReplaced ==
  ASSUME NEW v, NodeOK(v), v.type = "ARRAY", NEW T, NEW elems \in Seq(T)
  PROVE  LET w == [v EXCEPT !.elems = elems]
         IN NodeOK(w) /\ Parts(w) = elems
<1> DEFINE w == [v EXCEPT !.elems = elems]
<1>1. v = Value(v.type, v.valid, v.value, v.members, v.elems) /\ v.members = NoMembers
  BY DEF NodeOK
<1>2. w = Value(v.type, v.valid, v.value, v.members, elems)
  BY <1>1, ExceptElems
<1> HIDE DEF w
<1>3. /\ w.type = v.type /\ w.valid = v.valid /\ w.members = v.members /\ w.elems = elems
      /\ w = Value(w.type, w.valid, w.value, w.members, w.elems)
  BY <1>2 DEF Value
<1>4. elems \in Seq({elems[i] : i \in DOMAIN elems})
  BY ElementOfSeq, LenProperties
<1>5. NodeOK(w)
  BY <1>3, <1>4 DEF NodeOK
<1> QED
  BY <1>1, <1>3, <1>5 DEF w, Parts

(* add(name), operator[](name): one member more, or another one. *)
LEMMA MemberAdded ==
  ASSUME NEW v, NodeOK(v), v.type = "OBJECT", Distinct(Parts(v)), NEW key, NEW r, r \notin Kids(v)
  PROVE  LET w == [v EXCEPT !.members = With(v.members, key, r)]
         IN NodeOK(w) /\ Kids(w) \subseteq Kids(v) \cup {r} /\ Distinct(Parts(w))
<1> DEFINE members == With(v.members, key, r)
           w == [v EXCEPT !.members = members]
<1>1. v.elems = <<>>
  BY DEF NodeOK
<1>2. /\ DOMAIN members = DOMAIN v.members \cup {key}
      /\ \A k \in DOMAIN members : members[k] = IF k = key THEN r ELSE v.members[k]
      /\ members = [k \in DOMAIN members |-> members[k]]
  BY DEF With
<1> HIDE DEF members
<1>3. /\ DOMAIN Parts(v) = DOMAIN v.members
      /\ \A k \in DOMAIN v.members : Parts(v)[k] = v.members[k]
  BY <1>1, MembersParts
<1>4. /\ NodeOK(w) /\ DOMAIN Parts(w) = DOMAIN members
      /\ \A k \in DOMAIN members : Parts(w)[k] = members[k]
  BY <1>1, <1>2, MembersReplaced
<1> HIDE DEF w
<1>5. \A k \in DOMAIN v.members : v.members[k] \in Kids(v)
  BY <1>3 DEF Kids
<1>6. Kids(w) \subseteq Kids(v) \cup {r}
  BY <1>2, <1>4, <1>5 DEF Kids
<1>7. Distinct(Parts(w))
  <2> SUFFICES ASSUME NEW s \in DOMAIN members, NEW t \in DOMAIN members, members[s] = members[t]
               PROVE  s = t
    BY <1>4 DEF Distinct
  <2>1. CASE s # key /\ t # key
    <3>1. s \in DOMAIN v.members /\ t \in DOMAIN v.members /\ v.members[s] = v.members[t]
      BY <1>2, <2>1
    <3> QED
      BY <1>3, <3>1 DEF Distinct
  <2>2. CASE s = key \/ t = key
    BY <1>2, <1>5, <2>2
  <2> QED
    BY <2>1, <2>2
<1> QED
  BY <1>4, <1>6, <1>7 DEF members, w

(* erase(name) *)
LEMMA MemberErased ==
  ASSUME NEW v, NodeOK(v), Distinct(Parts(v)), NEW key \in DOMAIN v.members
  PROVE  LET w == [v EXCEPT !.members = [k \in DOMAIN v.members \ {key} |-> v.members[k]]]
         IN NodeOK(w) /\ Kids(w) \subseteq Kids(v) /\ Distinct(Parts(w))
<1> DEFINE members == [k \in DOMAIN v.members \ {key} |-> v.members[k]]
           w == [v EXCEPT !.members = members]
<1>1. v.members # NoMembers
  BY DEF NoMembers
<1>2. v.elems = <<>> /\ v.type \in {"OBJECT", "BAD"} /\ Parts(v) = v.members
  BY <1>1 DEF NodeOK, Parts
<1>3. /\ DOMAIN members = DOMAIN v.members \ {key}
      /\ \A k \in DOMAIN members : members[k] = v.members[k]
      /\ members = [k \in DOMAIN members |-> members[k]]
  OBVIOUS
<1> HIDE DEF members
<1>4. /\ NodeOK(w) /\ DOMAIN Parts(w) = DOMAIN members
      /\ \A k \in DOMAIN members : Parts(w)[k] = members[k]
  BY <1>2, <1>3, MembersReplaced
<1> HIDE DEF w
<1>5. Kids(w) \subseteq Kids(v)
  BY <1>2, <1>3, <1>4 DEF Kids
<1>6. Distinct(Parts(w))
  BY <1>2, <1>3, <1>4 DEF Distinct
<1> QED
  BY <1>4, <1>5, <1>6 DEF members, w

LEMMA ArrayNode ==
  ASSUME NEW v, NodeOK(v), v.type = "ARRAY"
  PROVE  Parts(v) = v.elems /\ v.elems \in Seq(Kids(v))
<1>1. v.members = NoMembers
  BY DEF NodeOK
<1>2. Parts(v) = v.elems
  BY <1>1 DEF Parts
<1> QED
  BY <1>2 DEF NodeOK, Kids

(* add(), operator[](index): elements at the end of the others. *)
LEMMA ElemsAdded ==
  ASSUME NEW v, NodeOK(v), v.type = "ARRAY", Distinct(Parts(v)),
         NEW T, NEW cells \in Seq(T), T \cap Kids(v) = {}, Distinct(cells)
  PROVE  LET w == [v EXCEPT !.elems = v.elems \o cells]
         IN NodeOK(w) /\ Kids(w) \subseteq Kids(v) \cup T /\ Distinct(Parts(w))
<1> DEFINE elems == v.elems \o cells
           w == [v EXCEPT !.elems = elems]
           a == Len(v.elems)
           b == Len(cells)
<1>1. v.elems \in Seq(Kids(v)) /\ Parts(v) = v.elems
  BY ArrayNode
<1>2. v.elems \in Seq(Kids(v) \cup T) /\ cells \in Seq(Kids(v) \cup T)
  BY <1>1
<1>3. /\ elems \in Seq(Kids(v) \cup T) /\ Len(elems) = a + b
      /\ \A i \in 1 .. a + b : elems[i] = IF i <= a THEN v.elems[i] ELSE cells[i - a]
  BY <1>2, ConcatProperties
<1>4. /\ a \in Nat /\ DOMAIN v.elems = 1 .. a /\ \A i \in 1 .. a : v.elems[i] \in Kids(v)
      /\ b \in Nat /\ DOMAIN cells = 1 .. b /\ \A i \in 1 .. b : cells[i] \in T
  BY <1>1, LenProperties, ElementOfSeq
<1> HIDE DEF elems
<1>5. DOMAIN elems = 1 .. a + b /\ \A i \in 1 .. a + b : elems[i] \in Kids(v) \cup T
  BY <1>3, LenProperties, ElementOfSeq
<1>6. NodeOK(w) /\ Parts(w) = elems
  BY <1>3, ElemsReplaced
<1> HIDE DEF w
<1>7. Kids(w) \subseteq Kids(v) \cup T
  BY <1>5, <1>6 DEF Kids
<1> HIDE DEF a, b
<1>8. Distinct(elems)
  <2> SUFFICES ASSUME NEW i \in 1 .. a + b, NEW j \in 1 .. a + b, elems[i] = elems[j]
               PROVE  i = j
    BY <1>5 DEF Distinct
  <2>1. CASE i <= a /\ j <= a
    <3>1. i \in 1 .. a /\ j \in 1 .. a /\ v.elems[i] = v.elems[j]
      BY <1>3, <1>4, <2>1
    <3> QED
      BY <1>1, <1>4, <3>1 DEF Distinct
  <2>2. CASE i > a /\ j > a
    <3>1. i - a \in 1 .. b /\ j - a \in 1 .. b /\ cells[i - a] = cells[j - a]
      BY <1>3, <1>4, <2>2
    <3>2. i - a = j - a
      BY <1>4, <3>1 DEF Distinct
    <3> QED
      BY <1>4, <3>2
  <2>3. CASE i <= a /\ j > a
    <3>1. v.elems[i] = cells[j - a] /\ v.elems[i] \in Kids(v) /\ cells[j - a] \in T
      BY <1>3, <1>4, <2>3
    <3> QED
      BY <3>1
  <2>4. CASE i > a /\ j <= a
    <3>1. v.elems[j] = cells[i - a] /\ v.elems[j] \in Kids(v) /\ cells[i - a] \in T
      BY <1>3, <1>4, <2>4
    <3> QED
      BY <3>1
  <2> QED
    BY <1>4, <2>1, <2>2, <2>3, <2>4
<1> QED
  BY <1>6, <1>7, <1>8 DEF elems, w

(* erase(index) *)
LEMMA ElemErased ==
  ASSUME NEW v, NodeOK(v), v.type = "ARRAY", Distinct(Parts(v)), NEW i \in 1 .. Len(v.elems)
  PROVE  LET w == [v EXCEPT !.elems = RemoveAt(v.elems, i)]
         IN NodeOK(w) /\ Kids(w) \subseteq Kids(v) /\ Distinct(Parts(w))
<1> DEFINE elems == RemoveAt(v.elems, i)
           w == [v EXCEPT !.elems = elems]
           a == Len(v.elems)
<1>1. v.elems \in Seq(Kids(v)) /\ Parts(v) = v.elems
  BY ArrayNode
<1>2. /\ elems \in Seq(Kids(v)) /\ Len(elems) = a - 1
      /\ \A j \in 1 .. a - 1 : elems[j] = IF j < i THEN v.elems[j] ELSE v.elems[j + 1]
  BY <1>1, RemoveAtProperties
<1>3. a \in Nat /\ DOMAIN v.elems = 1 .. a
  BY <1>1, LenProperties
<1> HIDE DEF elems
<1>4. DOMAIN elems = 1 .. a - 1 /\ \A j \in 1 .. a - 1 : elems[j] \in Kids(v)
  BY <1>2, LenProperties, ElementOfSeq
<1>5. NodeOK(w) /\ Parts(w) = elems
  BY <1>2, ElemsReplaced
<1> HIDE DEF w, a
<1>6. Kids(w) \subseteq Kids(v)
  BY <1>4, <1>5 DEF Kids
<1>7. Distinct(elems)
  <2> SUFFICES ASSUME NEW j \in 1 .. a - 1, NEW k \in 1 .. a - 1, elems[j] = elems[k]
               PROVE  j = k
    BY <1>4 DEF Distinct
  <2> DEFINE was(m) == IF m < i THEN m ELSE m + 1
  <2>1. elems[j] = v.elems[was(j)] /\ elems[k] = v.elems[was(k)]
    BY <1>2
  <2>2. was(j) \in 1 .. a /\ was(k) \in 1 .. a
    BY <1>3
  <2>3. was(j) = was(k)
    <3> HIDE DEF was
    <3> QED
      BY <1>1, <1>3, <2>1, <2>2 DEF Distinct
  <2> QED
    BY <1>3, <2>3 DEF a
<1> QED
  BY <1>5, <1>6, <1>7 DEF elems, w

---------------------------------------------------------------------------
(* The operations, each as one change or as two. *)

LEMMA DistinctParts ==
  ASSUME NEW h, NEW roots, Forest(h, roots), NEW n \in DOMAIN h
  PROVE  Distinct(Parts(h[n])) /\ NodeOK(h[n])
BY DEF Forest, OwnedOnce, Distinct

(* Another value at n, which may let go of parts. *)
LEMMA ValueKept ==
  ASSUME NEW h, Forest(h, Var), NEW n \in DOMAIN h,
         NEW v, NodeOK(v), Kids(v) \subseteq Kids(h[n]), Distinct(Parts(v))
  PROVE  LET g == Collected([h EXCEPT ![n] = v])
         IN Kept(h, g, n) /\ DOMAIN g \subseteq DOMAIN h /\ g[n] = v
<1> DEFINE f == [h EXCEPT ![n] = v]
           g == Collected(f)
<1>1. DOMAIN f = DOMAIN h /\ f[n] = v /\ \A m \in DOMAIN h \ {n} : f[m] = h[m]
  OBVIOUS
<1> HIDE DEF f
<1>2. Grown(h, f, n)
  BY <1>1 DEF Grown, Added, Distinct
<1>3. Kept(h, g, n) /\ DOMAIN g \subseteq DOMAIN f
  BY <1>2, GrownKept
<1>4. g[n] = v
  BY <1>1, <1>3 DEF Kept, Collected
<1> QED
  BY <1>1, <1>3, <1>4 DEF f

LEMMA CleanKept ==
  ASSUME NEW h, Forest(h, Var), NEW n \in DOMAIN h
  PROVE  Kept(h, Clean(h, n), n) /\ DOMAIN Clean(h, n) \subseteq DOMAIN h
<1>1. NodeOK(NullValue) /\ Kids(NullValue) \subseteq Kids(h[n]) /\ Distinct(Parts(NullValue))
  BY NullParts DEF Distinct
<1> QED
  BY <1>1, ValueKept DEF Clean

LEMMA BecomeKept ==
  ASSUME NEW h, Forest(h, Var), NEW n \in DOMAIN h, NEW type \in Types
  PROVE  LET g == Become(h, n, type)
         IN Kept(h, g, n) /\ DOMAIN g \subseteq DOMAIN h /\ g[n].type = type
<1>1. CASE h[n].type = type
  <2>1. Become(h, n, type) = h
    BY <1>1 DEF Become
  <2>2. Kept(h, h, n)
    BY DEF Kept
  <2> QED
    BY <1>1, <2>1, <2>2
<1>2. CASE h[n].type # type
  <2> DEFINE v == Value(type, TRUE, <<>>, NoMembers, <<>>)
             g == Collected([h EXCEPT ![n] = v])
  <2>1. Become(h, n, type) = g
    BY <1>2 DEF Become
  <2>2. NodeOK(v) /\ Parts(v) = <<>> /\ Kids(v) = {} /\ v.type = type
    BY EmptyParts
  <2> HIDE DEF v
  <2>3. Kids(v) \subseteq Kids(h[n]) /\ Distinct(Parts(v))
    BY <2>2 DEF Distinct
  <2>4. Kept(h, g, n) /\ DOMAIN g \subseteq DOMAIN h /\ g[n] = v
    BY <2>2, <2>3, ValueKept
  <2> QED
    BY <2>1, <2>2, <2>4
<1> QED
  BY <1>1, <1>2

(* What is not a part of n is there after clean(). *)
LEMMA CleanElsewhere ==
  ASSUME NEW h, Forest(h, Var), NEW n \in DOMAIN h, NEW m \in DOMAIN h, m \notin Below(h, n)
  PROVE  m \in DOMAIN Clean(h, n)
<1> DEFINE f == [h EXCEPT ![n] = NullValue]
<1>1. DOMAIN f = DOMAIN h /\ \A k \in DOMAIN h \ {n} : f[k] = h[k]
  OBVIOUS
<1> HIDE DEF f
<1>2. DOMAIN Clean(h, n) = Reach(f, Var)
  BY DEF Clean, Collected, f
<1> SUFFICES ASSUME NEW refs \in SUBSET DOMAIN f, Var \subseteq refs, Closed(f, refs)
             PROVE  m \in refs
  BY <1>1, <1>2, Reached
<1> DEFINE S == refs \cup Below(h, n)
<1>3. n \in Below(h, n) /\ Below(h, n) \subseteq DOMAIN h /\ Closed(h, Below(h, n))
  BY ForestClosed
<1>4. Closed(h, S)
  <2> SUFFICES ASSUME NEW k \in S
               PROVE  Kids(h[k]) \subseteq S
    BY DEF Closed
  <2>1. CASE k \in Below(h, n)
    BY <1>3, <2>1 DEF Closed
  <2>2. CASE k \notin Below(h, n)
    <3>1. k \in refs /\ f[k] = h[k]
      BY <1>1, <1>3, <2>2
    <3> QED
      BY <3>1 DEF Closed
  <2> QED
    BY <2>1, <2>2
<1>5. Reach(h, Var) \subseteq S
  BY <1>1, <1>3, <1>4, ReachSmallest
<1> QED
  BY <1>5 DEF Forest

LEMMA WriteKept ==
  ASSUME NEW h, Forest(h, Var), NEW n \in DOMAIN h, NEW doc, NEW root, Forest(doc, {root}),
         Write(n, h, doc, root)
  PROVE  Kept(h, store', n) /\ DOMAIN store' \subseteq DOMAIN h \cup Cell
<1>1. PICK at \in Injections(DOMAIN doc, Fresh(h) \cup {n}) :
         at[root] = n /\ store' = Collected(Joined(h, doc, at))
  BY DEF Write
<1> DEFINE g == Joined(h, doc, at)
           places == Places(doc, at)
           new == places \ {n}
<1>2. n \in places /\ Grove(g, places, {n})
  BY <1>1, JoinedGrove
<1>3. DOMAIN g = DOMAIN h \cup places /\ \A m \in DOMAIN h \ places : g[m] = h[m]
  BY JoinedRest
<1>4. places \subseteq Fresh(h) \cup {n}
  BY PlacesIn
<1> HIDE DEF g, places
<1>5. Grafted(h, g, n, new) /\ new \subseteq Cell
  BY <1>3, <1>4 DEF Fresh, Grafted
<1>6. NodeOK(g[n]) /\ Kids(g[n]) \subseteq new /\ Distinct(Parts(g[n]))
  BY <1>2 DEF Grove, Distinct
<1>7. Grove(g, new, Kids(g[n]))
  <2>1. \A m \in new : NodeOK(g[m]) /\ Kids(g[m]) \subseteq new
    BY <1>2 DEF Grove
  <2>2. ASSUME NEW m \in new, NEW r \in Kids(g[m]), r \in Kids(g[n])
        PROVE  FALSE
    BY <1>2, <2>2 DEF Grove, Kids
  <2> QED
    BY <1>2, <2>1, <2>2 DEF Grove
<1> HIDE DEF new
<1>8. Grown(h, g, n)
  BY <1>5, <1>6, <1>7, GraftGrown
<1>9. Kept(h, Collected(g), n) /\ DOMAIN Collected(g) \subseteq DOMAIN g
  BY <1>8, GrownKept
<1> QED
  BY <1>1, <1>5, <1>9 DEF Grafted, g

(* A document is handed over to n, whose value is w then. *)
LEMMA HandedKept ==
  ASSUME NEW h, Forest(h, Var), NEW n \in DOMAIN h, NEW doc, Forest(doc, {Top}),
         NEW T, T \cap DOMAIN h = {}, T \subseteq Cell, NEW at \in Injections(DOMAIN doc, T),
         NEW w, NodeOK(w), Kids(w) \subseteq Kids(h[n]) \cup {at[Top]}, Distinct(Parts(w))
  PROVE  LET g == Collected([Joined(h, doc, at) EXCEPT ![n] = w])
         IN Kept(h, g, n) /\ DOMAIN g \subseteq DOMAIN h \cup Cell
<1> DEFINE f == Joined(h, doc, at)
           g == [f EXCEPT ![n] = w]
           places == Places(doc, at)
           top == at[Top]
<1>1. top \in places /\ Grove(f, places, {top})
  BY JoinedGrove
<1>2. DOMAIN f = DOMAIN h \cup places /\ \A m \in DOMAIN h \ places : f[m] = h[m]
  BY DEF Joined
<1>3. places \subseteq T
  BY PlacesIn
<1> HIDE DEF f, places
<1>4. DOMAIN g = DOMAIN f /\ g[n] = w /\ \A m \in DOMAIN f \ {n} : g[m] = f[m]
  BY <1>2
<1> HIDE DEF g
<1>5. places \cap DOMAIN h = {} /\ \A m \in places : g[m] = f[m]
  BY <1>2, <1>3, <1>4
<1>6. Grafted(h, g, n, places)
  BY <1>2, <1>4, <1>5 DEF Grafted
<1>7. Grove(g, places, {top})
  BY <1>1, <1>5 DEF Grove
<1>8. NodeOK(g[n]) /\ Kids(g[n]) \subseteq Kids(h[n]) \cup {top} /\ Distinct(Parts(g[n]))
  BY <1>4
<1> HIDE DEF top
<1>9. Grown(h, g, n)
  BY <1>1, <1>6, <1>7, <1>8, GraftGrown
<1>10. Kept(h, Collected(g), n) /\ DOMAIN Collected(g) \subseteq DOMAIN g
  BY <1>9, GrownKept
<1> QED
  BY <1>3, <1>6, <1>10 DEF g, f, Grafted

(* Null values at new cells are added to the value at n. *)
LEMMA NullsKept ==
  ASSUME NEW h, Forest(h, Var), NEW n, NEW new, new \subseteq Cell,
         NEW g, Grafted(h, g, n, new), \A m \in new : g[m] = NullValue,
         NodeOK(g[n]), Kids(g[n]) \subseteq Kids(h[n]) \cup new, Distinct(Parts(g[n]))
  PROVE  Kept(h, Collected(g), n) /\ DOMAIN Collected(g) \subseteq DOMAIN h \cup Cell
<1>1. \A m \in new : NodeOK(g[m]) /\ Parts(g[m]) = <<>> /\ Kids(g[m]) = {}
  BY NullParts
<1>2. Grove(g, new, new)
  <2>1. \A m \in new : DOMAIN Parts(g[m]) = {}
    BY <1>1
  <2> QED
    BY <1>1, <2>1 DEF Grove
<1>3. Grown(h, g, n)
  BY <1>2, GraftGrown
<1>4. Kept(h, Collected(g), n) /\ DOMAIN Collected(g) \subseteq DOMAIN g
  BY <1>3, GrownKept
<1> QED
  BY <1>4 DEF Grafted

(* A step at n: what every operation is. *)
StepAt(n) == Kept(store, store', n) /\ DOMAIN store' \subseteq Var \cup Cell

LEMMA SetStep ==
  ASSUME JsonTypeOK, NEW n \in DOMAIN store, NEW v \in Scalars, Set(n, v)
  PROVE  StepAt(n)
<1>1. NodeOK(v) /\ Parts(v) = <<>>
  BY ScalarsAssumption
<1>2. DOMAIN Parts(v) = {}
  BY <1>1
<1>3. Kids(v) \subseteq Kids(store[n]) /\ Distinct(Parts(v))
  BY <1>2 DEF Kids, Distinct
<1>4. /\ Kept(store, Collected([store EXCEPT ![n] = v]), n)
      /\ DOMAIN Collected([store EXCEPT ![n] = v]) \subseteq DOMAIN store
  BY <1>1, <1>3, ValueKept DEF JsonTypeOK
<1> QED
  BY <1>4 DEF Set, StepAt, JsonTypeOK

LEMMA JsonStep ==
  ASSUME JsonTypeOK, NEW n \in DOMAIN store, NEW doc \in Parsed, Json(n, doc)
  PROVE  StepAt(n)
<1> DEFINE h == Clean(store, n)
<1>1. Kept(store, h, n) /\ DOMAIN h \subseteq DOMAIN store
  BY CleanKept DEF JsonTypeOK
<1>2. Write(n, h, doc, Top) /\ Forest(doc, {Top})
  BY DocumentsAssumption DEF Json
<1> HIDE DEF h
<1>3. Kept(h, store', n) /\ DOMAIN store' \subseteq DOMAIN h \cup Cell
  BY <1>1, <1>2, WriteKept DEF Kept
<1>4. Kept(store, store', n)
  BY <1>1, <1>3, KeptTwice
<1> QED
  BY <1>1, <1>3, <1>4 DEF StepAt, JsonTypeOK

LEMMA AssignStep ==
  ASSUME JsonTypeOK, NEW n \in DOMAIN store, NEW m \in DOMAIN store, Assign(n, m)
  PROVE  StepAt(n)
<1> DEFINE h == Clean(store, n)
<1>1. Kept(store, h, n) /\ DOMAIN h \subseteq DOMAIN store
  BY CleanKept DEF JsonTypeOK
<1>2. m \in DOMAIN h
  BY CleanElsewhere DEF Assign, JsonTypeOK
<1>3. Write(n, h, Document(h, m), m)
  BY DEF Assign
<1> HIDE DEF h
<1>4. Forest(Document(h, m), {m})
  BY <1>1, <1>2, DocumentForest DEF Kept
<1>5. Kept(h, store', n) /\ DOMAIN store' \subseteq DOMAIN h \cup Cell
  BY <1>1, <1>3, <1>4, WriteKept DEF Kept
<1>6. Kept(store, store', n)
  BY <1>1, <1>5, KeptTwice
<1> QED
  BY <1>1, <1>5, <1>6 DEF StepAt, JsonTypeOK

(* Add and operator[] first see to it that the value is of the right type. *)
LEMMA BecomeStep ==
  ASSUME JsonTypeOK, NEW n \in DOMAIN store, NEW type \in Types
  PROVE  LET h == Become(store, n, type)
         IN /\ Kept(store, h, n) /\ Forest(h, Var) /\ n \in DOMAIN h
            /\ DOMAIN h \subseteq DOMAIN store /\ DOMAIN h \subseteq Var \cup Cell
            /\ h[n].type = type /\ NodeOK(h[n]) /\ Distinct(Parts(h[n]))
            /\ Kids(h[n]) \subseteq DOMAIN h
<1> DEFINE h == Become(store, n, type)
<1>1. Kept(store, h, n) /\ DOMAIN h \subseteq DOMAIN store /\ h[n].type = type
  BY BecomeKept DEF JsonTypeOK
<1> HIDE DEF h
<1>2. Forest(h, Var) /\ n \in DOMAIN h
  BY <1>1 DEF Kept
<1>3. NodeOK(h[n]) /\ Distinct(Parts(h[n])) /\ Kids(h[n]) \subseteq DOMAIN h
  BY <1>2, DistinctParts, ForestClosed
<1> QED
  BY <1>1, <1>2, <1>3 DEF h, JsonTypeOK

LEMMA IndexNameStep ==
  ASSUME JsonTypeOK, NEW n \in DOMAIN store, NEW key, IndexName(n, key)
  PROVE  StepAt(n)
<1> DEFINE type == "OBJECT"
           h == Become(store, n, type)
<1>1. type \in Types
  BY DEF Types
<1> HIDE DEF type
<1>2. /\ Kept(store, h, n) /\ Forest(h, Var) /\ n \in DOMAIN h
      /\ DOMAIN h \subseteq Var \cup Cell
      /\ h[n].type = type /\ NodeOK(h[n]) /\ Distinct(Parts(h[n]))
      /\ Kids(h[n]) \subseteq DOMAIN h
  BY <1>1, BecomeStep
<1>3. \/ store' = h
      \/ \E r \in Fresh(h) :
           store' = Collected([With(h, r, NullValue) EXCEPT ![n].members = With(@, key, r)])
  BY DEF IndexName, type
<1> HIDE DEF h
<1>4. CASE store' = h
  BY <1>2, <1>4 DEF StepAt
<1>5. CASE \E r \in Fresh(h) :
             store' = Collected([With(h, r, NullValue) EXCEPT ![n].members = With(@, key, r)])
  <2>1. PICK r \in Fresh(h) :
          store' = Collected([With(h, r, NullValue) EXCEPT ![n].members = With(@, key, r)])
    BY <1>5
  <2> DEFINE w == [h[n] EXCEPT !.members = With(h[n].members, key, r)]
             f == With(h, r, NullValue)
             g == [f EXCEPT ![n].members = With(@, key, r)]
  <2>2. r \in Cell /\ r \notin DOMAIN h /\ r # n /\ r \notin Kids(h[n])
    BY <1>2 DEF Fresh
  <2>3. NodeOK(w) /\ Kids(w) \subseteq Kids(h[n]) \cup {r} /\ Distinct(Parts(w))
    BY <1>2, <2>2, MemberAdded DEF type
  <2>4. /\ DOMAIN f = DOMAIN h \cup {r} /\ f[r] = NullValue
        /\ \A m \in DOMAIN h : f[m] = h[m]
    BY <2>2 DEF With
  <2>5. g = [f EXCEPT ![n] = w]
    <3> HIDE DEF f
    <3>1. f[n] = h[n]
      BY <1>2, <2>4
    <3> QED
      BY <3>1
  <2> HIDE DEF g, f, w
  <2>6. /\ DOMAIN g = DOMAIN h \cup {r} /\ g[r] = NullValue /\ g[n] = w
        /\ \A m \in DOMAIN h \ {n} : g[m] = h[m]
    BY <1>2, <2>2, <2>4, <2>5
  <2> DEFINE new == {r}
  <2>7. Grafted(h, g, n, new) /\ new \subseteq Cell /\ \A m \in new : g[m] = NullValue
    BY <1>2, <2>2, <2>6 DEF Grafted
  <2>8. NodeOK(g[n]) /\ Kids(g[n]) \subseteq Kids(h[n]) \cup new /\ Distinct(Parts(g[n]))
    BY <2>3, <2>6
  <2> HIDE DEF new
  <2>9. Kept(h, Collected(g), n) /\ DOMAIN Collected(g) \subseteq DOMAIN h \cup Cell
    BY <1>2, <2>7, <2>8, NullsKept
  <2>10. store' = Collected(g)
    BY <2>1 DEF g, f
  <2>11. Kept(store, store', n)
    BY <1>2, <2>9, <2>10, KeptTwice
  <2> QED
    BY <1>2, <2>9, <2>10, <2>11 DEF StepAt
<1> QED
  BY <1>3, <1>4, <1>5

LEMMA IndexNumberStep ==
  ASSUME JsonTypeOK, NEW n \in DOMAIN store, NEW index \in 1 .. MaxIndex, IndexNumber(n, index)
  PROVE  StepAt(n)
<1> DEFINE type == "ARRAY"
           h == Become(store, n, type)
           missing == index - Len(h[n].elems)
<1>1. type \in Types
  BY DEF Types
<1> HIDE DEF type
<1>2. /\ Kept(store, h, n) /\ Forest(h, Var) /\ n \in DOMAIN h
      /\ DOMAIN h \subseteq Var \cup Cell
      /\ h[n].type = type /\ NodeOK(h[n]) /\ Distinct(Parts(h[n]))
      /\ Kids(h[n]) \subseteq DOMAIN h
  BY <1>1, BecomeStep
<1>3. PICK cells \in Injections(1 .. missing, Fresh(h)) :
        store' = Collected([m \in DOMAIN h \cup {cells[i] : i \in 1 .. missing} |->
                              IF m \notin DOMAIN h THEN NullValue
                              ELSE IF m = n THEN [h[n] EXCEPT !.elems = @ \o cells] ELSE h[m]])
  BY DEF IndexNumber, type
<1> HIDE DEF h
<1> DEFINE new == {cells[i] : i \in 1 .. missing}
           w == [h[n] EXCEPT !.elems = h[n].elems \o cells]
           g == [m \in DOMAIN h \cup new |->
                   IF m \notin DOMAIN h THEN NullValue ELSE IF m = n THEN w ELSE h[m]]
<1>4. missing \in Int
  BY <1>2, ElemsOfNode, IndexAssumption
<1>5. new \subseteq Fresh(h) /\ DOMAIN cells = 1 .. missing /\ Distinct(cells)
  BY DEF Injections, Distinct
<1>6. cells \in Seq(new)
  <2> HIDE DEF missing
  <2>1. cells \in [1 .. missing -> new]
    BY DEF Injections
  <2>2. CASE missing >= 0
    BY <1>4, <2>1, <2>2
  <2>3. CASE missing < 0
    <3>1. 1 .. missing = 1 .. 0
      BY <1>4, <2>3
    <3>2. cells \in [1 .. 0 -> new]
      BY <2>1, <3>1
    <3> HIDE DEF new
    <3> QED
      BY <3>2
  <2> QED
    BY <1>4, <2>2, <2>3
<1> HIDE DEF missing, new
<1>7. new \subseteq Cell /\ new \cap DOMAIN h = {} /\ new \cap Kids(h[n]) = {}
  BY <1>2, <1>5 DEF Fresh
<1>8. NodeOK(w) /\ Kids(w) \subseteq Kids(h[n]) \cup new /\ Distinct(Parts(w))
  BY <1>2, <1>5, <1>6, <1>7, ElemsAdded DEF type
<1>9. store' = Collected(g)
  BY <1>3 DEF new
<1> HIDE DEF w
<1>10. /\ DOMAIN g = DOMAIN h \cup new /\ g[n] = w /\ \A m \in new : g[m] = NullValue
       /\ \A m \in DOMAIN h \ {n} : g[m] = h[m]
  BY <1>2, <1>7
<1> HIDE DEF g
<1>11. Grafted(h, g, n, new)
  BY <1>2, <1>7, <1>10 DEF Grafted
<1>12. Kept(h, Collected(g), n) /\ DOMAIN Collected(g) \subseteq DOMAIN h \cup Cell
  BY <1>2, <1>7, <1>8, <1>10, <1>11, NullsKept
<1>13. Kept(store, store', n)
  BY <1>2, <1>9, <1>12, KeptTwice
<1> QED
  BY <1>2, <1>9, <1>12, <1>13 DEF StepAt

LEMMA AddMemberStep ==
  ASSUME JsonTypeOK, NEW n \in DOMAIN store, NEW key, NEW doc \in Handed, AddMember(n, key, doc)
  PROVE  StepAt(n)
<1> DEFINE type == "OBJECT"
           h == Become(store, n, type)
           T == Fresh(store)
<1>1. type \in Types
  BY DEF Types
<1> HIDE DEF type
<1>2. /\ Kept(store, h, n) /\ Forest(h, Var) /\ n \in DOMAIN h
      /\ DOMAIN h \subseteq DOMAIN store /\ DOMAIN h \subseteq Var \cup Cell
      /\ h[n].type = type /\ NodeOK(h[n]) /\ Distinct(Parts(h[n]))
      /\ Kids(h[n]) \subseteq DOMAIN h
  BY <1>1, BecomeStep
<1>3. PICK at \in Injections(DOMAIN doc, T) :
        store' = Collected([Joined(h, doc, at) EXCEPT ![n].members = With(@, key, at[Top])])
  BY DEF AddMember, type
<1> HIDE DEF h
<1>4. T \subseteq Cell /\ T \cap DOMAIN h = {} /\ Forest(doc, {Top})
  BY <1>2, DocumentsAssumption DEF Fresh
<1> HIDE DEF T
<1> DEFINE top == at[Top]
           f == Joined(h, doc, at)
           w == [h[n] EXCEPT !.members = With(h[n].members, key, top)]
<1>5. top \in T /\ Places(doc, at) \subseteq T
  BY <1>4, JoinedGrove, PlacesIn
<1>6. f[n] = h[n]
  BY <1>2, <1>4, <1>5 DEF Joined
<1>7. store' = Collected([f EXCEPT ![n] = w])
  <2> HIDE DEF f, top
  <2>1. [f EXCEPT ![n].members = With(@, key, top)] = [f EXCEPT ![n] = w]
    BY <1>6
  <2> QED
    BY <1>3, <2>1 DEF f, top
<1>8. NodeOK(w) /\ Kids(w) \subseteq Kids(h[n]) \cup {top} /\ Distinct(Parts(w))
  <2> HIDE DEF top
  <2>1. top \notin Kids(h[n])
    BY <1>2, <1>4, <1>5
  <2> QED
    BY <1>2, <2>1, MemberAdded DEF type
<1> HIDE DEF w
<1>9. /\ Kept(h, Collected([f EXCEPT ![n] = w]), n)
      /\ DOMAIN Collected([f EXCEPT ![n] = w]) \subseteq DOMAIN h \cup Cell
  BY <1>2, <1>4, <1>8, HandedKept
<1> HIDE DEF f
<1>10. Kept(store, store', n)
  BY <1>2, <1>7, <1>9, KeptTwice
<1> QED
  BY <1>2, <1>7, <1>9, <1>10 DEF StepAt

LEMMA AddElementStep ==
  ASSUME JsonTypeOK, NEW n \in DOMAIN store, NEW doc \in Handed, AddElement(n, doc)
  PROVE  StepAt(n)
<1> DEFINE type == "ARRAY"
           h == Become(store, n, type)
           T == Fresh(store)
<1>1. type \in Types
  BY DEF Types
<1> HIDE DEF type
<1>2. /\ Kept(store, h, n) /\ Forest(h, Var) /\ n \in DOMAIN h
      /\ DOMAIN h \subseteq DOMAIN store /\ DOMAIN h \subseteq Var \cup Cell
      /\ h[n].type = type /\ NodeOK(h[n]) /\ Distinct(Parts(h[n]))
      /\ Kids(h[n]) \subseteq DOMAIN h
  BY <1>1, BecomeStep
<1>3. PICK at \in Injections(DOMAIN doc, T) :
        store' = Collected([Joined(h, doc, at) EXCEPT ![n].elems = Append(@, at[Top]), ![n].valid = TRUE])
  BY DEF AddElement, type
<1> HIDE DEF h
<1>4. T \subseteq Cell /\ T \cap DOMAIN h = {} /\ Forest(doc, {Top})
  BY <1>2, DocumentsAssumption DEF Fresh
<1> HIDE DEF T
<1> DEFINE top == at[Top]
           f == Joined(h, doc, at)
           elems == h[n].elems \o <<top>>
           w == [h[n] EXCEPT !.elems = elems]
<1>5. top \in T /\ Places(doc, at) \subseteq T
  BY <1>4, JoinedGrove, PlacesIn
<1>6. f[n] = h[n] /\ n \in DOMAIN f
  BY <1>2, <1>4, <1>5 DEF Joined
<1>7. Append(h[n].elems, top) = elems
  <2> HIDE DEF top
  <2>1. h[n].elems \in Seq(Kids(h[n]) \cup {top})
    BY <1>2, ArrayNode DEF type
  <2> QED
    BY <2>1, AppendIsConcat
<1>8. [w EXCEPT !.valid = TRUE] = w
  <2> DEFINE set == TRUE
  <2> HIDE DEF elems
  <2>1. h[n] = Value(h[n].type, h[n].valid, h[n].value, h[n].members, h[n].elems) /\ set = h[n].valid
    BY <1>2 DEF NodeOK, type
  <2>2. w = Value(h[n].type, h[n].valid, h[n].value, h[n].members, elems)
    BY <2>1, ExceptElems
  <2> HIDE DEF w, set
  <2>3. [w EXCEPT !.valid = set] = w
    BY <2>1, <2>2, ExceptValid
  <2> QED
    BY <2>3 DEF set
<1>9. store' = Collected([f EXCEPT ![n] = w])
  <2> HIDE DEF f, top, elems
  <2>1. [f EXCEPT ![n].elems = Append(@, top)] = [f EXCEPT ![n] = w]
    BY <1>6, <1>7
  <2> HIDE DEF w
  <2>2. [[f EXCEPT ![n] = w] EXCEPT ![n].valid = TRUE] = [f EXCEPT ![n] = w]
    BY <1>6, <1>8
  <2> QED
    BY <1>3, <2>1, <2>2 DEF f, top
<1>10. NodeOK(w) /\ Kids(w) \subseteq Kids(h[n]) \cup {top} /\ Distinct(Parts(w))
  <2> HIDE DEF top
  <2> DEFINE new == {top}
  <2>1. new \cap Kids(h[n]) = {} /\ <<top>> \in Seq(new) /\ Distinct(<<top>>)
    BY <1>2, <1>4, <1>5 DEF Distinct
  <2> QED
    BY <1>2, <2>1, ElemsAdded DEF type
<1> HIDE DEF w
<1>11. /\ Kept(h, Collected([f EXCEPT ![n] = w]), n)
       /\ DOMAIN Collected([f EXCEPT ![n] = w]) \subseteq DOMAIN h \cup Cell
  BY <1>2, <1>4, <1>10, HandedKept
<1> HIDE DEF f
<1>12. Kept(store, store', n)
  BY <1>2, <1>9, <1>11, KeptTwice
<1> QED
  BY <1>2, <1>9, <1>11, <1>12 DEF StepAt

LEMMA EraseStep ==
  ASSUME JsonTypeOK, NEW n \in DOMAIN store,
         \/ \E key \in Names : EraseName(n, key)
         \/ \E index \in 1 .. MaxIndex : EraseIndex(n, index)
  PROVE  StepAt(n)
<1>1. NodeOK(store[n]) /\ Distinct(Parts(store[n]))
  BY DistinctParts DEF JsonTypeOK
<1>2. PICK w : /\ NodeOK(w) /\ Kids(w) \subseteq Kids(store[n]) /\ Distinct(Parts(w))
               /\ store' = Collected([store EXCEPT ![n] = w])
  <2>1. ASSUME NEW key \in Names, EraseName(n, key)
        PROVE  \E w : /\ NodeOK(w) /\ Kids(w) \subseteq Kids(store[n]) /\ Distinct(Parts(w))
                      /\ store' = Collected([store EXCEPT ![n] = w])
    <3> DEFINE w == [store[n] EXCEPT !.members = [k \in DOMAIN store[n].members \ {key} |-> store[n].members[k]]]
    <3>1. key \in DOMAIN store[n].members /\ store' = Collected([store EXCEPT ![n] = w])
      BY <2>1 DEF EraseName
    <3>2. NodeOK(w) /\ Kids(w) \subseteq Kids(store[n]) /\ Distinct(Parts(w))
      BY <1>1, <3>1, MemberErased
    <3> QED
      BY <3>1, <3>2
  <2>2. ASSUME NEW index \in 1 .. MaxIndex, EraseIndex(n, index)
        PROVE  \E w : /\ NodeOK(w) /\ Kids(w) \subseteq Kids(store[n]) /\ Distinct(Parts(w))
                      /\ store' = Collected([store EXCEPT ![n] = w])
    <3> DEFINE w == [store[n] EXCEPT !.elems = RemoveAt(store[n].elems, index)]
    <3>1. /\ store[n].type = "ARRAY" /\ index <= Len(store[n].elems)
          /\ store' = Collected([store EXCEPT ![n] = w])
      BY <2>2 DEF EraseIndex
    <3>2. index \in 1 .. Len(store[n].elems)
      BY <1>1, <3>1, ElemsOfNode, IndexAssumption
    <3>3. NodeOK(w) /\ Kids(w) \subseteq Kids(store[n]) /\ Distinct(Parts(w))
      BY <1>1, <3>1, <3>2, ElemErased
    <3> QED
      BY <3>1, <3>3
  <2> QED
    BY <2>1, <2>2
<1> DEFINE g == Collected([store EXCEPT ![n] = w])
<1>3. Kept(store, g, n) /\ DOMAIN g \subseteq DOMAIN store
  BY <1>2, ValueKept DEF JsonTypeOK
<1> QED
  BY <1>2, <1>3 DEF StepAt, JsonTypeOK

LEMMA ChangeStep ==
  ASSUME JsonTypeOK, NEW n \in DOMAIN store, Change(n)
  PROVE  StepAt(n)
<1>1. CASE \E v \in Scalars : Set(n, v)
  BY <1>1, SetStep
<1>2. CASE \E doc \in Handed : AddElement(n, doc)
  BY <1>2, AddElementStep
<1>3. CASE \E key \in Names : IndexName(n, key)
  BY <1>3, IndexNameStep
<1>4. CASE \E key \in Names, doc \in Handed : AddMember(n, key, doc)
  BY <1>4, AddMemberStep
<1>5. CASE \E index \in 1 .. MaxIndex : IndexNumber(n, index)
  BY <1>5, IndexNumberStep
<1>6. CASE \/ \E key \in Names : EraseName(n, key)
           \/ \E index \in 1 .. MaxIndex : EraseIndex(n, index)
  BY <1>6, EraseStep
<1>7. CASE \E m \in DOMAIN store : Assign(n, m)
  BY <1>7, AssignStep
<1>8. CASE \E doc \in Parsed : Json(n, doc)
  BY <1>8, JsonStep
<1> QED
  BY <1>1, <1>2, <1>3, <1>4, <1>5, <1>6, <1>7, <1>8 DEF Change

---------------------------------------------------------------------------
(* The theorems. *)

LEMMA InitTypeOK ==
  JsonInit => JsonTypeOK
<1> SUFFICES ASSUME JsonInit
             PROVE  JsonTypeOK
  OBVIOUS
<1>1. DOMAIN store = Var /\ \A n \in Var : store[n] = NullValue
  BY DEF JsonInit
<1>2. \A n \in Var : NodeOK(store[n]) /\ Parts(store[n]) = <<>> /\ Kids(store[n]) = {}
  BY <1>1, NullParts
<1>3. Var \subseteq Reach(store, Var)
  BY <1>1, Reached
<1>4. OwnedOnce(store)
  <2>1. \A n \in Var : DOMAIN Parts(store[n]) = {}
    BY <1>2
  <2> QED
    BY <1>1, <2>1 DEF OwnedOnce
<1> QED
  BY <1>1, <1>2, <1>3, <1>4 DEF JsonTypeOK, Forest

LEMMA NextTypeOK ==
  JsonTypeOK /\ [JsonNext]_store => JsonTypeOK'
<1> SUFFICES ASSUME JsonTypeOK, [JsonNext]_store
             PROVE  JsonTypeOK'
  OBVIOUS
<1>1. CASE JsonNext
  <2>1. PICK n \in DOMAIN store : Change(n)
    BY <1>1 DEF JsonNext
  <2>2. StepAt(n)
    BY <2>1, ChangeStep
  <2>3. DOMAIN store' \subseteq Var \cup Cell /\ Forest(store', Var)
    BY <2>2 DEF StepAt, Kept
  <2> QED
    BY <2>3, Reached DEF JsonTypeOK, Forest, Closed, OwnedOnce, Kids
<1>2. CASE UNCHANGED store
  BY <1>2, Reached DEF JsonTypeOK, Forest, Closed, OwnedOnce, Kids
<1> QED
  BY <1>1, <1>2

(* For any variables, cells, names and documents: the heap is a forest of  *)
(* values in use.  Nothing is shared, nothing owns itself, nothing is      *)
(* lost, whatever the operations and their order.                          *)
THEOREM JsonTypeCorrect == JsonSpec => []JsonTypeOK
<1>1. JsonInit => JsonTypeOK
  BY InitTypeOK
<1>2. JsonTypeOK /\ [JsonNext]_store => JsonTypeOK'
  BY NextTypeOK
<1> QED
  BY <1>1, <1>2, PTL DEF JsonSpec

(* Only the document that n is in may change. *)
LEMMA StepOneDocument ==
  ASSUME JsonTypeOK, JsonNext
  PROVE  \E y \in Var : \A x \in Var \ {y} : Document(store', x) = Document(store, x)
<1>1. PICK n \in DOMAIN store : StepAt(n)
  BY ChangeStep DEF JsonNext
<1>2. \A x \in Var : n \notin Below(store, x) => Document(store', x) = Document(store, x)
  BY <1>1 DEF StepAt, Kept
<1>3. CASE \E y \in Var : n \in Below(store, y)
  <2>1. PICK y \in Var : n \in Below(store, y)
    BY <1>3
  <2>2. \A x \in Var \ {y} : n \notin Below(store, x)
    BY <2>1, Apart DEF JsonTypeOK
  <2> QED
    BY <1>2, <2>2
<1>4. CASE \A y \in Var : n \notin Below(store, y)
  <2>1. Var # {}
    <3> SUFFICES ASSUME Var = {}
                 PROVE  FALSE
      OBVIOUS
    <3>1. Closed(store, {})
      BY DEF Closed
    <3>2. n \in Reach(store, Var)
      BY DEF JsonTypeOK, Forest
    <3> QED
      BY <3>1, <3>2, Reached
  <2> QED
    BY <1>2, <1>4, <2>1
<1> QED
  BY <1>3, <1>4

(* For any variables, cells, names and documents: one operation changes    *)
(* one document.  A copy never changes with its original.                  *)
THEOREM DocumentsApart == JsonSpec => OneDocument
<1>1. JsonTypeOK /\ [JsonNext]_store
        => [\E y \in Var : \A x \in Var \ {y} : Document(store', x) = Document(store, x)]_store
  BY StepOneDocument
<1> QED
  BY <1>1, JsonTypeCorrect, PTL DEF JsonSpec, OneDocument
=============================================================================
