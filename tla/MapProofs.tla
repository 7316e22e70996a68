------------------------------ MODULE MapProofs ------------------------------
(***************************************************************************)
(* Theorems about WorldMap and MapClient for every set of input files, on  *)
(* axes of any size above two.                                             *)
(***************************************************************************)
EXTENDS MapClient, ListProofs, FiniteSetTheorems

-----------------------------------------------------------------------------
(* The geometry of links                                                   *)

(* The directions of exits are small numbers. *)
LEMMA DirCodes ==
  /\ WalkDir \subseteq ExitDir
  /\ \A d \in WalkDir : d \in {X_INC, X_DEC, Y_INC, Y_DEC, Z_INC, Z_DEC}
  /\ {X_INC, X_DEC, Y_INC, Y_DEC, Z_INC, Z_DEC} \subseteq WalkDir
  /\ NoDir \notin ExitDir
BY DEF WalkDir, ExitDir, NoDir, X_INC, X_DEC, Y_INC, Y_DEC, Z_INC, Z_DEC

(* An axis is a ring of more than two values. *)
LEMMA Ring ==
  ASSUME NEW a \in Axis
  PROVE  /\ Inc(a) \in Axis /\ Dec(a) \in Axis
         /\ Dec(Inc(a)) = a /\ Inc(Dec(a)) = a
         /\ Inc(a) # a /\ Dec(a) # a /\ Inc(a) # Dec(a)
BY AxisSizeAssumption DEF Axis, Inc, Dec

(* A step leads to a position. *)
LEMMA StepInGrid ==
  ASSUME NEW p \in Position, NEW d
  PROVE  Step(p, d) \in Position
<1>1. \A i \in 1 .. 3 : p[i] \in Axis /\ Inc(p[i]) \in Axis /\ Dec(p[i]) \in Axis
  BY Ring DEF Position
<1>2. p = <<p[1], p[2], p[3]>>
  BY DEF Position
<1> QED
  BY <1>1, <1>2 DEF Step, Position

(* opposite_dir undoes itself, and never stays. *)
LEMMA OppositeTwice ==
  ASSUME NEW d \in WalkDir
  PROVE  /\ opposite_dir(d) \in WalkDir
         /\ opposite_dir(opposite_dir(d)) = d
         /\ opposite_dir(d) # d
BY DEF WalkDir, opposite_dir, X_INC, X_DEC, Y_INC, Y_DEC, Z_INC, Z_DEC

(* What Step does, direction by direction. *)
LEMMA StepIs ==
  ASSUME NEW x, NEW y, NEW z
  PROVE  /\ Step(<<x, y, z>>, X_INC) = <<Inc(x), y, z>>
         /\ Step(<<x, y, z>>, X_DEC) = <<Dec(x), y, z>>
         /\ Step(<<x, y, z>>, Y_INC) = <<x, Inc(y), z>>
         /\ Step(<<x, y, z>>, Y_DEC) = <<x, Dec(y), z>>
         /\ Step(<<x, y, z>>, Z_INC) = <<x, y, Inc(z)>>
         /\ Step(<<x, y, z>>, Z_DEC) = <<x, y, Dec(z)>>
<1> DEFINE p == <<x, y, z>>
<1>1. p[1] = x /\ p[2] = y /\ p[3] = z
  OBVIOUS
<1> HIDE DEF p
<1> USE DEF X_INC, X_DEC, Y_INC, Y_DEC, Z_INC, Z_DEC,
            X_INC_Y_INC, X_INC_Y_DEC, X_DEC_Y_INC, X_DEC_Y_DEC
<1>2. Step(p, X_INC) = <<Inc(p[1]), p[2], p[3]>>
  BY DEF Step
<1>3. Step(p, X_DEC) = <<Dec(p[1]), p[2], p[3]>>
  BY DEF Step
<1>4. Step(p, Y_INC) = <<p[1], Inc(p[2]), p[3]>>
  BY DEF Step
<1>5. Step(p, Y_DEC) = <<p[1], Dec(p[2]), p[3]>>
  BY DEF Step
<1>6. Step(p, Z_INC) = <<p[1], p[2], Inc(p[3])>>
  BY DEF Step
<1>7. Step(p, Z_DEC) = <<p[1], p[2], Dec(p[3])>>
  BY DEF Step
<1> QED
  BY <1>1, <1>2, <1>3, <1>4, <1>5, <1>6, <1>7 DEF p

LEMMA OppositeIs ==
  /\ opposite_dir(X_INC) = X_DEC /\ opposite_dir(X_DEC) = X_INC
  /\ opposite_dir(Y_INC) = Y_DEC /\ opposite_dir(Y_DEC) = Y_INC
  /\ opposite_dir(Z_INC) = Z_DEC /\ opposite_dir(Z_DEC) = Z_INC
BY DEF opposite_dir, X_INC, X_DEC, Y_INC, Y_DEC, Z_INC, Z_DEC

(* Two steps in opposite directions lead back, also around an axis. *)
LEMMA StepBack ==
  ASSUME NEW p \in Position, NEW d \in WalkDir
  PROVE  Step(Step(p, d), opposite_dir(d)) = p
<1>1. PICK x \in Axis, y \in Axis, z \in Axis : p = <<x, y, z>>
  BY DEF Position
<1>2. /\ Dec(Inc(x)) = x /\ Inc(Dec(x)) = x
      /\ Dec(Inc(y)) = y /\ Inc(Dec(y)) = y
      /\ Dec(Inc(z)) = z /\ Inc(Dec(z)) = z
  BY Ring
<1>3. CASE d = X_INC
  BY <1>1, <1>2, <1>3, StepIs, OppositeIs
<1>4. CASE d = X_DEC
  BY <1>1, <1>2, <1>4, StepIs, OppositeIs
<1>5. CASE d = Y_INC
  BY <1>1, <1>2, <1>5, StepIs, OppositeIs
<1>6. CASE d = Y_DEC
  BY <1>1, <1>2, <1>6, StepIs, OppositeIs
<1>7. CASE d = Z_INC
  BY <1>1, <1>2, <1>7, StepIs, OppositeIs
<1>8. CASE d = Z_DEC
  BY <1>1, <1>2, <1>8, StepIs, OppositeIs
<1> QED
  BY <1>3, <1>4, <1>5, <1>6, <1>7, <1>8, DirCodes

(* Different directions lead to different places. *)
LEMMA StepApart ==
  ASSUME NEW p \in Position, NEW d \in WalkDir, NEW e \in WalkDir, Step(p, d) = Step(p, e)
  PROVE  d = e
<1>1. \A i \in 1 .. 3 : Inc(p[i]) # p[i] /\ Dec(p[i]) # p[i] /\ Inc(p[i]) # Dec(p[i])
  BY Ring DEF Position
<1>2. p = <<p[1], p[2], p[3]>>
  BY DEF Position
<1> QED
  BY <1>1, <1>2 DEF Step, WalkDir, X_INC, X_DEC, Y_INC, Y_DEC, Z_INC, Z_DEC

(* addlink opens the exit that leads to the other cube. *)
LEMMA LinkDirLeads ==
  ASSUME NEW p \in Position, NEW q \in Position, LinkDir(p, q) # NoDir
  PROVE  LinkDir(p, q) \in WalkDir /\ Step(p, LinkDir(p, q)) = q
BY DirCodes DEF LinkDir

(* A link that can be opened one way can be opened the other way, by the
   opposite exit: of two ends addlink never refuses one (cube.cpp:50-98). *)
THEOREM LinkBothWays ==
  \A p, q \in Position :
    LinkDir(p, q) # NoDir => LinkDir(q, p) # NoDir /\ LinkDir(q, p) = opposite_dir(LinkDir(p, q))
<1> SUFFICES ASSUME NEW p \in Position, NEW q \in Position, LinkDir(p, q) # NoDir
             PROVE  LinkDir(q, p) # NoDir /\ LinkDir(q, p) = opposite_dir(LinkDir(p, q))
  OBVIOUS
<1> DEFINE d == LinkDir(p, q)
<1>1. d \in WalkDir /\ Step(p, d) = q
  BY LinkDirLeads
<1> HIDE DEF d
<1>2. opposite_dir(d) \in WalkDir /\ Step(q, opposite_dir(d)) = p
  BY <1>1, StepBack, OppositeTwice
<1>3. LinkDir(q, p) # NoDir
  BY <1>2, DirCodes DEF LinkDir
<1>4. LinkDir(q, p) \in WalkDir /\ Step(q, LinkDir(q, p)) = p
  BY <1>3, LinkDirLeads
<1> QED
  BY <1>2, <1>3, <1>4, StepApart DEF d

-----------------------------------------------------------------------------
(* What the operators of the loader do                                     *)

LEMMA WithIs ==
  ASSUME NEW f, NEW key, NEW value
  PROVE  /\ DOMAIN With(f, key, value) = DOMAIN f \cup {key}
         /\ With(f, key, value)[key] = value
         /\ \A k \in DOMAIN f : k # key => With(f, key, value)[k] = f[k]
BY DEF With

LEMMA InsertIs ==
  ASSUME NEW f, NEW key, NEW value
  PROVE  /\ DOMAIN Insert(f, key, value) = DOMAIN f \cup {key}
         /\ \A k \in DOMAIN f : Insert(f, key, value)[k] = f[k]
         /\ key \notin DOMAIN f => Insert(f, key, value)[key] = value
<1>1. CASE key \in DOMAIN f
  <2>1. Insert(f, key, value) = f /\ DOMAIN f = DOMAIN f \cup {key}
    BY <1>1 DEF Insert
  <2> QED
    BY <1>1, <2>1
<1>2. CASE key \notin DOMAIN f
  <2>1. Insert(f, key, value) = With(f, key, value)
    BY <1>2 DEF Insert
  <2> QED
    BY <1>2, <2>1, WithIs
<1> QED
  BY <1>1, <1>2

LEMMA NothingIs == DOMAIN Nothing = {}
BY DEF Nothing

(* A place stays on the axes when an offset is added. *)
LEMMA readlocInGrid ==
  ASSUME NEW loc \in Triple, NEW offset \in Triple
  PROVE  readloc(loc, offset) \in Position
<1>1. \A i \in 1 .. 3 : loc[i] + offset[i] \in Int
  BY DEF Triple
<1>2. \A n \in Int : n % AxisSize \in Axis
  BY AxisSizeAssumption DEF Axis
<1>3. \A n \in Int : ReadAxis(n) \in Axis
  <2> TAKE n \in Int
  <2> DEFINE low == n % IntSize
             cast == IF 2 * low < IntSize THEN low ELSE low - IntSize
  <2>1. low \in Int /\ IntSize \in Int
    BY InputsAssumption
  <2> HIDE DEF low
  <2>2. cast \in Int
    BY <2>1
  <2> HIDE DEF cast
  <2>3. cast % AxisSize \in Axis
    BY <1>2, <2>2
  <2> QED
    BY <2>3 DEF ReadAxis, cast, low
<1> QED
  BY <1>1, <1>3 DEF readloc, Position

(* The attribute of a link is a number, whatever it was combined with. *)
LEMMA AttrNat ==
  ASSUME NEW link, NEW garbage \in Garbage
  PROVE  LinkAttr(link, garbage) \in Nat
<1>1. \A n \in Nat : FlipBit(n, 1) \in Nat /\ FlipBit(n, 2) \in Nat
  BY DEF FlipBit
<1>2. garbage \in Nat
  BY WorldMapAssumption
<1> QED
  BY <1>1, <1>2 DEF LinkAttr, EXIT_NORMAL

LEMMA PlainAttr ==
  ASSUME NEW link, NEW garbage, ~Has(link, "attr")
  PROVE  LinkAttr(link, garbage) = 1
BY DEF LinkAttr, EXIT_NORMAL

(* Exits of cubes of the grid. *)
ExitsTyped(exits) ==
  \A cube \in DOMAIN exits : Place(cube) \in Position /\ exits[cube] \in [ExitDir -> Nat]

(* One addlink: it sets one exit. *)
LEMMA OpenedIs ==
  ASSUME NEW exits, ExitsTyped(exits), NEW a \in DOMAIN exits, NEW b \in DOMAIN exits, NEW attr \in Nat
  PROVE  /\ DOMAIN Opened(exits, a, b, attr) = DOMAIN exits
         /\ ExitsTyped(Opened(exits, a, b, attr))
         /\ ~CanLink(a, b) => Opened(exits, a, b, attr) = exits
         /\ CanLink(a, b) =>
              \A cube \in DOMAIN exits : \A d \in ExitDir :
                Opened(exits, a, b, attr)[cube][d] =
                  IF cube = a /\ d = LinkDir(Place(a), Place(b)) THEN attr ELSE exits[cube][d]
<1> DEFINE dir == LinkDir(Place(a), Place(b))
<1>1. CASE ~CanLink(a, b)
  BY <1>1 DEF Opened
<1>2. CASE CanLink(a, b)
  <2>1. dir \in ExitDir
    BY <1>2, LinkDirLeads, DirCodes DEF CanLink, ExitsTyped
  <2>2. Opened(exits, a, b, attr) = [exits EXCEPT ![a][dir] = attr]
    BY <1>2 DEF Opened
  <2> HIDE DEF dir
  <2>3. DOMAIN [exits EXCEPT ![a][dir] = attr] = DOMAIN exits
    OBVIOUS
  <2>4. \A cube \in DOMAIN exits : exits[cube] \in [ExitDir -> Nat]
    BY DEF ExitsTyped
  <2>5. \A cube \in DOMAIN exits : \A d \in ExitDir :
          [exits EXCEPT ![a][dir] = attr][cube][d] = IF cube = a /\ d = dir THEN attr ELSE exits[cube][d]
    BY <2>1, <2>4
  <2>6. \A cube \in DOMAIN exits : [exits EXCEPT ![a][dir] = attr][cube] \in [ExitDir -> Nat]
    BY <2>1, <2>4
  <2>7. ExitsTyped([exits EXCEPT ![a][dir] = attr])
    BY <2>3, <2>6 DEF ExitsTyped
  <2> QED
    BY <1>2, <2>2, <2>3, <2>5, <2>7 DEF dir
<1> QED
  BY <1>1, <1>2

(* A link changes the exits of its two ends that lead to each other, or none. *)
LEMMA AddLinkIs ==
  ASSUME NEW exits, ExitsTyped(exits), NEW a \in DOMAIN exits, NEW b \in DOMAIN exits,
         NEW attr \in Nat, NEW twoway \in BOOLEAN
  PROVE  /\ DOMAIN AddLink(exits, twoway, a, b, attr) = DOMAIN exits
         /\ ExitsTyped(AddLink(exits, twoway, a, b, attr))
         /\ ~CanLink(a, b) => AddLink(exits, twoway, a, b, attr) = exits
         /\ CanLink(a, b) =>
              \A cube \in DOMAIN exits : \A d \in ExitDir :
                AddLink(exits, twoway, a, b, attr)[cube][d] =
                  IF \/ cube = a /\ d = LinkDir(Place(a), Place(b))
                     \/ twoway /\ cube = b /\ d = LinkDir(Place(b), Place(a))
                  THEN attr ELSE exits[cube][d]
<1> DEFINE there == Opened(exits, a, b, attr)
<1>1. /\ DOMAIN there = DOMAIN exits /\ ExitsTyped(there)
      /\ ~CanLink(a, b) => there = exits
      /\ CanLink(a, b) =>
           \A cube \in DOMAIN exits : \A d \in ExitDir :
             there[cube][d] = IF cube = a /\ d = LinkDir(Place(a), Place(b)) THEN attr ELSE exits[cube][d]
  BY OpenedIs, SMTT(30)
<1> HIDE DEF there
<1>2. CASE ~ (twoway /\ CanLink(a, b))
  <2>1. AddLink(exits, twoway, a, b, attr) = there
    BY <1>2 DEF AddLink, there
  <2> QED
    BY <1>1, <1>2, <2>1
<1>3. CASE twoway /\ CanLink(a, b)
  <2>1. AddLink(exits, twoway, a, b, attr) = Opened(there, b, a, attr)
    BY <1>3 DEF AddLink, there
  <2>2. CanLink(b, a)
    BY <1>3, LinkBothWays DEF CanLink, ExitsTyped
  <2>3. /\ DOMAIN Opened(there, b, a, attr) = DOMAIN there
        /\ ExitsTyped(Opened(there, b, a, attr))
        /\ \A cube \in DOMAIN there : \A d \in ExitDir :
             Opened(there, b, a, attr)[cube][d] =
               IF cube = b /\ d = LinkDir(Place(b), Place(a)) THEN attr ELSE there[cube][d]
    BY <1>1, <2>2, OpenedIs
  <2> DEFINE back == Opened(there, b, a, attr)
  <2>4. /\ DOMAIN back = DOMAIN exits /\ ExitsTyped(back)
        /\ \A cube \in DOMAIN exits : \A d \in ExitDir :
             back[cube][d] = IF cube = b /\ d = LinkDir(Place(b), Place(a)) THEN attr ELSE there[cube][d]
    BY <1>1, <2>3
  <2> HIDE DEF back
  <2>5. \A cube \in DOMAIN exits : \A d \in ExitDir :
          back[cube][d] = IF \/ cube = a /\ d = LinkDir(Place(a), Place(b))
                             \/ cube = b /\ d = LinkDir(Place(b), Place(a))
                          THEN attr ELSE exits[cube][d]
    BY <1>1, <1>3, <2>4
  <2>6. AddLink(exits, twoway, a, b, attr) = back
    BY <2>1 DEF back
  <2> QED
    BY <1>3, <2>4, <2>5, <2>6
<1> QED
  BY <1>2, <1>3

-----------------------------------------------------------------------------
(* The inductive invariant                                                 *)

(* What is read next, which file it is read from, and what of that file is
   known to be there. *)
Steps == {"config", "head", "cube", "link", "mark", "mob", "shortcut", "global", "done", "failed", "crashed"}

ControlOK ==
  /\ input_ \in Inputs /\ step_ \in Steps /\ at_ \in Nat \ {0}
  /\ left_ \subseteq ConfigIds /\ file_ \notin left_
  /\ DOMAIN area_cubes_ \subseteq ConfigIds \ left_
  /\ step_ = "config" => left_ = {} /\ DOMAIN area_cubes_ = {}
  /\ step_ \in {"head", "cube", "link", "mark", "mob"} => file_ \in ConfigIds
  /\ step_ = "head" => file_ \notin DOMAIN area_cubes_
  /\ step_ = "mark" => at_ = 1
  /\ step_ \in {"shortcut", "global", "done"} => left_ = {}
  /\ step_ \in {"cube", "link", "mark", "mob"} => HeadOK /\ file_ \in DOMAIN area_cubes_
  /\ step_ \notin {"cube", "link", "mark", "failed"} => markmap_ = Nothing
  /\ DOMAIN areas_ \subseteq AreaId

(* A mark is known as soon as its cube is read, and till its area is. *)
MarksKnown ==
  step_ \in {"cube", "link", "mark"} =>
    \A i \in DOMAIN List("cubes") :
      /\ step_ = "cube" => i < at_
      /\ Has(List("cubes")[i], "mark")
      => List("cubes")[i].mark \in DOMAIN markmap_

MapInv == ControlOK /\ MarksKnown /\ WorldMapTypeOK

-----------------------------------------------------------------------------
(* Choices the loader makes                                                *)

(* Of ids of areas one is the smallest ... *)
LEMMA SmallestId ==
  ASSUME NEW ids \in SUBSET AreaId, ids # {}
  PROVE  \E id \in ids : \A other \in ids : id <= other
<1> DEFINE shifted == {id + MaxAreaId : id \in ids}
<1>1. MaxAreaId \in Nat
  BY InputsAssumption
<1>2. shifted \subseteq Nat /\ shifted # {}
  BY <1>1 DEF AreaId
<1> HIDE DEF shifted
<1>3. PICK n \in shifted : \A m \in shifted : n <= m
  BY <1>2, SmallestNat
<1>4. PICK id \in ids : n = id + MaxAreaId
  BY DEF shifted
<1>5. \A other \in ids : other + MaxAreaId \in shifted
  BY DEF shifted
<1>6. \A m \in ids : m \in Int
  BY <1>1 DEF AreaId
<1>7. ASSUME NEW other \in ids PROVE id <= other
  BY <1>1, <1>3, <1>4, <1>5, <1>6
<1> QED
  BY <1>7

(* ... and one the largest. *)
LEMMA LargestId ==
  ASSUME NEW ids \in SUBSET AreaId, ids # {}
  PROVE  \E id \in ids : \A other \in ids : other <= id
<1> DEFINE mirrored == {-id : id \in ids}
<1>1. mirrored \in SUBSET AreaId /\ mirrored # {}
  BY InputsAssumption DEF AreaId
<1>2. \A id \in ids : -id \in mirrored
  OBVIOUS
<1>3. \A m \in mirrored : \E id \in ids : m = -id
  OBVIOUS
<1> HIDE DEF mirrored
<1>4. PICK m \in mirrored : \A other \in mirrored : m <= other
  BY <1>1, SmallestId
<1>5. PICK id \in ids : m = -id
  BY <1>3
<1>6. \A n \in ids : n \in Int
  BY InputsAssumption DEF AreaId
<1> QED
  BY <1>2, <1>4, <1>5, <1>6

(* Reading the list in _global.json: the ids are in range, and each has a file
   whose fields have their types. *)
LEMMA FileShape ==
  ASSUME input_ \in Inputs
  PROVE  /\ ConfigIds \subseteq AreaId
         /\ \A id \in ConfigIds : AreaShape(FileOf(id))
<1>1. \A i \in DOMAIN input_.config : input_.config[i].id \in AreaId /\ AreaShape(input_.config[i].json)
  BY InputsAssumption
<1>2. \A id \in ConfigIds : \E i \in DOMAIN input_.config : input_.config[i].id = id
  BY DEF ConfigIds
<1>3. ASSUME NEW id \in ConfigIds
      PROVE  \E i \in DOMAIN input_.config : FileOf(id) = input_.config[i].json
  BY <1>2 DEF FileOf
<1> QED
  BY <1>1, <1>2, <1>3

-----------------------------------------------------------------------------
(* The objects: pairs of a file and a place                                *)

LEMMA ObjectIs ==
  ASSUME ObjectsOK
  PROVE  /\ \A f, p : <<f, p>> \in DOMAIN exits_ <=> f \in DOMAIN area_cubes_ /\ p \in area_cubes_[f]
         /\ \A cube \in DOMAIN exits_ : cube = <<cube[1], cube[2]>>
BY DEF ObjectsOK

(* A file with no cube yet adds no object. *)
LEMMA NewFile ==
  ASSUME ObjectsOK, NEW f, f \notin DOMAIN area_cubes_,
         area_cubes_' = With(area_cubes_, f, {}), exits_' = exits_
  PROVE  ObjectsOK'
<1>1. /\ DOMAIN area_cubes_' = DOMAIN area_cubes_ \cup {f} /\ area_cubes_'[f] = {}
      /\ \A g \in DOMAIN area_cubes_ : area_cubes_'[g] = area_cubes_[g]
  BY DEF With
<1>2. UNION {{g} \X area_cubes_'[g] : g \in DOMAIN area_cubes_'}
        = UNION {{g} \X area_cubes_[g] : g \in DOMAIN area_cubes_}
  <2>1. \A g \in DOMAIN area_cubes_ : {g} \X area_cubes_'[g] = {g} \X area_cubes_[g]
    BY <1>1
  <2>2. {f} \X area_cubes_'[f] = {}
    BY <1>1
  <2> QED
    BY <1>1, <2>1, <2>2
<1> QED
  BY <1>2 DEF ObjectsOK

(* A cube adds the object of its place. *)
LEMMA NewCube ==
  ASSUME ObjectsOK, NEW f \in DOMAIN area_cubes_, NEW p \in Position, NEW exits \in [ExitDir -> Nat],
         area_cubes_' = [area_cubes_ EXCEPT ![f] = @ \cup {p}],
         exits_' = With(exits_, <<f, p>>, exits)
  PROVE  ObjectsOK'
<1>1. /\ DOMAIN area_cubes_' = DOMAIN area_cubes_ /\ area_cubes_'[f] = area_cubes_[f] \cup {p}
      /\ \A g \in DOMAIN area_cubes_ : g # f => area_cubes_'[g] = area_cubes_[g]
  OBVIOUS
<1>2. /\ DOMAIN exits_' = DOMAIN exits_ \cup {<<f, p>>} /\ exits_'[<<f, p>>] = exits
      /\ \A cube \in DOMAIN exits_ : cube # <<f, p>> => exits_'[cube] = exits_[cube]
  BY DEF With
<1>3. UNION {{g} \X area_cubes_'[g] : g \in DOMAIN area_cubes_'}
        = (UNION {{g} \X area_cubes_[g] : g \in DOMAIN area_cubes_}) \cup {<<f, p>>}
  <2>1. \A g \in DOMAIN area_cubes_ : g # f => {g} \X area_cubes_'[g] = {g} \X area_cubes_[g]
    BY <1>1
  <2>2. {f} \X area_cubes_'[f] = ({f} \X area_cubes_[f]) \cup {<<f, p>>}
    BY <1>1
  <2> QED
    BY <1>1, <2>1, <2>2
<1>4. DOMAIN exits_' = UNION {{g} \X area_cubes_'[g] : g \in DOMAIN area_cubes_'}
  BY <1>2, <1>3 DEF ObjectsOK
<1>5. ASSUME NEW cube \in DOMAIN exits_'
      PROVE  Place(cube) \in Position /\ exits_'[cube] \in [ExitDir -> Nat]
  BY <1>2 DEF ObjectsOK, Place
<1> QED
  BY <1>4, <1>5 DEF ObjectsOK

-----------------------------------------------------------------------------
(* Every step keeps the invariant                                          *)

LEMMA SameFile ==
  ASSUME input_' = input_, file_' = file_
  PROVE  /\ ConfigIds' = ConfigIds /\ Json' = Json /\ HeadOK' = HeadOK
         /\ \A field : List(field)' = List(field)
BY DEF ConfigIds, Json, FileOf, HeadOK, List, InteractiveOK, StringTable

(* A step that changes no table of the loader. *)
LEMMA TablesStay ==
  ASSUME WorldMapTypeOK, step_' \in {"global", "done"} => step_ \in {"global", "done"},
         UNCHANGED <<markmap_, marks_, exits_, file_, areas_, area_cubes_, cubes_, reborn_>>
  PROVE  WorldMapTypeOK'
BY DEF WorldMapTypeOK, ObjectsOK, MarksOK, MapOK

LEMMA StopKeeps ==
  ASSUME MapInv, step_' = "failed" \/ (step_' = "crashed" /\ step_ \notin {"cube", "link", "mark", "failed"}),
         UNCHANGED <<input_, at_, markmap_, marks_, exits_, areaVars, mapVars>>
  PROVE  MapInv'
<1>1. ConfigIds' = ConfigIds
  BY SameFile DEF areaVars
<1>2. WorldMapTypeOK'
  BY TablesStay DEF MapInv, areaVars, mapVars
<1>3. ControlOK'
  BY <1>1 DEF MapInv, ControlOK, Steps, areaVars
<1>4. MarksKnown'
  BY DEF MarksKnown
<1> QED
  BY <1>2, <1>3, <1>4 DEF MapInv

LEMMA InitInv == WorldMapInit => MapInv
<1> SUFFICES ASSUME WorldMapInit PROVE MapInv
  OBVIOUS
<1>1. ControlOK
  BY NothingIs DEF WorldMapInit, ControlOK, Steps
<1>2. MarksKnown
  BY DEF WorldMapInit, MarksKnown
<1>3. UNION {{f} \X area_cubes_[f] : f \in DOMAIN area_cubes_} = {}
  BY NothingIs DEF WorldMapInit
<1>4. WorldMapTypeOK
  BY <1>3, NothingIs DEF WorldMapInit, WorldMapTypeOK, ObjectsOK, MarksOK, MapOK
<1> QED
  BY <1>1, <1>2, <1>4 DEF MapInv

(* Going on with the next file. *)
LEMMA TakeAreaKeeps ==
  ASSUME MapInv, NEW ids \in SUBSET ConfigIds, DOMAIN area_cubes_ \subseteq ConfigIds \ ids,
         TakeArea(ids), step_ \in {"config", "mob"}, at_' \in Nat \ {0},
         UNCHANGED <<input_, markmap_, marks_, exits_, areas_, area_cubes_, mapVars>>
  PROVE  MapInv'
<1>1. ConfigIds' = ConfigIds /\ ConfigIds \subseteq AreaId
  BY FileShape DEF MapInv, ControlOK, ConfigIds
<1>2. markmap_ = Nothing /\ markmap_' = Nothing
  BY DEF MapInv, ControlOK
<1>3. CASE ids = {}
  <2>1. step_' = "shortcut" /\ left_' = {}
    BY <1>3 DEF TakeArea
  <2>2. ControlOK'
    BY <1>1, <1>2, <1>3, <2>1 DEF MapInv, ControlOK, Steps
  <2>3. MarksKnown'
    BY <2>1 DEF MarksKnown
  <2>4. WorldMapTypeOK'
    BY <1>2, <2>1, NothingIs DEF MapInv, WorldMapTypeOK, ObjectsOK, MarksOK, MapOK, mapVars
  <2> QED
    BY <2>2, <2>3, <2>4 DEF MapInv
<1>4. CASE ids # {}
  <2>1. ids \in SUBSET AreaId
    BY <1>1
  <2>2. step_' = "head" /\ file_' \in ids /\ left_' = ids \ {file_'}
    BY <1>4, <2>1, SmallestId DEF TakeArea
  <2>3. ControlOK'
    BY <1>1, <1>2, <2>2 DEF MapInv, ControlOK, Steps
  <2>4. MarksKnown'
    BY <2>2 DEF MarksKnown
  <2>5. WorldMapTypeOK'
    BY <1>2, <2>2, NothingIs DEF MapInv, WorldMapTypeOK, ObjectsOK, MarksOK, MapOK, mapVars
  <2> QED
    BY <2>3, <2>4, <2>5 DEF MapInv
<1> QED
  BY <1>3, <1>4

LEMMA ReadConfigKeeps == MapInv /\ ReadConfig => MapInv'
<1> SUFFICES ASSUME MapInv, ReadConfig PROVE MapInv'
  OBVIOUS
<1>1. CASE Fail \/ (Crash /\ step_ = "config")
  BY <1>1, StopKeeps DEF Fail, Crash, Stop
<1>2. CASE ~Fail /\ ~(Crash /\ step_ = "config")
  <2>1. TakeArea(ConfigIds)
    BY <1>2 DEF ReadConfig
  <2>2. UNCHANGED <<input_, at_, markmap_, marks_, exits_, areas_, area_cubes_, mapVars>>
    BY <1>2 DEF ReadConfig
  <2>3. DOMAIN area_cubes_ = {} /\ step_ = "config" /\ at_' \in Nat \ {0}
    BY <2>2 DEF ReadConfig, MapInv, ControlOK
  <2> QED
    BY <2>1, <2>2, <2>3, TakeAreaKeeps
<1> QED
  BY <1>1, <1>2

LEMMA MobsReadKeeps == MapInv /\ MobsRead => MapInv'
<1> SUFFICES ASSUME MapInv, MobsRead PROVE MapInv'
  OBVIOUS
<1>1. /\ left_ \subseteq ConfigIds /\ DOMAIN area_cubes_ \subseteq ConfigIds \ left_
      /\ TakeArea(left_) /\ step_ = "mob" /\ at_' = 1
      /\ UNCHANGED <<input_, markmap_, marks_, exits_, areas_, area_cubes_, mapVars>>
  BY DEF MobsRead, MapInv, ControlOK
<1> QED
  BY <1>1, TakeAreaKeeps

(* The constructor of Area, before the cubes: a new file without cubes. *)
LEMMA AreaHeadKeeps == MapInv /\ AreaHead => MapInv'
<1> SUFFICES ASSUME MapInv, AreaHead PROVE MapInv'
  OBVIOUS
<1>1. CASE step_' = "crashed"
  BY <1>1, StopKeeps DEF AreaHead, Fail, Crash, Stop
<1>2. CASE step_' = "failed"
  BY <1>2, StopKeeps DEF AreaHead, Fail, Crash, Stop
<1>3. CASE step_' \notin {"crashed", "failed"}
  <2>1. /\ HeadOK /\ step_ = "head" /\ step_' = "cube" /\ at_' = 1 /\ markmap_' = Nothing
        /\ area_cubes_' = With(area_cubes_, file_, {})
        /\ UNCHANGED <<input_, marks_, exits_, left_, file_, areas_, mapVars>>
    BY <1>3 DEF AreaHead, Fail, Crash, Stop
  <2>2. /\ ConfigIds' = ConfigIds /\ HeadOK' = HeadOK
        /\ file_ \in ConfigIds /\ file_ \notin left_ /\ file_ \notin DOMAIN area_cubes_
    BY <2>1, SameFile DEF MapInv, ControlOK
  <2>3. /\ DOMAIN area_cubes_' = DOMAIN area_cubes_ \cup {file_}
    BY <2>1, WithIs
  <2>4. ControlOK'
    BY <2>1, <2>2, <2>3 DEF MapInv, ControlOK, Steps
  <2>5. MarksKnown'
    <3>1. \A i \in DOMAIN List("cubes")' : ~ (i < 1)
      <4>1. Has(Json, "cubes") /\ AreaShape(Json)
        BY <2>1, <2>2, FileShape DEF HeadOK, Json, MapInv, ControlOK
      <4>2. IsList(List("cubes"))
        BY <4>1 DEF AreaShape, List
      <4>3. List("cubes")' = List("cubes")
        BY <2>1, SameFile
      <4> QED
        BY <4>2, <4>3 DEF IsList
    <3> QED
      BY <2>1, <3>1 DEF MarksKnown
  <2>6. ObjectsOK'
    BY <2>1, <2>2, NewFile DEF MapInv, WorldMapTypeOK
  <2>7. MarksOK' /\ MapOK'
    BY <2>1, <2>3, NothingIs DEF MapInv, WorldMapTypeOK, MarksOK, MapOK, mapVars
  <2> QED
    BY <2>4, <2>5, <2>6, <2>7 DEF MapInv, WorldMapTypeOK
<1> QED
  BY <1>1, <1>2, <1>3

(* The lists of a file whose head was read. *)
LEMMA ListShape ==
  ASSUME MapInv, step_ \in {"cube", "link", "mark"}
  PROVE  /\ IsList(List("cubes")) /\ IsList(List("links"))
         /\ Json.offset \in Triple
         /\ \A i \in DOMAIN List("cubes") : Has(List("cubes")[i], "loc") => List("cubes")[i].loc \in Triple
         /\ Json.id \in AreaId
<1>1. HeadOK /\ AreaShape(Json)
  BY FileShape DEF MapInv, ControlOK, Json
<1>2. IsList(<<>>)
  BY DEF IsList
<1> QED
  BY <1>1, <1>2 DEF HeadOK, AreaShape, List

LEMMA CubesReadKeeps == MapInv /\ CubesRead => MapInv'
<1> SUFFICES ASSUME MapInv, CubesRead PROVE MapInv'
  OBVIOUS
<1>1. /\ step_ = "cube" /\ step_' = "link" /\ at_' = 1 /\ at_ > Len(List("cubes"))
      /\ UNCHANGED <<input_, markmap_, marks_, exits_, file_, left_, areas_, area_cubes_, cubes_, reborn_>>
  BY DEF CubesRead, areaVars, mapVars
<1>2. ConfigIds' = ConfigIds /\ HeadOK' = HeadOK /\ List("cubes")' = List("cubes")
  BY <1>1, SameFile
<1>3. WorldMapTypeOK'
  BY <1>1, TablesStay DEF MapInv
<1>4. ControlOK'
  BY <1>1, <1>2 DEF MapInv, ControlOK, Steps
<1>5. \A i \in DOMAIN List("cubes") : i < at_
  BY <1>1, ListShape DEF IsList, MapInv, ControlOK
<1>6. MarksKnown'
  BY <1>1, <1>2, <1>5 DEF MapInv, MarksKnown
<1> QED
  BY <1>3, <1>4, <1>6 DEF MapInv

LEMMA LinksReadKeeps == MapInv /\ LinksRead => MapInv'
<1> SUFFICES ASSUME MapInv, LinksRead PROVE MapInv'
  OBVIOUS
<1>1. /\ step_ = "link" /\ step_' = "mark" /\ at_' = 1
      /\ UNCHANGED <<input_, markmap_, marks_, exits_, file_, left_, areas_, area_cubes_, cubes_, reborn_>>
  BY DEF LinksRead, areaVars, mapVars
<1>2. ConfigIds' = ConfigIds /\ HeadOK' = HeadOK /\ List("cubes")' = List("cubes")
  BY <1>1, SameFile
<1>3. WorldMapTypeOK'
  BY <1>1, TablesStay DEF MapInv
<1>4. ControlOK'
  BY <1>1, <1>2 DEF MapInv, ControlOK, Steps
<1>5. MarksKnown'
  BY <1>1, <1>2 DEF MapInv, MarksKnown
<1> QED
  BY <1>3, <1>4, <1>5 DEF MapInv

LEMMA LoadedKeeps == MapInv /\ Loaded => MapInv'
<1> SUFFICES ASSUME MapInv, Loaded PROVE MapInv'
  OBVIOUS
<1>1. /\ step_ = "global" /\ step_' = "done" /\ at_' = at_
      /\ UNCHANGED <<input_, markmap_, marks_, exits_, file_, left_, areas_, area_cubes_, cubes_, reborn_>>
  BY DEF Loaded, areaVars, mapVars
<1>2. ConfigIds' = ConfigIds
  BY <1>1, SameFile
<1>3. WorldMapTypeOK'
  BY <1>1, TablesStay DEF MapInv
<1>4. ControlOK'
  BY <1>1, <1>2 DEF MapInv, ControlOK, Steps
<1>5. MarksKnown'
  BY <1>1 DEF MarksKnown
<1> QED
  BY <1>3, <1>4, <1>5 DEF MapInv

(* A cube is read: one object more, perhaps one mark. *)
LEMMA AreaCubeKeeps == MapInv /\ AreaCube => MapInv'
<1> SUFFICES ASSUME MapInv, AreaCube PROVE MapInv'
  OBVIOUS
<1> DEFINE entry == Entry("cubes")
           pos == readloc(entry.loc, Json.offset)
           letters == IF Has(entry, "exits") THEN entry.exits ELSE {}
           exits == [d \in ExitDir |-> IF d \in letters THEN EXIT_NORMAL ELSE 0]
<1>1. CASE ~CubeOK(entry)
  <2>1. Fail
    BY <1>1 DEF AreaCube
  <2> QED
    BY <2>1, StopKeeps DEF Fail, Crash, Stop
<1>2. CASE CubeOK(entry)
  <2>1. /\ step_ = "cube" /\ at_ <= Len(List("cubes")) /\ at_' = at_ + 1
        /\ area_cubes_' = [area_cubes_ EXCEPT ![file_] = @ \cup {pos}]
        /\ markmap_' = IF Has(entry, "mark") THEN With(markmap_, entry.mark, pos) ELSE markmap_
        /\ exits_' = With(exits_, <<file_, pos>>, exits)
        /\ UNCHANGED <<input_, step_, marks_, left_, file_, areas_, cubes_, adjacent_, reborn_>>
    BY <1>2 DEF AreaCube, mapVars
  <2>2. /\ ConfigIds' = ConfigIds /\ HeadOK' = HeadOK /\ List("cubes")' = List("cubes")
        /\ file_ \in DOMAIN area_cubes_ /\ at_ \in Nat \ {0}
    BY <2>1, SameFile DEF MapInv, ControlOK
  <2>3. pos \in Position
    <3>1. entry = List("cubes")[at_] /\ at_ \in DOMAIN List("cubes")
      <4>1. HeadOK
        BY <2>1 DEF MapInv, ControlOK
      <4> QED
        BY <4>1, <2>1, <2>2, ListShape DEF Entry, List, HeadOK, IsList
    <3>2. entry.loc \in Triple /\ Json.offset \in Triple
      BY <1>2, <2>1, <3>1, ListShape DEF CubeOK
    <3> QED
      BY <3>2, readlocInGrid
  <2>4. exits \in [ExitDir -> Nat]
    BY DEF EXIT_NORMAL
  <2>5. entry = List("cubes")[at_]
    BY <2>1 DEF MapInv, ControlOK, HeadOK, Entry, List
  <2> HIDE DEF entry, pos, exits
  <2>6. DOMAIN area_cubes_' = DOMAIN area_cubes_ /\ area_cubes_'[file_] = area_cubes_[file_] \cup {pos}
    BY <2>1, <2>2
  <2>7. ControlOK'
    BY <2>1, <2>2, <2>6 DEF MapInv, ControlOK, Steps
  <2>8. DOMAIN markmap_' = DOMAIN markmap_ \cup (IF Has(entry, "mark") THEN {entry.mark} ELSE {})
    BY <2>1 DEF With
  <2>9. MarksKnown'
    <3> SUFFICES ASSUME NEW i \in DOMAIN List("cubes"), i < at_ + 1, Has(List("cubes")[i], "mark")
                 PROVE  List("cubes")[i].mark \in DOMAIN markmap_'
      BY <2>1, <2>2 DEF MarksKnown
    <3>1. i \in Nat
      BY <2>1, ListShape DEF IsList
    <3>2. CASE i = at_
      BY <2>5, <2>8, <3>2
    <3>3. CASE i < at_
      BY <2>1, <2>8, <3>3 DEF MapInv, MarksKnown
    <3> QED
      BY <2>2, <3>1, <3>2, <3>3
  <2>10. ObjectsOK'
    BY <2>1, <2>2, <2>3, <2>4, NewCube DEF MapInv, WorldMapTypeOK
  <2>11. DOMAIN exits_ \subseteq DOMAIN exits_'
    BY <2>1 DEF With
  <2>12. MarksOK'
    <3>1. \A mark \in DOMAIN markmap_' : markmap_'[mark] \in area_cubes_[file_] \cup {pos}
      BY <2>1 DEF MapInv, WorldMapTypeOK, MarksOK, With
    <3> QED
      BY <2>1, <2>6, <2>11, <3>1 DEF MapInv, WorldMapTypeOK, MarksOK
  <2>13. MapOK'
    BY <2>1, <2>6, <2>11 DEF MapInv, WorldMapTypeOK, MapOK
  <2> QED
    BY <2>7, <2>9, <2>10, <2>12, <2>13 DEF MapInv, WorldMapTypeOK
<1> QED
  BY <1>1, <1>2

(* A link changes exits of objects, and nothing else. *)
LEMMA LinkedKeeps ==
  ASSUME MapInv, NEW twoway \in BOOLEAN, NEW a \in DOMAIN exits_, NEW b \in DOMAIN exits_, NEW attr \in Nat,
         exits_' = AddLink(exits_, twoway, a, b, attr),
         UNCHANGED <<input_, step_, file_, left_, markmap_, marks_, areas_, area_cubes_, cubes_, reborn_>>,
         at_' = at_ + 1, step_ \in {"link", "global"}
  PROVE  MapInv'
<1>1. ExitsTyped(exits_)
  BY DEF MapInv, WorldMapTypeOK, ObjectsOK, ExitsTyped
<1>2. DOMAIN exits_' = DOMAIN exits_ /\ ExitsTyped(exits_')
  BY <1>1, AddLinkIs
<1>3. ConfigIds' = ConfigIds /\ HeadOK' = HeadOK /\ List("cubes")' = List("cubes")
  BY SameFile
<1>4. ControlOK'
  BY <1>3 DEF MapInv, ControlOK, Steps
<1>5. MarksKnown'
  BY <1>3 DEF MapInv, MarksKnown
<1>6. WorldMapTypeOK'
  BY <1>2 DEF MapInv, WorldMapTypeOK, ObjectsOK, MarksOK, MapOK, ExitsTyped
<1> QED
  BY <1>4, <1>5, <1>6 DEF MapInv

LEMMA AreaLinkKeeps == MapInv /\ AreaLink => MapInv'
<1> SUFFICES ASSUME MapInv, AreaLink PROVE MapInv'
  OBVIOUS
<1> DEFINE link == Entry("links")
<1>1. CASE ~LinkOK(link)
  <2>1. Fail
    BY <1>1 DEF AreaLink
  <2> QED
    BY <2>1, StopKeeps DEF Fail, Crash, Stop
<1>2. CASE LinkOK(link)
  <2>1. PICK garbage \in Garbage :
          exits_' = AddLink(exits_, TwoWay(link), <<file_, LinkEnd(link.from)>>,
                            <<file_, LinkEnd(link.to)>>, LinkAttr(link, garbage))
    BY <1>2 DEF AreaLink
  <2>2. /\ step_ = "link" /\ at_' = at_ + 1
        /\ UNCHANGED <<input_, step_, file_, left_, markmap_, marks_, areas_, area_cubes_, cubes_, reborn_>>
    BY <1>2 DEF AreaLink, areaVars, mapVars
  <2>3. /\ <<file_, LinkEnd(link.from)>> \in DOMAIN exits_
        /\ <<file_, LinkEnd(link.to)>> \in DOMAIN exits_
    BY <1>2, <2>2, ObjectIs DEF LinkOK, MapInv, ControlOK, WorldMapTypeOK
  <2>4. LinkAttr(link, garbage) \in Nat /\ TwoWay(link) \in BOOLEAN
    BY AttrNat DEF TwoWay
  <2> QED
    BY <2>1, <2>2, <2>3, <2>4, LinkedKeeps
<1> QED
  BY <1>1, <1>2

LEMMA GlobalLinkKeeps == MapInv /\ GlobalLink => MapInv'
<1> SUFFICES ASSUME MapInv, GlobalLink PROVE MapInv'
  OBVIOUS
<1> DEFINE link == input_.links[at_]
           from == GlobalEnd(link.from)
           to == GlobalEnd(link.to)
<1>0. /\ step_ = "global"
      /\ UNCHANGED <<input_, file_, left_, markmap_, marks_, areas_, area_cubes_, cubes_, reborn_>>
  BY DEF GlobalLink, areaVars, mapVars
<1>1. CASE ~LinkWhole(link)
  BY <1>1, StopKeeps DEF GlobalLink
<1>2. CASE LinkWhole(link) /\ (from = NoCube \/ to = NoCube)
  <2>1. at_' = at_ + 1 /\ UNCHANGED <<step_, exits_>>
    BY <1>2 DEF GlobalLink
  <2>2. ConfigIds' = ConfigIds
    BY <1>0, SameFile
  <2>3. ControlOK'
    BY <1>0, <2>1, <2>2 DEF MapInv, ControlOK, Steps
  <2>4. WorldMapTypeOK'
    BY <1>0, <2>1, TablesStay DEF MapInv
  <2>5. MarksKnown'
    BY <1>0, <2>1 DEF MarksKnown
  <2> QED
    BY <2>3, <2>4, <2>5 DEF MapInv
<1>3. CASE LinkWhole(link) /\ from # NoCube /\ to # NoCube
  <2>1. at_' = at_ + 1 /\ step_' = step_
    BY <1>3 DEF GlobalLink
  <2>2. PICK garbage \in Garbage :
          exits_' = AddLink(exits_, TwoWay(link), from, to, LinkAttr(link, garbage))
    BY <1>3 DEF GlobalLink
  <2>3. \A end : GlobalEnd(end) = NoCube \/ GlobalEnd(end) \in DOMAIN exits_
    BY DEF GlobalEnd, MapInv, WorldMapTypeOK, MarksOK, MapOK
  <2>4. from \in DOMAIN exits_ /\ to \in DOMAIN exits_
    BY <1>3, <2>3
  <2>5. LinkAttr(link, garbage) \in Nat /\ TwoWay(link) \in BOOLEAN
    BY AttrNat DEF TwoWay
  <2> QED
    BY <1>0, <2>1, <2>2, <2>4, <2>5, LinkedKeeps
<1> QED
  BY <1>1, <1>2, <1>3

(* The end of an area: its marks join those of all areas. *)
LEMMA AreaMarksKeeps == MapInv /\ AreaMarks => MapInv'
<1> SUFFICES ASSUME MapInv, AreaMarks PROVE MapInv'
  OBVIOUS
<1> DEFINE list == List("cubes")
           named == {i \in DOMAIN list : Has(list[i], "mark")}
           keys == {<<Json.id, list[i].mark>> : i \in named}
<1>1. /\ step_ = "mark" /\ areas_' = Insert(areas_, Json.id, file_)
      /\ UNCHANGED <<input_, at_, exits_, file_, left_, area_cubes_, cubes_, reborn_>>
  BY DEF AreaMarks, mapVars
<1>2. /\ ConfigIds' = ConfigIds /\ HeadOK' = HeadOK /\ List("cubes")' = List("cubes")
      /\ Json.id \in AreaId /\ file_ \in DOMAIN area_cubes_
  BY <1>1, SameFile, ListShape DEF MapInv, ControlOK
<1>3. /\ DOMAIN areas_' = DOMAIN areas_ \cup {Json.id}
      /\ \A id \in DOMAIN areas_' : areas_'[id] \in DOMAIN area_cubes_
  BY <1>1, <1>2 DEF Insert, With, MapInv, WorldMapTypeOK, MapOK
<1>4. MapOK' \/ step_' \in {"global", "done"}
  BY <1>1, <1>3 DEF MapInv, WorldMapTypeOK, MapOK
<1>5. ObjectsOK'
  BY <1>1 DEF MapInv, WorldMapTypeOK, ObjectsOK
<1>6. CASE step_' = "failed" /\ UNCHANGED <<marks_, markmap_>>
  <2>1. ControlOK'
    BY <1>1, <1>2, <1>3, <1>6 DEF MapInv, ControlOK, Steps
  <2>2. MarksKnown' /\ MarksOK'
    BY <1>1, <1>6 DEF MapInv, WorldMapTypeOK, MarksKnown, MarksOK
  <2> QED
    BY <1>4, <1>5, <1>6, <2>1, <2>2 DEF MapInv, WorldMapTypeOK
<1>7. CASE /\ marks_' = [k \in DOMAIN marks_ \cup keys |->
                            IF k \in DOMAIN marks_ THEN marks_[k] ELSE <<file_, markmap_[k[2]]>>]
           /\ markmap_' = Nothing
           /\ step_' = "mob"
  <2>1. ControlOK'
    BY <1>1, <1>2, <1>3, <1>7 DEF MapInv, ControlOK, Steps
  <2>2. MarksKnown'
    BY <1>7 DEF MarksKnown
  <2>3. \A k \in keys : k[2] \in DOMAIN markmap_
    BY <1>1 DEF MapInv, MarksKnown
  <2>4. \A k \in keys : <<file_, markmap_[k[2]]>> \in DOMAIN exits_
    BY <1>2, <2>3, ObjectIs DEF MapInv, WorldMapTypeOK, MarksOK
  <2> HIDE DEF keys
  <2>5. \A k \in DOMAIN marks_' : marks_'[k] \in DOMAIN exits_
    BY <1>7, <2>4 DEF MapInv, WorldMapTypeOK, MarksOK
  <2>6. MarksOK'
    BY <1>1, <1>7, <2>5, NothingIs DEF MarksOK
  <2> QED
    BY <1>4, <1>5, <1>7, <2>1, <2>2, <2>6 DEF MapInv, WorldMapTypeOK
<1> QED
  BY <1>6, <1>7 DEF AreaMarks

LEMMA AreaMobKeeps == MapInv /\ AreaMob => MapInv'
<1> SUFFICES ASSUME MapInv, AreaMob PROVE MapInv'
  OBVIOUS
<1>1. CASE Fail
  BY <1>1, StopKeeps DEF Fail, Crash, Stop
<1>2. CASE ~Fail
  <2>1. /\ step_ = "mob" /\ step_' = step_ /\ at_' = at_ + 1
        /\ UNCHANGED <<input_, markmap_, marks_, exits_, file_, left_, areas_, area_cubes_, cubes_, reborn_>>
    BY <1>2 DEF AreaMob, areaVars, mapVars
  <2>2. ConfigIds' = ConfigIds /\ HeadOK' = HeadOK
    BY <2>1, SameFile
  <2>3. ControlOK'
    BY <2>1, <2>2 DEF MapInv, ControlOK, Steps
  <2>4. WorldMapTypeOK'
    BY <2>1, TablesStay DEF MapInv
  <2>5. MarksKnown'
    BY <2>1 DEF MarksKnown
  <2> QED
    BY <2>3, <2>4, <2>5 DEF MapInv
<1> QED
  BY <1>1, <1>2

(* The shortcut map names, at every place an area has a cube, an object there. *)
LEMMA ShortcutIs ==
  ASSUME MapInv, NEW pos \in DOMAIN Shortcut
  PROVE  /\ \E id \in DOMAIN areas_ : Shortcut[pos] = <<areas_[id], pos>>
         /\ Shortcut[pos] \in DOMAIN exits_ /\ Place(Shortcut[pos]) = pos
<1> DEFINE owners == {id \in DOMAIN areas_ : pos \in area_cubes_[areas_[id]]}
<1>1. owners \in SUBSET AreaId /\ owners # {}
  BY DEF Shortcut, MapInv, ControlOK
<1> DEFINE last == CHOOSE id \in owners : \A other \in owners : other <= id
<1>2. Shortcut[pos] = <<areas_[last], pos>>
  BY DEF Shortcut
<1> HIDE DEF owners
<1>3. last \in owners
  BY <1>1, LargestId
<1> HIDE DEF last
<1>4. last \in DOMAIN areas_ /\ pos \in area_cubes_[areas_[last]]
  BY <1>3 DEF owners
<1>5. <<areas_[last], pos>> \in DOMAIN exits_
  BY <1>4, ObjectIs DEF MapInv, WorldMapTypeOK, MapOK
<1> QED
  BY <1>2, <1>4, <1>5 DEF Place

LEMMA MakeShortcutKeeps == MapInv /\ MakeShortcut => MapInv'
<1> SUFFICES ASSUME MapInv, MakeShortcut PROVE MapInv'
  OBVIOUS
<1>1. /\ step_ = "shortcut" /\ step_' \in {"global", "failed"} /\ cubes_' = Shortcut
      /\ step_' = "global" => reborn_' \in DOMAIN Shortcut
      /\ UNCHANGED <<input_, at_, markmap_, marks_, exits_, file_, left_, areas_, area_cubes_>>
  BY DEF MakeShortcut, RebornFound, areaVars
<1>2. ConfigIds' = ConfigIds
  BY <1>1, SameFile
<1>3. ControlOK'
  BY <1>1, <1>2 DEF MapInv, ControlOK, Steps
<1>4. MarksKnown'
  BY <1>1 DEF MarksKnown
<1>5. ObjectsOK' /\ MarksOK'
  BY <1>1 DEF MapInv, WorldMapTypeOK, ObjectsOK, MarksOK
<1>6. MapOK'
  BY <1>1, ShortcutIs DEF MapInv, WorldMapTypeOK, MapOK
<1> QED
  BY <1>3, <1>4, <1>5, <1>6 DEF MapInv, WorldMapTypeOK

LEMMA NextKeeps == MapInv /\ [WorldMapNext]_loadVars => MapInv'
<1> SUFFICES ASSUME MapInv, [WorldMapNext]_loadVars PROVE MapInv'
  OBVIOUS
<1>1. CASE UNCHANGED loadVars
  <2>1. UNCHANGED <<input_, step_, at_, markmap_, marks_, exits_, file_, left_, areas_, area_cubes_,
                    cubes_, reborn_>>
    BY <1>1 DEF loadVars, areaVars, mapVars
  <2>2. ConfigIds' = ConfigIds /\ HeadOK' = HeadOK /\ List("cubes")' = List("cubes")
    BY <2>1, SameFile
  <2>3. ControlOK'
    BY <2>1, <2>2 DEF MapInv, ControlOK
  <2>4. MarksKnown'
    BY <2>1, <2>2 DEF MapInv, MarksKnown
  <2>5. WorldMapTypeOK'
    BY <2>1, TablesStay DEF MapInv
  <2> QED
    BY <2>3, <2>4, <2>5 DEF MapInv
<1>2. CASE WorldMapNext
  BY <1>2, ReadConfigKeeps, AreaHeadKeeps, AreaCubeKeeps, CubesReadKeeps, AreaLinkKeeps, LinksReadKeeps,
     AreaMarksKeeps, AreaMobKeeps, MobsReadKeeps, MakeShortcutKeeps, GlobalLinkKeeps, LoadedKeeps
     DEF WorldMapNext
<1> QED
  BY <1>1, <1>2

LEMMA MapInvAlways == WorldMapSpec => []MapInv
BY InitInv, NextKeeps, PTL DEF WorldMapSpec

(* Whatever the files say, the tables of the loader fit together at every step:
   no mark, link or place of the map ever names a cube that is not there, and
   a map that is loaded has the cube to be reborn in (worldmap.cpp:59-398). *)
THEOREM WorldMapTypeCorrect == WorldMapSpec => []WorldMapTypeOK
<1>1. MapInv => WorldMapTypeOK
  BY DEF MapInv
<1> QED
  BY <1>1, MapInvAlways, PTL

(* The map as World has it: cubes_, exits_ and reborn_ of World's
   MapAssumption, read off a map that was loaded. *)
FitsWorld ==
  step_ = "done" =>
    /\ DOMAIN cubes_ \subseteq Position
    /\ [pos \in DOMAIN cubes_ |-> exits_[cubes_[pos]]] \in [DOMAIN cubes_ -> [ExitDir -> Nat]]
    /\ reborn_ \in DOMAIN cubes_

(* What the theorems about World take for granted of its map is what the
   loader leaves: World's
   constructor takes the map as it is (world.cpp:17-23). *)
THEOREM LoadedMapFitsWorld == WorldMapSpec => []FitsWorld
<1>1. WorldMapTypeOK => FitsWorld
  <2> SUFFICES ASSUME WorldMapTypeOK, step_ = "done" PROVE FitsWorld
    BY DEF FitsWorld
  <2>1. \A pos \in DOMAIN cubes_ : pos \in Position /\ exits_[cubes_[pos]] \in [ExitDir -> Nat]
    BY DEF WorldMapTypeOK, ObjectsOK, MapOK
  <2>2. reborn_ \in DOMAIN cubes_
    BY DEF WorldMapTypeOK, MapOK
  <2> QED
    BY <2>1, <2>2 DEF FitsWorld
<1> QED
  BY <1>1, WorldMapTypeCorrect, PTL

-----------------------------------------------------------------------------
(* Where exits lead                                                        *)

(* An exit no letter opened leads to the place of an object ... *)
OpenLeads ==
  \A cube \in DOMAIN exits_ : \A d \in ExitDir :
    exits_[cube][d] # 0 /\ d \notin Lettered(cube) =>
      \E other \in DOMAIN exits_ : Place(other) = Step(Place(cube), d)

(* ... and, when no file takes another's id, the objects of every file that was
   read are on the map. *)
OwnIds ==
  \A id \in DOMAIN areas_ : Has(FileOf(areas_[id]), "id") /\ FileOf(areas_[id]).id = id

AllRead ==
  DistinctIds =>
    \A f \in DOMAIN area_cubes_ :
      \/ f = file_ /\ step_ \in {"cube", "link", "mark"}
      \/ step_ = "failed"
      \/ \E id \in DOMAIN areas_ : areas_[id] = f

LeadInv == OpenLeads /\ OwnIds /\ AllRead /\ (step_ \in {"global", "done"} => cubes_ = Shortcut)

LEMMA SameInput ==
  ASSUME input_' = input_
  PROVE  /\ \A cube : Lettered(cube)' = Lettered(cube)
         /\ \A id : FileOf(id)' = FileOf(id)
         /\ DistinctIds' = DistinctIds
BY DEF Lettered, FileOf, DistinctIds, Entries

LEMMA LeadsStay ==
  ASSUME LeadInv, UNCHANGED <<input_, exits_, areas_, area_cubes_, cubes_>>,
         step_ \in {"cube", "link", "mark"} => file_' = file_ /\ step_' \in {"cube", "link", "mark", "failed"},
         step_ = "failed" => step_' = "failed",
         step_' \in {"global", "done"} => step_ \in {"global", "done"}
  PROVE  LeadInv'
<1>1. OpenLeads'
  BY SameInput DEF LeadInv, OpenLeads
<1>2. OwnIds'
  BY SameInput DEF LeadInv, OwnIds
<1>3. AllRead'
  BY SameInput DEF LeadInv, AllRead
<1>4. step_' \in {"global", "done"} => cubes_' = Shortcut'
  BY DEF LeadInv, Shortcut
<1> QED
  BY <1>1, <1>2, <1>3, <1>4 DEF LeadInv

LEMMA AreaHeadLeads == MapInv /\ LeadInv /\ AreaHead => LeadInv'
<1> SUFFICES ASSUME MapInv, LeadInv, AreaHead PROVE LeadInv'
  OBVIOUS
<1>1. CASE step_' \in {"crashed", "failed"}
  BY <1>1, LeadsStay DEF AreaHead, Fail, Crash, Stop, areaVars, mapVars
<1>2. CASE step_' \notin {"crashed", "failed"}
  <2>1. /\ step_ = "head" /\ step_' = "cube" /\ area_cubes_' = With(area_cubes_, file_, {})
        /\ UNCHANGED <<input_, exits_, file_, areas_>>
    BY <1>2 DEF AreaHead, Fail, Crash, Stop
  <2>2. OpenLeads' /\ OwnIds'
    BY <2>1, SameInput DEF LeadInv, OpenLeads, OwnIds
  <2>3. DOMAIN area_cubes_' = DOMAIN area_cubes_ \cup {file_}
    BY <2>1 DEF With
  <2>4. AllRead'
    BY <2>1, <2>3, SameInput DEF LeadInv, AllRead
  <2> QED
    BY <2>1, <2>2, <2>4 DEF LeadInv
<1> QED
  BY <1>1, <1>2

(* A new cube has no exits but those of its letters. *)
LEMMA AreaCubeLeads == MapInv /\ LeadInv /\ AreaCube => LeadInv'
<1> SUFFICES ASSUME MapInv, LeadInv, AreaCube PROVE LeadInv'
  OBVIOUS
<1> DEFINE entry == Entry("cubes")
           pos == readloc(entry.loc, Json.offset)
           letters == IF Has(entry, "exits") THEN entry.exits ELSE {}
           exits == [d \in ExitDir |-> IF d \in letters THEN EXIT_NORMAL ELSE 0]
<1>1. CASE ~CubeOK(entry)
  <2>1. Fail
    BY <1>1 DEF AreaCube
  <2> QED
    BY <2>1, LeadsStay DEF Fail, Crash, Stop, areaVars, mapVars, AreaCube
<1>2. CASE CubeOK(entry)
  <2>1. /\ step_ = "cube" /\ at_ <= Len(List("cubes"))
        /\ area_cubes_' = [area_cubes_ EXCEPT ![file_] = @ \cup {pos}]
        /\ exits_' = With(exits_, <<file_, pos>>, exits)
        /\ UNCHANGED <<input_, step_, file_, areas_, cubes_>>
    BY <1>2 DEF AreaCube, mapVars
  <2>2. at_ \in DOMAIN Json.cubes /\ entry = Json.cubes[at_]
    <3>1. HeadOK /\ at_ \in Nat \ {0} /\ IsList(List("cubes"))
      BY <2>1, ListShape DEF MapInv, ControlOK
    <3> QED
      BY <2>1, <3>1 DEF Entry, List, HeadOK, IsList
  <2>3. \A d \in ExitDir : exits[d] # 0 => d \in Lettered(<<file_, pos>>)
    BY <1>2, <2>2 DEF Lettered, Json, Place, CubeOK
  <2> HIDE DEF pos, exits
  <2>4. /\ DOMAIN exits_' = DOMAIN exits_ \cup {<<file_, pos>>} /\ exits_'[<<file_, pos>>] = exits
        /\ \A cube \in DOMAIN exits_ : cube # <<file_, pos>> => exits_'[cube] = exits_[cube]
    BY <2>1 DEF With
  <2>5. OpenLeads'
    <3> SUFFICES ASSUME NEW cube \in DOMAIN exits_', NEW d \in ExitDir,
                        exits_'[cube][d] # 0, d \notin Lettered(cube)
                 PROVE  \E other \in DOMAIN exits_' : Place(other) = Step(Place(cube), d)
      BY <2>1, SameInput DEF OpenLeads
    <3>1. cube \in DOMAIN exits_ /\ exits_[cube][d] # 0
      BY <2>3, <2>4
    <3> QED
      BY <2>4, <3>1 DEF LeadInv, OpenLeads
  <2>6. OwnIds'
    BY <2>1, SameInput DEF LeadInv, OwnIds
  <2>7. AllRead'
    BY <2>1, SameInput DEF LeadInv, AllRead
  <2> QED
    BY <2>1, <2>5, <2>6, <2>7 DEF LeadInv
<1> QED
  BY <1>1, <1>2

(* A link opens exits between its two ends. *)
LEMMA LinkedLeads ==
  ASSUME MapInv, LeadInv, NEW twoway \in BOOLEAN, NEW a \in DOMAIN exits_, NEW b \in DOMAIN exits_,
         NEW attr \in Nat, exits_' = AddLink(exits_, twoway, a, b, attr),
         UNCHANGED <<input_, step_, file_, areas_, area_cubes_, cubes_>>
  PROVE  LeadInv'
<1>1. ExitsTyped(exits_)
  BY DEF MapInv, WorldMapTypeOK, ObjectsOK, ExitsTyped
<1>2. DOMAIN exits_' = DOMAIN exits_
  BY <1>1, AddLinkIs
<1>3. CASE ~CanLink(a, b)
  <2>1. exits_' = exits_
    BY <1>1, <1>3, AddLinkIs
  <2> QED
    BY <2>1, LeadsStay
<1>4. CASE CanLink(a, b)
  <2>1. \A cube \in DOMAIN exits_ : \A d \in ExitDir :
          exits_'[cube][d] = IF \/ cube = a /\ d = LinkDir(Place(a), Place(b))
                                \/ twoway /\ cube = b /\ d = LinkDir(Place(b), Place(a))
                             THEN attr ELSE exits_[cube][d]
    BY <1>1, <1>4, AddLinkIs
  <2>2. Place(a) \in Position /\ Place(b) \in Position
    BY <1>1 DEF ExitsTyped
  <2>3. /\ Step(Place(a), LinkDir(Place(a), Place(b))) = Place(b)
        /\ Step(Place(b), LinkDir(Place(b), Place(a))) = Place(a)
    BY <1>4, <2>2, LinkDirLeads, LinkBothWays DEF CanLink
  <2>4. OpenLeads'
    <3> SUFFICES ASSUME NEW cube \in DOMAIN exits_, NEW d \in ExitDir,
                        exits_'[cube][d] # 0, d \notin Lettered(cube)
                 PROVE  \E other \in DOMAIN exits_ : Place(other) = Step(Place(cube), d)
      BY <1>2, SameInput DEF OpenLeads
    <3>1. CASE cube = a /\ d = LinkDir(Place(a), Place(b))
      BY <2>3, <3>1
    <3>2. CASE cube = b /\ d = LinkDir(Place(b), Place(a))
      BY <2>3, <3>2
    <3>3. CASE exits_'[cube][d] = exits_[cube][d]
      BY <3>3 DEF LeadInv, OpenLeads
    <3> QED
      BY <2>1, <3>1, <3>2, <3>3
  <2>5. OwnIds' /\ AllRead'
    BY SameInput DEF LeadInv, OwnIds, AllRead
  <2>6. Shortcut' = Shortcut
    BY DEF Shortcut
  <2> QED
    BY <2>4, <2>5, <2>6 DEF LeadInv
<1> QED
  BY <1>3, <1>4

LEMMA AreaLinkLeads == MapInv /\ LeadInv /\ AreaLink => LeadInv'
<1> SUFFICES ASSUME MapInv, LeadInv, AreaLink PROVE LeadInv'
  OBVIOUS
<1> DEFINE link == Entry("links")
<1>1. CASE ~LinkOK(link)
  <2>1. Fail
    BY <1>1 DEF AreaLink
  <2> QED
    BY <2>1, LeadsStay DEF Fail, Crash, Stop, areaVars, mapVars, AreaLink
<1>2. CASE LinkOK(link)
  <2>1. PICK garbage \in Garbage :
          exits_' = AddLink(exits_, TwoWay(link), <<file_, LinkEnd(link.from)>>,
                            <<file_, LinkEnd(link.to)>>, LinkAttr(link, garbage))
    BY <1>2 DEF AreaLink
  <2>2. step_ = "link" /\ UNCHANGED <<input_, step_, file_, areas_, area_cubes_, cubes_>>
    BY <1>2 DEF AreaLink, areaVars, mapVars
  <2>3. /\ <<file_, LinkEnd(link.from)>> \in DOMAIN exits_
        /\ <<file_, LinkEnd(link.to)>> \in DOMAIN exits_
    BY <1>2, <2>2, ObjectIs DEF LinkOK, MapInv, ControlOK, WorldMapTypeOK
  <2>4. LinkAttr(link, garbage) \in Nat /\ TwoWay(link) \in BOOLEAN
    BY AttrNat DEF TwoWay
  <2> QED
    BY <2>1, <2>2, <2>3, <2>4, LinkedLeads
<1> QED
  BY <1>1, <1>2

LEMMA GlobalLinkLeads == MapInv /\ LeadInv /\ GlobalLink => LeadInv'
<1> SUFFICES ASSUME MapInv, LeadInv, GlobalLink PROVE LeadInv'
  OBVIOUS
<1> DEFINE link == input_.links[at_]
           from == GlobalEnd(link.from)
           to == GlobalEnd(link.to)
<1>1. step_ = "global" /\ UNCHANGED <<input_, file_, areas_, area_cubes_, cubes_>>
  BY DEF GlobalLink, areaVars, mapVars
<1>2. CASE exits_' = exits_
  BY <1>1, <1>2, LeadsStay DEF GlobalLink
<1>3. CASE LinkWhole(link) /\ from # NoCube /\ to # NoCube
  <2>1. step_' = step_
    BY <1>3 DEF GlobalLink
  <2>2. PICK garbage \in Garbage :
          exits_' = AddLink(exits_, TwoWay(link), from, to, LinkAttr(link, garbage))
    BY <1>3 DEF GlobalLink
  <2>3. \A end : GlobalEnd(end) = NoCube \/ GlobalEnd(end) \in DOMAIN exits_
    BY DEF GlobalEnd, MapInv, WorldMapTypeOK, MarksOK, MapOK
  <2>4. from \in DOMAIN exits_ /\ to \in DOMAIN exits_
    BY <1>3, <2>3
  <2>5. LinkAttr(link, garbage) \in Nat /\ TwoWay(link) \in BOOLEAN
    BY AttrNat DEF TwoWay
  <2> QED
    BY <1>1, <2>1, <2>2, <2>4, <2>5, LinkedLeads
<1> QED
  BY <1>2, <1>3 DEF GlobalLink

(* An id of its own tells the file. *)
LEMMA OneFile ==
  ASSUME DistinctIds, NEW f \in ConfigIds, NEW g \in ConfigIds,
         Has(FileOf(f), "id"), Has(FileOf(g), "id"), FileOf(f).id = FileOf(g).id
  PROVE  f = g
<1>1. ASSUME NEW id \in ConfigIds PROVE \E e \in Entries : e.id = id /\ e.json = FileOf(id)
  <2> DEFINE i == CHOOSE i \in DOMAIN input_.config : input_.config[i].id = id
  <2>1. i \in DOMAIN input_.config /\ input_.config[i].id = id
    BY DEF ConfigIds
  <2>2. FileOf(id) = input_.config[i].json
    BY DEF FileOf
  <2> HIDE DEF i
  <2>3. input_.config[i] \in Entries
    BY <2>1 DEF Entries
  <2> QED
    BY <2>1, <2>2, <2>3
<1>2. PICK e \in Entries : e.id = f /\ e.json = FileOf(f)
  BY <1>1
<1>3. PICK h \in Entries : h.id = g /\ h.json = FileOf(g)
  BY <1>1
<1>4. e = h
  BY <1>2, <1>3 DEF DistinctIds
<1> QED
  BY <1>2, <1>3, <1>4

(* The file that is read last becomes the area of its id, or another file with
   the same id is there. *)
LEMMA AreaMarksLeads == MapInv /\ LeadInv /\ AreaMarks => LeadInv'
<1> SUFFICES ASSUME MapInv, LeadInv, AreaMarks PROVE LeadInv'
  OBVIOUS
<1>1. /\ step_ = "mark" /\ step_' \in {"failed", "mob"} /\ areas_' = Insert(areas_, Json.id, file_)
      /\ UNCHANGED <<input_, exits_, file_, area_cubes_, cubes_>>
  BY DEF AreaMarks, mapVars
<1>2. HeadOK /\ file_ \in ConfigIds /\ DOMAIN area_cubes_ \subseteq ConfigIds
  BY <1>1 DEF MapInv, ControlOK
<1>3. OpenLeads'
  BY <1>1, SameInput DEF LeadInv, OpenLeads
<1>4. /\ DOMAIN areas_' = DOMAIN areas_ \cup {Json.id}
      /\ \A id \in DOMAIN areas_ : areas_'[id] = areas_[id]
      /\ Json.id \notin DOMAIN areas_ => areas_'[Json.id] = file_
  BY <1>1 DEF Insert, With
<1>5. OwnIds'
  <2>1. Has(FileOf(file_), "id") /\ FileOf(file_).id = Json.id
    BY <1>2 DEF HeadOK, Json
  <2> QED
    BY <1>1, <1>4, <2>1, SameInput DEF LeadInv, OwnIds
<1>6. AllRead'
  <2> SUFFICES ASSUME DistinctIds, NEW f \in DOMAIN area_cubes_, step_' # "failed"
               PROVE  \E id \in DOMAIN areas_' : areas_'[id] = f
    BY <1>1, SameInput DEF AllRead
  <2>1. CASE f # file_
    BY <1>1, <1>4, <2>1 DEF LeadInv, AllRead
  <2>2. CASE f = file_ /\ Json.id \notin DOMAIN areas_
    BY <1>4, <2>2
  <2>3. CASE f = file_ /\ Json.id \in DOMAIN areas_
    <3> DEFINE g == areas_[Json.id]
    <3>1. g \in ConfigIds /\ Has(FileOf(g), "id") /\ FileOf(g).id = Json.id
      BY <1>2, <2>3 DEF LeadInv, OwnIds, MapInv, WorldMapTypeOK, MapOK
    <3> HIDE DEF g
    <3>2. Has(FileOf(file_), "id") /\ FileOf(file_).id = FileOf(g).id
      BY <1>2, <3>1 DEF HeadOK, Json
    <3>3. g = file_
      BY <1>2, <3>1, <3>2, OneFile
    <3> QED
      BY <1>4, <2>3, <3>3 DEF g
  <2> QED
    BY <2>1, <2>2, <2>3
<1> QED
  BY <1>1, <1>3, <1>5, <1>6 DEF LeadInv

LEMMA MakeShortcutLeads == MapInv /\ LeadInv /\ MakeShortcut => LeadInv'
<1> SUFFICES ASSUME MapInv, LeadInv, MakeShortcut PROVE LeadInv'
  OBVIOUS
<1>1. /\ step_ = "shortcut" /\ cubes_' = Shortcut
      /\ UNCHANGED <<input_, exits_, areas_, area_cubes_>>
  BY DEF MakeShortcut, areaVars
<1>2. OpenLeads' /\ OwnIds' /\ AllRead'
  BY <1>1, SameInput DEF LeadInv, OpenLeads, OwnIds, AllRead
<1>3. Shortcut' = Shortcut
  BY <1>1 DEF Shortcut
<1> QED
  BY <1>1, <1>2, <1>3 DEF LeadInv

LEMMA NextLeads == MapInv /\ LeadInv /\ [WorldMapNext]_loadVars => LeadInv'
<1> SUFFICES ASSUME MapInv, LeadInv, [WorldMapNext]_loadVars PROVE LeadInv'
  OBVIOUS
<1>1. CASE UNCHANGED loadVars
  BY <1>1, LeadsStay DEF loadVars, areaVars, mapVars
<1>2. CASE ReadConfig
  BY <1>2, LeadsStay DEF ReadConfig, Fail, Crash, Stop, TakeArea, areaVars, mapVars
<1>3. CASE CubesRead \/ LinksRead \/ Loaded
  BY <1>3, LeadsStay DEF CubesRead, LinksRead, Loaded, areaVars, mapVars
<1>4. CASE AreaMob
  BY <1>4, LeadsStay DEF AreaMob, Fail, Crash, Stop, areaVars, mapVars
<1>5. CASE MobsRead
  BY <1>5, LeadsStay DEF MobsRead, TakeArea, areaVars, mapVars
<1> QED
  BY <1>1, <1>2, <1>3, <1>4, <1>5, AreaHeadLeads, AreaCubeLeads, AreaLinkLeads, AreaMarksLeads,
     MakeShortcutLeads, GlobalLinkLeads DEF WorldMapNext

LEMMA InitLeads == WorldMapInit => LeadInv
<1>1. WorldMapInit => DOMAIN exits_ = {} /\ DOMAIN areas_ = {} /\ DOMAIN area_cubes_ = {} /\ step_ = "config"
  BY NothingIs DEF WorldMapInit
<1> QED
  BY <1>1 DEF LeadInv, OpenLeads, OwnIds, AllRead

LEMMA LeadsOfMap == MapInv /\ LeadInv => LinksLead
<1> SUFFICES ASSUME MapInv, LeadInv, step_ = "done", DistinctIds,
                    NEW pos \in DOMAIN cubes_, NEW d \in ExitDir,
                    exits_[cubes_[pos]][d] # 0, d \notin Lettered(cubes_[pos])
             PROVE  Step(pos, d) \in DOMAIN cubes_
  BY DEF LinksLead
<1>1. cubes_[pos] \in DOMAIN exits_ /\ Place(cubes_[pos]) = pos
  BY DEF MapInv, WorldMapTypeOK, MapOK
<1>2. PICK other \in DOMAIN exits_ : Place(other) = Step(pos, d)
  BY <1>1 DEF LeadInv, OpenLeads
<1>3. other[1] \in DOMAIN area_cubes_ /\ other[2] \in area_cubes_[other[1]]
  BY ObjectIs DEF MapInv, WorldMapTypeOK
<1>4. PICK id \in DOMAIN areas_ : areas_[id] = other[1]
  BY <1>3 DEF LeadInv, AllRead
<1>5. other[2] \in UNION {area_cubes_[areas_[i]] : i \in DOMAIN areas_}
  BY <1>3, <1>4
<1>6. DOMAIN cubes_ = UNION {area_cubes_[areas_[i]] : i \in DOMAIN areas_}
  BY DEF LeadInv, Shortcut
<1> QED
  BY <1>2, <1>5, <1>6 DEF Place

(* Whoever walks by the exits that links opened never stands before nothing:
   for all files whose ids are their own, letters apart (worldmap.cpp:267,
   cube.cpp:50). *)
THEOREM LinksAlwaysLead == WorldMapSpec => []LinksLead
<1>1. WorldMapSpec => []LeadInv
  BY InitLeads, NextLeads, MapInvAlways, PTL DEF WorldMapSpec
<1> QED
  BY <1>1, LeadsOfMap, MapInvAlways, PTL

-----------------------------------------------------------------------------
(* Ways back                                                               *)

(* The map is made of two-way links that open plain exits. *)
OnlyTwoWay == ~WithAttr /\ \A link \in AllLinks : TwoWay(link)

(* An exit that is open, and the exit back of the object it leads to. *)
HasWayBack(exits, cube, d) ==
  d \in WalkDir /\ \E other \in DOMAIN exits : /\ Place(other) = Step(Place(cube), d)
                                              /\ exits[other][opposite_dir(d)] # 0

BackInv ==
  OnlyTwoWay =>
    \A cube \in DOMAIN exits_ : \A d \in ExitDir :
      exits_[cube][d] # 0 /\ d \notin Lettered(cube) => HasWayBack(exits_, cube, d)

LEMMA SameLinks ==
  ASSUME input_' = input_
  PROVE  WithAttr' = WithAttr /\ OnlyTwoWay' = OnlyTwoWay
BY DEF OnlyTwoWay, WithAttr, AllLinks, TwoWay, LinksOf, Entries

(* The links the loader reads are links of the input. *)
LEMMA LinkOfArea ==
  ASSUME MapInv, step_ = "link", at_ <= Len(List("links"))
  PROVE  Entry("links") \in AllLinks
<1>1. /\ HeadOK /\ at_ \in Nat \ {0} /\ IsList(List("links")) /\ file_ \in ConfigIds
  BY ListShape DEF MapInv, ControlOK
<1>2. at_ \in DOMAIN List("links")
  BY <1>1 DEF IsList
<1>3. CASE ~Has(Json, "links")
  <2>1. List("links") = <<>>
    BY <1>3 DEF List
  <2>2. at_ \in 1 .. Len(<<>>)
    BY <1>1, <1>2, <2>1 DEF IsList
  <2> QED
    BY <2>2
<1>4. CASE Has(Json, "links")
  <2>1. Entry("links") \in LinksOf(Json)
    BY <1>2, <1>4 DEF Entry, LinksOf, List
  <2>2. \E i \in DOMAIN input_.config : Json = input_.config[i].json
    BY <1>1 DEF Json, FileOf, ConfigIds
  <2> QED
    BY <2>1, <2>2 DEF AllLinks, Entries
<1> QED
  BY <1>3, <1>4

LEMMA LinkOfWorld ==
  ASSUME MapInv, step_ = "global", at_ <= Len(input_.links)
  PROVE  input_.links[at_] \in AllLinks
<1>1. at_ \in Nat \ {0} /\ IsList(input_.links) /\ Has(input_, "links")
  BY InputsAssumption DEF MapInv, ControlOK, Has
<1>2. at_ \in DOMAIN input_.links
  BY <1>1 DEF IsList
<1> QED
  BY <1>1, <1>2 DEF AllLinks, LinksOf

(* A plain two-way link opens a way and its way back, and closes none. *)
LEMMA LinkedBack ==
  ASSUME MapInv, BackInv, NEW link \in AllLinks, NEW garbage \in Garbage,
         NEW a \in DOMAIN exits_, NEW b \in DOMAIN exits_,
         exits_' = AddLink(exits_, TwoWay(link), a, b, LinkAttr(link, garbage)), input_' = input_
  PROVE  BackInv'
<1> SUFFICES ASSUME OnlyTwoWay PROVE BackInv'
  BY SameLinks DEF BackInv
<1> DEFINE ab == LinkDir(Place(a), Place(b))
           ba == LinkDir(Place(b), Place(a))
<1>1. ExitsTyped(exits_)
  BY DEF MapInv, WorldMapTypeOK, ObjectsOK, ExitsTyped
<1>2. PICK twoway \in BOOLEAN : twoway = TwoWay(link)
  BY DEF TwoWay
<1>3. twoway /\ exits_' = AddLink(exits_, twoway, a, b, 1)
  BY <1>2, PlainAttr DEF OnlyTwoWay, WithAttr
<1>4. 1 \in Nat
  OBVIOUS
<1> DEFINE linked == AddLink(exits_, twoway, a, b, 1)
<1>5. /\ DOMAIN linked = DOMAIN exits_
      /\ ~CanLink(a, b) => linked = exits_
  BY <1>4, <1>1, AddLinkIs
<1> HIDE DEF linked
<1>6. exits_' = linked /\ DOMAIN exits_' = DOMAIN exits_
  BY <1>3, <1>5 DEF linked
<1>7. CASE ~CanLink(a, b)
  <2>1. exits_' = exits_
    BY <1>5, <1>7, <1>6
  <2> QED
    BY <2>1, SameInput, SameLinks DEF BackInv, HasWayBack
<1>8. CASE CanLink(a, b)
  <2>1. \A cube \in DOMAIN exits_ : \A d \in ExitDir :
          exits_'[cube][d] = IF (cube = a /\ d = ab) \/ (cube = b /\ d = ba) THEN 1 ELSE exits_[cube][d]
    <3>1. \A cube \in DOMAIN exits_ : \A d \in ExitDir :
            AddLink(exits_, twoway, a, b, 1)[cube][d] =
              IF \/ cube = a /\ d = ab
                 \/ twoway /\ cube = b /\ d = ba
              THEN 1 ELSE exits_[cube][d]
      BY <1>4, <1>1, <1>8, AddLinkIs
    <3> QED
      BY <1>3, <3>1
  <2>2. Place(a) \in Position /\ Place(b) \in Position
    BY <1>1 DEF ExitsTyped
  <2>3. /\ ab \in WalkDir /\ ab \in ExitDir /\ Step(Place(a), ab) = Place(b)
        /\ ba \in WalkDir /\ ba \in ExitDir /\ Step(Place(b), ba) = Place(a)
        /\ ba = opposite_dir(ab) /\ ab = opposite_dir(ba)
    BY <1>8, <2>2, LinkDirLeads, LinkBothWays, OppositeTwice, DirCodes DEF CanLink
  <2> HIDE DEF ab, ba
  <2>4. exits_'[a][ab] # 0 /\ exits_'[b][ba] # 0
    BY <2>1, <2>3
  <2>5. ASSUME NEW cube \in DOMAIN exits_, NEW d \in ExitDir, exits_[cube][d] # 0
        PROVE  exits_'[cube][d] # 0
    BY <2>1, <2>5
  <2> SUFFICES ASSUME NEW cube \in DOMAIN exits_, NEW d \in ExitDir,
                      exits_'[cube][d] # 0, d \notin Lettered(cube)
               PROVE  HasWayBack(exits_', cube, d)
    BY <1>6, SameInput DEF BackInv, HasWayBack
  <2>6. CASE cube = a /\ d = ab
    BY <1>6, <2>3, <2>4, <2>6 DEF HasWayBack
  <2>7. CASE cube = b /\ d = ba
    BY <1>6, <2>3, <2>4, <2>7 DEF HasWayBack
  <2>8. CASE exits_'[cube][d] = exits_[cube][d]
    <3>1. HasWayBack(exits_, cube, d)
      BY <2>8 DEF BackInv
    <3>2. d \in WalkDir /\ opposite_dir(d) \in ExitDir
      BY <3>1, OppositeTwice, DirCodes DEF HasWayBack
    <3> QED
      BY <1>6, <2>5, <3>1, <3>2 DEF HasWayBack
  <2> QED
    BY <2>1, <2>6, <2>7, <2>8
<1> QED
  BY <1>7, <1>8

LEMMA BacksStay ==
  ASSUME BackInv, UNCHANGED <<input_, exits_>>
  PROVE  BackInv'
<1> SUFFICES ASSUME OnlyTwoWay, NEW cube \in DOMAIN exits_, NEW d \in ExitDir,
                    exits_[cube][d] # 0, d \notin Lettered(cube)
             PROVE  HasWayBack(exits_', cube, d)
  BY SameInput, SameLinks DEF BackInv
<1>1. HasWayBack(exits_, cube, d)
  BY DEF BackInv
<1> QED
  BY <1>1 DEF HasWayBack

LEMMA AreaCubeBack == MapInv /\ BackInv /\ AreaCube => BackInv'
<1> SUFFICES ASSUME MapInv, BackInv, AreaCube PROVE BackInv'
  OBVIOUS
<1> DEFINE entry == Entry("cubes")
           pos == readloc(entry.loc, Json.offset)
           letters == IF Has(entry, "exits") THEN entry.exits ELSE {}
           exits == [d \in ExitDir |-> IF d \in letters THEN EXIT_NORMAL ELSE 0]
<1>1. CASE ~CubeOK(entry)
  <2>1. Fail
    BY <1>1 DEF AreaCube
  <2> QED
    BY <2>1, BacksStay DEF Fail, Crash, Stop
<1>2. CASE CubeOK(entry)
  <2>1. /\ step_ = "cube" /\ at_ <= Len(List("cubes")) /\ input_' = input_
        /\ exits_' = With(exits_, <<file_, pos>>, exits)
    BY <1>2 DEF AreaCube
  <2>2. at_ \in DOMAIN Json.cubes /\ entry = Json.cubes[at_]
    <3>1. HeadOK /\ at_ \in Nat \ {0} /\ IsList(List("cubes"))
      BY <2>1, ListShape DEF MapInv, ControlOK
    <3> QED
      BY <2>1, <3>1 DEF Entry, List, HeadOK, IsList
  <2>3. \A d \in ExitDir : exits[d] # 0 => d \in Lettered(<<file_, pos>>)
    BY <1>2, <2>2 DEF Lettered, Json, Place, CubeOK
  <2>4. <<file_, pos>> \notin DOMAIN exits_
    BY <1>2, ObjectIs DEF CubeOK, MapInv, WorldMapTypeOK
  <2> HIDE DEF pos, exits
  <2>5. /\ DOMAIN exits_' = DOMAIN exits_ \cup {<<file_, pos>>} /\ exits_'[<<file_, pos>>] = exits
        /\ \A cube \in DOMAIN exits_ : exits_'[cube] = exits_[cube]
    BY <2>1, <2>4 DEF With
  <2> SUFFICES ASSUME OnlyTwoWay, NEW cube \in DOMAIN exits_', NEW d \in ExitDir,
                      exits_'[cube][d] # 0, d \notin Lettered(cube)
               PROVE  HasWayBack(exits_', cube, d)
    BY <2>1, SameInput, SameLinks DEF BackInv
  <2>6. cube \in DOMAIN exits_ /\ exits_[cube][d] # 0
    BY <2>3, <2>5
  <2>7. HasWayBack(exits_, cube, d)
    BY <2>6 DEF BackInv
  <2> QED
    BY <2>5, <2>7 DEF HasWayBack
<1> QED
  BY <1>1, <1>2

LEMMA AreaLinkBack == MapInv /\ BackInv /\ AreaLink => BackInv'
<1> SUFFICES ASSUME MapInv, BackInv, AreaLink PROVE BackInv'
  OBVIOUS
<1> DEFINE link == Entry("links")
<1>1. CASE ~LinkOK(link)
  <2>1. Fail
    BY <1>1 DEF AreaLink
  <2> QED
    BY <2>1, BacksStay DEF Fail, Crash, Stop
<1>2. CASE LinkOK(link)
  <2>1. PICK garbage \in Garbage :
          exits_' = AddLink(exits_, TwoWay(link), <<file_, LinkEnd(link.from)>>,
                            <<file_, LinkEnd(link.to)>>, LinkAttr(link, garbage))
    BY <1>2 DEF AreaLink
  <2>2. step_ = "link" /\ at_ <= Len(List("links")) /\ input_' = input_
    BY <1>2 DEF AreaLink
  <2>3. /\ <<file_, LinkEnd(link.from)>> \in DOMAIN exits_
        /\ <<file_, LinkEnd(link.to)>> \in DOMAIN exits_
    BY <1>2, <2>2, ObjectIs DEF LinkOK, MapInv, ControlOK, WorldMapTypeOK
  <2>4. link \in AllLinks
    BY <2>2, LinkOfArea
  <2> QED
    BY <2>1, <2>2, <2>3, <2>4, LinkedBack
<1> QED
  BY <1>1, <1>2

LEMMA GlobalLinkBack == MapInv /\ BackInv /\ GlobalLink => BackInv'
<1> SUFFICES ASSUME MapInv, BackInv, GlobalLink PROVE BackInv'
  OBVIOUS
<1> DEFINE link == input_.links[at_]
           from == GlobalEnd(link.from)
           to == GlobalEnd(link.to)
<1>1. step_ = "global" /\ at_ <= Len(input_.links) /\ input_' = input_
  BY DEF GlobalLink
<1>2. CASE exits_' = exits_
  BY <1>1, <1>2, BacksStay
<1>3. CASE LinkWhole(link) /\ from # NoCube /\ to # NoCube
  <2>1. PICK garbage \in Garbage :
          exits_' = AddLink(exits_, TwoWay(link), from, to, LinkAttr(link, garbage))
    BY <1>3 DEF GlobalLink
  <2>2. \A end : GlobalEnd(end) = NoCube \/ GlobalEnd(end) \in DOMAIN exits_
    BY DEF GlobalEnd, MapInv, WorldMapTypeOK, MarksOK, MapOK
  <2>3. from \in DOMAIN exits_ /\ to \in DOMAIN exits_
    BY <1>3, <2>2
  <2>4. link \in AllLinks
    BY <1>1, LinkOfWorld
  <2> QED
    BY <1>1, <2>1, <2>3, <2>4, LinkedBack
<1> QED
  BY <1>2, <1>3 DEF GlobalLink

LEMMA NextBack == MapInv /\ BackInv /\ [WorldMapNext]_loadVars => BackInv'
<1> SUFFICES ASSUME MapInv, BackInv, [WorldMapNext]_loadVars PROVE BackInv'
  OBVIOUS
<1>1. CASE UNCHANGED loadVars
  BY <1>1, BacksStay DEF loadVars
<1>2. CASE ReadConfig \/ AreaHead
  BY <1>2, BacksStay DEF ReadConfig, AreaHead, Fail, Crash, Stop
<1>3. CASE CubesRead \/ LinksRead \/ Loaded \/ MobsRead \/ MakeShortcut \/ AreaMarks
  BY <1>3, BacksStay DEF CubesRead, LinksRead, Loaded, MobsRead, MakeShortcut, AreaMarks
<1>4. CASE AreaMob
  BY <1>4, BacksStay DEF AreaMob, Fail, Crash, Stop
<1> QED
  BY <1>1, <1>2, <1>3, <1>4, AreaCubeBack, AreaLinkBack, GlobalLinkBack DEF WorldMapNext

(* In a map made of two-way links whose areas lie apart every step can be taken
   back, however many links and areas there are (cube.cpp:50-98). *)
THEOREM AlwaysWayBack == WorldMapSpec => []WalkBack
<1>1. WorldMapInit => BackInv
  BY NothingIs DEF WorldMapInit, BackInv
<1>2. MapInv /\ LinksLead /\ BackInv => WalkBack
  <2> SUFFICES ASSUME MapInv, LinksLead, BackInv, step_ = "done", Regular,
                      NEW pos \in DOMAIN cubes_, NEW d \in WalkDir, exits_[cubes_[pos]][d] # 0
               PROVE  exits_[cubes_[Step(pos, d)]][opposite_dir(d)] # 0
    BY DEF WalkBack
  <2>1. cubes_[pos] \in DOMAIN exits_ /\ Place(cubes_[pos]) = pos
    BY DEF MapInv, WorldMapTypeOK, MapOK
  <2>2. OnlyTwoWay /\ d \notin Lettered(cubes_[pos])
    BY <2>1 DEF Regular, OnlyTwoWay
  <2>3. PICK other \in DOMAIN exits_ : Place(other) = Step(pos, d) /\ exits_[other][opposite_dir(d)] # 0
    BY <2>1, <2>2, DirCodes DEF BackInv, HasWayBack
  <2>4. Step(pos, d) \in DOMAIN cubes_
    BY <2>2, DirCodes DEF LinksLead, Regular
  <2>5. cubes_[Step(pos, d)] \in DOMAIN exits_ /\ Place(cubes_[Step(pos, d)]) = Step(pos, d)
    BY <2>4 DEF MapInv, WorldMapTypeOK, MapOK
  <2>6. other = cubes_[Step(pos, d)]
    BY <2>3, <2>5 DEF Regular
  <2> QED
    BY <2>3, <2>6
<1>3. WorldMapSpec => []BackInv
  BY <1>1, NextBack, MapInvAlways, PTL DEF WorldMapSpec
<1> QED
  BY <1>2, <1>3, MapInvAlways, LinksAlwaysLead, PTL

-----------------------------------------------------------------------------
(* Neighbours                                                              *)

(* A step along an axis changes that coordinate and no other. *)
LEMMA StepAxis ==
  ASSUME NEW q \in Position, NEW e \in WalkDir
  PROVE  /\ e \in {X_INC, X_DEC} => /\ Step(q, e)[2] = q[2] /\ Step(q, e)[3] = q[3]
                                   /\ Step(q, e)[1] = IF e = X_INC THEN Inc(q[1]) ELSE Dec(q[1])
         /\ e \in {Y_INC, Y_DEC} => /\ Step(q, e)[1] = q[1] /\ Step(q, e)[3] = q[3]
                                   /\ Step(q, e)[2] = IF e = Y_INC THEN Inc(q[2]) ELSE Dec(q[2])
         /\ e \in {Z_INC, Z_DEC} => Step(q, e)[1] = q[1] /\ Step(q, e)[2] = q[2]
<1>1. q = <<q[1], q[2], q[3]>>
  BY DEF Position
<1>2. /\ Step(q, X_INC) = <<Inc(q[1]), q[2], q[3]>> /\ Step(q, X_DEC) = <<Dec(q[1]), q[2], q[3]>>
      /\ Step(q, Y_INC) = <<q[1], Inc(q[2]), q[3]>> /\ Step(q, Y_DEC) = <<q[1], Dec(q[2]), q[3]>>
      /\ Step(q, Z_INC) = <<q[1], q[2], Inc(q[3])>> /\ Step(q, Z_DEC) = <<q[1], q[2], Dec(q[3])>>
  BY <1>1, StepIs
<1> HIDE <1>1
<1>3. CASE e \in {X_INC, X_DEC}
  BY <1>2, <1>3 DEF X_INC, X_DEC, Y_INC, Y_DEC, Z_INC, Z_DEC
<1>4. CASE e \in {Y_INC, Y_DEC}
  BY <1>2, <1>4 DEF X_INC, X_DEC, Y_INC, Y_DEC, Z_INC, Z_DEC
<1>5. CASE e \in {Z_INC, Z_DEC}
  BY <1>2, <1>5 DEF X_INC, X_DEC, Y_INC, Y_DEC, Z_INC, Z_DEC
<1> QED
  BY <1>3, <1>4, <1>5, DirCodes

LEMMA DiagonalIs ==
  ASSUME NEW p
  PROVE  /\ Step(p, X_INC_Y_INC) = <<Inc(p[1]), Inc(p[2]), p[3]>>
         /\ Step(p, X_INC_Y_DEC) = <<Inc(p[1]), Dec(p[2]), p[3]>>
         /\ Step(p, X_DEC_Y_INC) = <<Dec(p[1]), Inc(p[2]), p[3]>>
         /\ Step(p, X_DEC_Y_DEC) = <<Dec(p[1]), Dec(p[2]), p[3]>>
<1> USE DEF X_INC, X_DEC, Y_INC, Y_DEC, Z_INC, Z_DEC,
            X_INC_Y_INC, X_INC_Y_DEC, X_DEC_Y_INC, X_DEC_Y_DEC
<1>1. Step(p, X_INC_Y_INC) = <<Inc(p[1]), Inc(p[2]), p[3]>>
  BY DEF Step
<1>2. Step(p, X_INC_Y_DEC) = <<Inc(p[1]), Dec(p[2]), p[3]>>
  BY DEF Step
<1>3. Step(p, X_DEC_Y_INC) = <<Dec(p[1]), Inc(p[2]), p[3]>>
  BY DEF Step
<1>4. Step(p, X_DEC_Y_DEC) = <<Dec(p[1]), Dec(p[2]), p[3]>>
  BY DEF Step
<1> QED
  BY <1>1, <1>2, <1>3, <1>4

(* Two steps that lead back from a diagonal neighbour: the first one is one of
   the two exits adjacent_cubes_ is computed from. *)
LEMMA DiagonalBack ==
  ASSUME NEW p \in Position, NEW d \in ExitDir \ WalkDir, NEW away \in WalkDir, NEW back \in WalkDir,
         Step(Step(Step(p, d), away), back) = p
  PROVE  away \in BackExits(d)
<1> DEFINE q == Step(p, d)
           r == Step(q, away)
<1>1. q \in Position /\ r \in Position
  BY StepInGrid
<1>2. /\ d = X_INC_Y_INC => q[1] = Inc(p[1]) /\ q[2] = Inc(p[2])
      /\ d = X_INC_Y_DEC => q[1] = Inc(p[1]) /\ q[2] = Dec(p[2])
      /\ d = X_DEC_Y_INC => q[1] = Dec(p[1]) /\ q[2] = Inc(p[2])
      /\ d = X_DEC_Y_DEC => q[1] = Dec(p[1]) /\ q[2] = Dec(p[2])
  <2>1. /\ d = X_INC_Y_INC => q = <<Inc(p[1]), Inc(p[2]), p[3]>>
        /\ d = X_INC_Y_DEC => q = <<Inc(p[1]), Dec(p[2]), p[3]>>
        /\ d = X_DEC_Y_INC => q = <<Dec(p[1]), Inc(p[2]), p[3]>>
        /\ d = X_DEC_Y_DEC => q = <<Dec(p[1]), Dec(p[2]), p[3]>>
    BY DiagonalIs
  <2> HIDE DEF q
  <2> QED
    BY <2>1
<1>3. d \in {X_INC_Y_INC, X_INC_Y_DEC, X_DEC_Y_INC, X_DEC_Y_DEC}
  BY DEF ExitDir, WalkDir, X_INC_Y_INC, X_INC_Y_DEC, X_DEC_Y_INC, X_DEC_Y_DEC
<1>4. /\ BackExits(X_INC_Y_INC) = {X_DEC, Y_DEC} /\ BackExits(X_INC_Y_DEC) = {X_DEC, Y_INC}
      /\ BackExits(X_DEC_Y_INC) = {X_INC, Y_DEC} /\ BackExits(X_DEC_Y_DEC) = {X_INC, Y_INC}
  BY DEF BackExits, X_INC_Y_INC, X_INC_Y_DEC, X_DEC_Y_INC, X_DEC_Y_DEC
<1>5. Step(r, back) = p
  OBVIOUS
<1> HIDE DEF q, r
<1>6. \A i \in {1, 2} : /\ p[i] \in Axis /\ Inc(p[i]) # p[i] /\ Dec(p[i]) # p[i]
                       /\ Inc(Inc(p[i])) # p[i] /\ Dec(Dec(p[i])) # p[i]
  <2>1. p[1] \in Axis /\ p[2] \in Axis
    BY DEF Position
  <2>2. \A a \in Axis : Inc(a) # a /\ Dec(a) # a /\ Inc(Inc(a)) # a /\ Dec(Dec(a)) # a
    BY AxisSizeAssumption DEF Axis, Inc, Dec
  <2> QED
    BY <2>1, <2>2
<1>7. q[1] # p[1] /\ q[2] # p[2]
  BY <1>2, <1>3, <1>6
<1>8. CASE away \in {X_INC, X_DEC}
  <2>1. r[2] = q[2] /\ r[1] = IF away = X_INC THEN Inc(q[1]) ELSE Dec(q[1])
    BY <1>1, <1>8, StepAxis DEF r
  <2>2. back \in {Y_INC, Y_DEC}
    BY <1>1, <1>5, <1>7, <2>1, StepAxis, DirCodes
  <2>3. r[1] = p[1]
    BY <1>1, <1>5, <2>2, StepAxis
  <2>4. away # X_INC => away = X_DEC
    BY <1>8
  <2> QED
    BY <1>2, <1>3, <1>4, <1>6, <2>1, <2>3, <2>4
<1>9. CASE away \in {Y_INC, Y_DEC}
  <2>1. r[1] = q[1] /\ r[2] = IF away = Y_INC THEN Inc(q[2]) ELSE Dec(q[2])
    BY <1>1, <1>9, StepAxis DEF r
  <2>2. back \in {X_INC, X_DEC}
    BY <1>1, <1>5, <1>7, <2>1, StepAxis, DirCodes
  <2>3. r[2] = p[2]
    BY <1>1, <1>5, <2>2, StepAxis
  <2>4. away # Y_INC => away = Y_DEC
    BY <1>9
  <2> QED
    BY <1>2, <1>3, <1>4, <1>6, <2>1, <2>3, <2>4
<1>10. CASE away \in {Z_INC, Z_DEC}
  <2>1. r[1] = q[1] /\ r[2] = q[2]
    BY <1>1, <1>10, StepAxis DEF r
  <2> QED
    BY <1>1, <1>5, <1>7, <2>1, StepAxis, DirCodes
<1> QED
  BY <1>8, <1>9, <1>10, DirCodes

(* What adjacent_cubes_ was computed from stays so while links are added. *)
NeighbourInv ==
  ~WithAttr /\ step_ \in {"global", "done"} =>
    \A pos \in DOMAIN cubes_ : \A d \in adjacent_[cubes_[pos]] :
      /\ d \in ExitDir /\ Step(pos, d) \in DOMAIN cubes_
      /\ \A back \in BackExits(d) : back \in ExitDir /\ exits_[cubes_[Step(pos, d)]][back] # 0

LEMMA NeighboursStay ==
  ASSUME NeighbourInv, step_' \in {"global", "done"} => step_ \in {"global", "done"},
         UNCHANGED <<input_, exits_, cubes_, adjacent_>>
  PROVE  NeighbourInv'
BY SameLinks DEF NeighbourInv

LEMMA MakeShortcutNeighbours == MapInv /\ MakeShortcut => NeighbourInv'
<1> SUFFICES ASSUME MapInv, MakeShortcut, NEW pos \in DOMAIN Shortcut,
                    NEW d \in adjacent_'[Shortcut[pos]]
             PROVE  /\ d \in ExitDir /\ Step(pos, d) \in DOMAIN Shortcut
                    /\ \A back \in BackExits(d) :
                         back \in ExitDir /\ exits_[Shortcut[Step(pos, d)]][back] # 0
  BY DEF NeighbourInv, MakeShortcut
<1>1. adjacent_'[Shortcut[pos]] = AdjacentDirs(Shortcut, exits_, Place(Shortcut[pos]))
  BY DEF MakeShortcut
<1>2. Place(Shortcut[pos]) = pos
  BY ShortcutIs
<1>3. d \in AdjacentDirs(Shortcut, exits_, pos)
  BY <1>1, <1>2
<1>4. /\ d \in ExitDir /\ Find(DOMAIN Shortcut, pos, d) # NoCube
      /\ \A back \in BackExits(d) : exits_[Shortcut[Step(pos, d)]][back] # 0
  BY <1>3 DEF AdjacentDirs
<1>5. Step(pos, d) \in DOMAIN Shortcut
  BY <1>4 DEF Find
<1>6. \A back \in BackExits(d) : back \in ExitDir
  BY DEF BackExits, ExitDir, X_INC, X_DEC, Y_INC, Y_DEC
<1> QED
  BY <1>4, <1>5, <1>6

LEMMA GlobalLinkNeighbours == MapInv /\ NeighbourInv /\ GlobalLink => NeighbourInv'
<1> SUFFICES ASSUME MapInv, NeighbourInv, GlobalLink PROVE NeighbourInv'
  OBVIOUS
<1> DEFINE link == input_.links[at_]
           from == GlobalEnd(link.from)
           to == GlobalEnd(link.to)
<1>1. step_ = "global" /\ at_ <= Len(input_.links) /\ UNCHANGED <<input_, cubes_, adjacent_>>
  BY DEF GlobalLink, mapVars
<1>2. CASE exits_' = exits_
  BY <1>1, <1>2, NeighboursStay
<1>3. CASE LinkWhole(link) /\ from # NoCube /\ to # NoCube /\ ~WithAttr
  <2>1. PICK garbage \in Garbage :
          exits_' = AddLink(exits_, TwoWay(link), from, to, LinkAttr(link, garbage))
    BY <1>3 DEF GlobalLink
  <2>2. \A end : GlobalEnd(end) = NoCube \/ GlobalEnd(end) \in DOMAIN exits_
    BY DEF GlobalEnd, MapInv, WorldMapTypeOK, MarksOK, MapOK
  <2>3. from \in DOMAIN exits_ /\ to \in DOMAIN exits_
    BY <1>3, <2>2
  <2>4. LinkAttr(link, garbage) = 1
    BY <1>1, <1>3, LinkOfWorld, PlainAttr DEF WithAttr
  <2>5. PICK twoway \in BOOLEAN : exits_' = AddLink(exits_, twoway, from, to, 1)
    BY <2>1, <2>4 DEF TwoWay
  <2> HIDE DEF from, to
  <2>6. ASSUME NEW cube \in DOMAIN exits_, NEW d \in ExitDir, exits_[cube][d] # 0
        PROVE  exits_'[cube][d] # 0
    <3> DEFINE linked == AddLink(exits_, twoway, from, to, 1)
    <3>1. ExitsTyped(exits_) /\ 1 \in Nat
      BY DEF MapInv, WorldMapTypeOK, ObjectsOK, ExitsTyped
    <3>2. /\ ~CanLink(from, to) => linked = exits_
          /\ CanLink(from, to) =>
               \A c \in DOMAIN exits_ : \A e \in ExitDir :
                 linked[c][e] = IF \/ c = from /\ e = LinkDir(Place(from), Place(to))
                                   \/ twoway /\ c = to /\ e = LinkDir(Place(to), Place(from))
                                THEN 1 ELSE exits_[c][e]
      BY <2>3, <3>1, AddLinkIs
    <3> HIDE DEF linked
    <3>3. linked[cube][d] # 0
      BY <2>6, <3>2
    <3> QED
      BY <2>5, <3>3 DEF linked
  <2>7. \A pos \in DOMAIN cubes_ : cubes_[pos] \in DOMAIN exits_
    BY DEF MapInv, WorldMapTypeOK, MapOK
  <2> QED
    BY <1>1, <2>6, <2>7, SameLinks DEF NeighbourInv
<1>4. CASE WithAttr
  BY <1>1, <1>4, SameLinks DEF NeighbourInv
<1> QED
  BY <1>2, <1>3, <1>4 DEF GlobalLink

(* What adjacent_cubes_ says of a loaded map is true of it, although links are
   added after it was computed: they open exits and close none
   (worldmap.cpp:236-398). *)
THEOREM AdjacencyAlwaysSound == WorldMapSpec => []AdjacencySound
<1>1. WorldMapInit => NeighbourInv
  BY DEF WorldMapInit, NeighbourInv
<1>2. MapInv /\ NeighbourInv /\ [WorldMapNext]_loadVars => NeighbourInv'
  <2> SUFFICES ASSUME MapInv, NeighbourInv, [WorldMapNext]_loadVars PROVE NeighbourInv'
    OBVIOUS
  <2>1. CASE UNCHANGED loadVars
    BY <2>1, NeighboursStay DEF loadVars, mapVars
  <2>2. CASE Loaded
    BY <2>2, NeighboursStay DEF Loaded, mapVars
  <2>3. CASE \/ ReadConfig \/ AreaHead \/ AreaCube \/ CubesRead \/ AreaLink \/ LinksRead
             \/ AreaMarks \/ AreaMob \/ MobsRead
    <3>1. step_' \notin {"global", "done"}
      BY <2>3 DEF ReadConfig, AreaHead, AreaCube, CubesRead, AreaLink, LinksRead, AreaMarks, AreaMob,
                  MobsRead, Fail, Crash, Stop, TakeArea
    <3> QED
      BY <3>1 DEF NeighbourInv
  <2> QED
    BY <2>1, <2>2, <2>3, MakeShortcutNeighbours, GlobalLinkNeighbours DEF WorldMapNext
<1>3. MapInv /\ NeighbourInv => AdjacencySound
  <2> SUFFICES ASSUME MapInv, NeighbourInv, step_ = "done", ~WithAttr,
                      NEW pos \in DOMAIN cubes_, NEW d \in adjacent_[cubes_[pos]]
               PROVE  /\ Step(pos, d) \in DOMAIN cubes_
                      /\ d \notin WalkDir =>
                           \A away, back \in WalkDir :
                             Step(Step(Step(pos, d), away), back) = pos => exits_[cubes_[Step(pos, d)]][away] # 0
    BY DEF AdjacencySound
  <2>1. pos \in Position
    BY DEF MapInv, WorldMapTypeOK, MapOK, ObjectsOK
  <2> QED
    BY <2>1, DiagonalBack DEF NeighbourInv
<1> QED
  BY <1>1, <1>2, <1>3, MapInvAlways, PTL DEF WorldMapSpec

-----------------------------------------------------------------------------
(* Mobs                                                                    *)

(* The ids of two areas' mobs do not meet. *)
LEMMA MobIdsApart ==
  ASSUME NEW a \in Int, NEW b \in Int,
         NEW i \in 0 .. MAX_MOB_COUNT_IN_AREA - 1, NEW j \in 0 .. MAX_MOB_COUNT_IN_AREA - 1,
         MobId(a, i) = MobId(b, j)
  PROVE  a = b /\ i = j
<1> DEFINE m == MAX_MOB_COUNT_IN_AREA
<1>1. m \in Nat /\ a * m + i = b * m + j /\ i \in 0 .. m - 1 /\ j \in 0 .. m - 1
  BY WorldMapAssumption DEF MobId
<1> HIDE DEF m
<1>2. \A c, d \in Int : c < d => c * m + m <= d * m
  <2> SUFFICES ASSUME NEW c \in Int, NEW d \in Int, c < d PROVE c * m + m <= d * m
    OBVIOUS
  <2>1. (d - c - 1) * m >= 0
    BY <1>1
  <2>2. (d - c - 1) * m = d * m - c * m - m
    BY <1>1
  <2>3. c * m \in Int /\ d * m \in Int
    BY <1>1
  <2> QED
    BY <1>1, <2>1, <2>2, <2>3
<1>3. a * m \in Int /\ b * m \in Int
  BY <1>1
<1>4. CASE a < b
  BY <1>1, <1>2, <1>3, <1>4
<1>5. CASE b < a
  BY <1>1, <1>2, <1>3, <1>5
<1>6. CASE a = b
  BY <1>1, <1>3, <1>6
<1> QED
  BY <1>4, <1>5, <1>6

MobList(f) == IF Has(FileOf(f), "mobs") THEN FileOf(f)["mobs"] ELSE <<>>

(* Every file is read, is left to read, or is being read; *)
NoneForgotten ==
  \/ step_ \in {"config", "failed", "crashed"}
  \/ step_ = "head" /\ ConfigIds \subseteq DOMAIN area_cubes_ \cup left_ \cup {file_}
  \/ step_ # "head" /\ ConfigIds \subseteq DOMAIN area_cubes_ \cup left_

(* every mob that was read is found under its id; and what is found there was
   read from some file. *)
MobsKept ==
  \A f \in DOMAIN area_cubes_ : \A i \in DOMAIN MobList(f) :
    \/ f = file_ /\ (step_ \in {"cube", "link", "mark"} \/ (step_ = "mob" /\ i >= at_))
    \/ step_ = "failed"
    \/ MobId(FileOf(f).id, MobList(f)[i].id) \in DOMAIN mobs_

ReadFrom(key, f, i) ==
  /\ key = MobId(FileOf(f).id, MobList(f)[i].id)
  /\ Has(MobList(f)[i], "name") => mobs_[key].name = MobList(f)[i].name

MobsTrue ==
  \A key \in DOMAIN mobs_ : \E f \in ConfigIds : \E i \in DOMAIN MobList(f) : ReadFrom(key, f, i)

(* A file whose cubes are read has an id. *)
IdsKnown == \A f \in DOMAIN area_cubes_ : Has(FileOf(f), "id")

MobInv == NoneForgotten /\ MobsKept /\ MobsTrue /\ IdsKnown

LEMMA SameMobs ==
  ASSUME input_' = input_
  PROVE  /\ \A f : MobList(f)' = MobList(f) /\ FileOf(f)' = FileOf(f)
         /\ ConfigIds' = ConfigIds
BY DEF MobList, FileOf, ConfigIds

LEMMA MobsStay ==
  ASSUME MobInv, UNCHANGED <<input_, mobs_, left_, file_>>, DOMAIN area_cubes_' = DOMAIN area_cubes_,
         \/ step_' = "failed"
         \/ step_' = "crashed" /\ step_ \notin {"cube", "link", "mark", "mob", "failed"}
         \/ step_' \in {"cube", "link", "mark"} /\ step_ \in {"cube", "link", "mark"}
         \/ step_' = "mob" /\ step_ = "mark" /\ at_' = 1
         \/ step_' \in {"global", "done"} /\ step_ \in {"shortcut", "global", "done"}
         \/ step_' = step_ /\ at_' = at_,
         \A f \in DOMAIN area_cubes_ : DOMAIN MobList(f) \subseteq Nat \ {0}
  PROVE  MobInv'
<1>1. NoneForgotten'
  BY SameMobs DEF MobInv, NoneForgotten
<1>2. MobsKept'
  BY SameMobs DEF MobInv, MobsKept
<1>3. MobsTrue'
  BY SameMobs DEF MobInv, MobsTrue, ReadFrom
<1>4. IdsKnown'
  BY SameMobs DEF MobInv, IdsKnown
<1> QED
  BY <1>1, <1>2, <1>3, <1>4 DEF MobInv

LEMMA MobListShape ==
  ASSUME MapInv
  PROVE  /\ \A f \in ConfigIds : IsList(MobList(f))
         /\ \A f \in DOMAIN area_cubes_ : DOMAIN MobList(f) \subseteq Nat \ {0}
<1>1. \A f \in ConfigIds : AreaShape(FileOf(f))
  BY FileShape DEF MapInv, ControlOK
<1>2. IsList(<<>>)
  BY DEF IsList
<1>3. \A f \in ConfigIds : IsList(MobList(f))
  BY <1>1, <1>2 DEF AreaShape, MobList
<1>4. \A f \in ConfigIds : DOMAIN MobList(f) \subseteq Nat \ {0}
  BY <1>3 DEF IsList
<1>5. DOMAIN area_cubes_ \subseteq ConfigIds
  BY DEF MapInv, ControlOK
<1> QED
  BY <1>3, <1>4, <1>5

LEMMA AreaMobMobs == MapInv /\ MobInv /\ AreaMob => MobInv'
<1> SUFFICES ASSUME MapInv, MobInv, AreaMob PROVE MobInv'
  OBVIOUS
<1>1. CASE Fail
  BY <1>1, MobsStay, MobListShape DEF Fail, Crash, Stop, areaVars
<1>2. CASE ~Fail
  <2> DEFINE entry == Entry("mobs")
             inherited == IF RefId(entry) # 0 THEN mobs_[MobId(Json.id, RefId(entry))].name ELSE ""
             mob == [id |-> MobId(Json.id, entry.id),
                     name |-> IF Has(entry, "name") THEN entry.name ELSE inherited]
             key == MobId(Json.id, entry.id)
  <2>1. /\ step_ = "mob" /\ at_ <= Len(List("mobs")) /\ mobs_' = Insert(mobs_, key, mob) /\ at_' = at_ + 1
        /\ UNCHANGED <<input_, step_, left_, file_, area_cubes_>>
    BY <1>2 DEF AreaMob, areaVars
  <2>2. /\ at_ \in DOMAIN MobList(file_) /\ entry = MobList(file_)[at_] /\ at_ \in Nat \ {0}
        /\ file_ \in ConfigIds /\ IsList(MobList(file_))
    <3>1. at_ \in Nat \ {0} /\ file_ \in ConfigIds /\ IsList(MobList(file_)) /\ List("mobs") = MobList(file_)
      <4>1. at_ \in Nat \ {0} /\ file_ \in ConfigIds
        BY <2>1 DEF MapInv, ControlOK
      <4>2. IsList(MobList(file_))
        BY <4>1, MobListShape
      <4> QED
        BY <4>1, <4>2 DEF List, MobList, Json
    <3>2. at_ \in DOMAIN MobList(file_)
      <4>1. at_ <= Len(MobList(file_))
        <5>1. at_ <= Len(List("mobs"))
          BY <2>1
        <5> QED
          BY <3>1, <5>1
      <4> QED
        BY <3>1, <4>1 DEF IsList
    <3>3. Has(FileOf(file_), "mobs")
      <4>1. CASE ~Has(FileOf(file_), "mobs")
        <5>1. MobList(file_) = <<>>
          BY <4>1 DEF MobList
        <5>2. at_ \in 1 .. Len(<<>>)
          BY <3>1, <3>2, <5>1 DEF IsList
        <5> QED
          BY <5>2
      <4> QED
        BY <4>1
    <3> QED
      BY <3>1, <3>2, <3>3 DEF Entry, Json, MobList
  <2>3. Has(entry, "name") => mob.name = entry.name
    OBVIOUS
  <2>4. key = MobId(FileOf(file_).id, MobList(file_)[at_].id)
    BY <2>2 DEF Json
  <2> HIDE DEF entry, mob, key
  <2>5. /\ DOMAIN mobs_' = DOMAIN mobs_ \cup {key}
        /\ \A k \in DOMAIN mobs_ : mobs_'[k] = mobs_[k]
        /\ key \notin DOMAIN mobs_ => mobs_'[key] = mob
    BY <2>1 DEF Insert, With
  <2>6. NoneForgotten' /\ IdsKnown'
    BY <2>1, SameMobs DEF MobInv, NoneForgotten, IdsKnown
  <2>7. MobsKept'
    <3> SUFFICES ASSUME NEW f \in DOMAIN area_cubes_, NEW i \in DOMAIN MobList(f), ~ (f = file_ /\ i >= at_ + 1)
                 PROVE  MobId(FileOf(f).id, MobList(f)[i].id) \in DOMAIN mobs_'
      BY <2>1, SameMobs DEF MobsKept
    <3>1. CASE f = file_ /\ i = at_
      BY <2>4, <2>5, <3>1
    <3>2. CASE ~ (f = file_ /\ i >= at_)
      BY <2>1, <2>5, <3>2 DEF MobInv, MobsKept
    <3>3. i \in Nat
      BY MobListShape
    <3> QED
      BY <2>2, <3>1, <3>2, <3>3
  <2>8. MobsTrue'
    <3> SUFFICES ASSUME NEW k \in DOMAIN mobs_'
                 PROVE  \E f \in ConfigIds : \E i \in DOMAIN MobList(f) : ReadFrom(k, f, i)'
      BY <2>1, SameMobs DEF MobsTrue
    <3>1. CASE k \in DOMAIN mobs_
      <4>1. PICK f \in ConfigIds : \E i \in DOMAIN MobList(f) : ReadFrom(k, f, i)
        BY <3>1 DEF MobInv, MobsTrue
      <4>2. PICK i \in DOMAIN MobList(f) : ReadFrom(k, f, i)
        BY <4>1
      <4>3. mobs_'[k] = mobs_[k]
        BY <2>5, <3>1
      <4>4. MobList(f)' = MobList(f) /\ FileOf(f)' = FileOf(f)
        BY <2>1, SameMobs
      <4>5. ReadFrom(k, f, i)'
        BY <4>2, <4>3, <4>4 DEF ReadFrom
      <4> QED
        BY <4>5
    <3>2. CASE k \notin DOMAIN mobs_
      <4>1. k = key /\ mobs_'[k] = mob
        BY <2>5, <3>2
      <4>2. PICK f \in ConfigIds : f = file_
        BY <2>2
      <4>3. PICK i \in DOMAIN MobList(f) : i = at_
        BY <2>2, <4>2
      <4>4. Has(MobList(f)[i], "name") => mobs_'[k].name = MobList(f)[i].name
        BY <2>2, <2>3, <4>1, <4>2, <4>3
      <4>5. MobList(f)' = MobList(f) /\ FileOf(f)' = FileOf(f)
        BY <2>1, SameMobs
      <4>6. ReadFrom(k, f, i)'
        BY <2>4, <4>1, <4>2, <4>3, <4>4, <4>5 DEF ReadFrom
      <4> QED
        BY <4>6
    <3> QED
      BY <3>1, <3>2
  <2> QED
    BY <2>6, <2>7, <2>8 DEF MobInv
<1> QED
  BY <1>1, <1>2

LEMMA AreaHeadMobs == MapInv /\ MobInv /\ AreaHead => MobInv'
<1> SUFFICES ASSUME MapInv, MobInv, AreaHead PROVE MobInv'
  OBVIOUS
<1>1. CASE step_' \in {"crashed", "failed"}
  <2>1. UNCHANGED <<input_, mobs_, left_, file_, area_cubes_>> /\ step_ = "head"
    BY <1>1 DEF AreaHead, Fail, Crash, Stop, areaVars
  <2> QED
    BY <1>1, <2>1, MobsStay, MobListShape
<1>2. CASE step_' \notin {"crashed", "failed"}
  <2>1. /\ step_ = "head" /\ step_' = "cube" /\ HeadOK /\ area_cubes_' = With(area_cubes_, file_, {})
        /\ UNCHANGED <<input_, mobs_, left_, file_>>
    BY <1>2 DEF AreaHead, Fail, Crash, Stop
  <2>2. DOMAIN area_cubes_' = DOMAIN area_cubes_ \cup {file_}
    BY <2>1 DEF With
  <2>3. NoneForgotten'
    BY <2>1, <2>2, SameMobs DEF MobInv, NoneForgotten
  <2>4. MobsKept'
    BY <2>1, <2>2, SameMobs DEF MobInv, MobsKept
  <2>5. MobsTrue'
    BY <2>1, SameMobs DEF MobInv, MobsTrue, ReadFrom
  <2>6. IdsKnown'
    BY <2>1, <2>2, SameMobs DEF MobInv, IdsKnown, HeadOK, Json
  <2> QED
    BY <2>3, <2>4, <2>5, <2>6 DEF MobInv
<1> QED
  BY <1>1, <1>2

(* Going on with the next file, when the mobs of this one are read. *)
LEMMA TakeAreaMobs ==
  ASSUME MapInv, MobInv, NEW ids \in SUBSET ConfigIds, ConfigIds \subseteq DOMAIN area_cubes_ \cup ids,
         TakeArea(ids), step_ \in {"config", "mob"}, UNCHANGED <<input_, mobs_, area_cubes_>>,
         step_ = "mob" => at_ > Len(MobList(file_))
  PROVE  MobInv'
<1>1. \A f \in DOMAIN area_cubes_ : \A i \in DOMAIN MobList(f) :
        MobId(FileOf(f).id, MobList(f)[i].id) \in DOMAIN mobs_
  <2> SUFFICES ASSUME NEW f \in DOMAIN area_cubes_, NEW i \in DOMAIN MobList(f)
               PROVE  MobId(FileOf(f).id, MobList(f)[i].id) \in DOMAIN mobs_
    OBVIOUS
  <2>1. f \in ConfigIds /\ at_ \in Nat /\ (step_ = "config" => DOMAIN area_cubes_ = {})
    BY DEF MapInv, ControlOK
  <2>2. i \in Nat /\ i <= Len(MobList(f)) /\ Len(MobList(f)) \in Nat
    BY <2>1, MobListShape DEF IsList
  <2>3. step_ = "mob"
    BY <2>1
  <2>4. ~ (f = file_ /\ i >= at_)
    BY <2>1, <2>2, <2>3
  <2> QED
    BY <2>3, <2>4 DEF MobInv, MobsKept
<1>2. MobsKept'
  BY <1>1, SameMobs DEF MobsKept
<1>3. MobsTrue' /\ IdsKnown'
  BY SameMobs DEF MobInv, MobsTrue, ReadFrom, IdsKnown
<1>4. NoneForgotten'
  <2>1. CASE ids = {}
    BY <2>1, SameMobs DEF TakeArea, NoneForgotten
  <2>2. CASE ids # {}
    <3>1. step_' = "head" /\ left_' = ids \ {file_'}
      BY <2>2 DEF TakeArea
    <3> QED
      BY <3>1, SameMobs DEF NoneForgotten
  <2> QED
    BY <2>1, <2>2
<1> QED
  BY <1>2, <1>3, <1>4 DEF MobInv

LEMMA AreaMarksMobs == MapInv /\ MobInv /\ AreaMarks => MobInv'
<1> SUFFICES ASSUME MapInv, MobInv, AreaMarks PROVE MobInv'
  OBVIOUS
<1>1. /\ step_ = "mark" /\ UNCHANGED <<input_, at_, mobs_, left_, file_, area_cubes_>>
      /\ step_' \in {"failed", "mob"}
  BY DEF AreaMarks
<1>2. CASE step_' = "failed"
  BY <1>1, <1>2, MobsStay, MobListShape
<1>3. CASE step_' = "mob"
  <2>1. at_' = 1
    BY <1>1 DEF MapInv, ControlOK
  <2> QED
    BY <1>1, <1>3, <2>1, MobsStay, MobListShape
<1> QED
  BY <1>1, <1>2, <1>3

LEMMA NextMobs == MapInv /\ MobInv /\ [WorldMapNext]_loadVars => MobInv'
<1> SUFFICES ASSUME MapInv, MobInv, [WorldMapNext]_loadVars PROVE MobInv'
  OBVIOUS
<1>1. CASE UNCHANGED loadVars
  BY <1>1, MobsStay, MobListShape DEF loadVars, areaVars
<1>2. CASE ReadConfig
  <2>1. CASE Fail \/ Crash
    <3>1. step_ = "config"
      BY <1>2 DEF ReadConfig
    <3> QED
      BY <2>1, <3>1, MobsStay, MobListShape DEF Fail, Crash, Stop, areaVars
  <2>2. CASE ~Fail /\ ~Crash
    <3>1. /\ step_ = "config" /\ TakeArea(ConfigIds) /\ UNCHANGED <<input_, mobs_, area_cubes_>>
      BY <1>2, <2>2 DEF ReadConfig
    <3> QED
      BY <3>1, TakeAreaMobs
  <2> QED
    BY <2>1, <2>2
<1>3. CASE AreaCube
  <2>1. CASE Fail
    BY <2>1, MobsStay, MobListShape DEF Fail, Crash, Stop, areaVars
  <2>2. CASE ~Fail
    <3>1. /\ step_ = "cube" /\ step_' = "cube" /\ UNCHANGED <<input_, mobs_, left_, file_>>
          /\ DOMAIN area_cubes_' = DOMAIN area_cubes_
      BY <1>3, <2>2 DEF AreaCube
    <3> QED
      BY <3>1, MobsStay, MobListShape
  <2> QED
    BY <2>1, <2>2
<1>4. CASE AreaLink
  <2>1. CASE Fail
    BY <2>1, MobsStay, MobListShape DEF Fail, Crash, Stop, areaVars
  <2>2. CASE ~Fail
    <3>1. step_ = "link" /\ step_' = "link" /\ UNCHANGED <<input_, mobs_, left_, file_, area_cubes_>>
      BY <1>4, <2>2 DEF AreaLink, areaVars
    <3> QED
      BY <3>1, MobsStay, MobListShape
  <2> QED
    BY <2>1, <2>2
<1>5. CASE CubesRead \/ LinksRead \/ Loaded \/ MakeShortcut
  BY <1>5, MobsStay, MobListShape DEF CubesRead, LinksRead, Loaded, MakeShortcut, areaVars
<1>6. CASE GlobalLink
  <2>1. /\ step_ = "global" /\ step_' \in {"global", "crashed"}
        /\ UNCHANGED <<input_, mobs_, left_, file_, area_cubes_>>
    BY <1>6 DEF GlobalLink, areaVars
  <2> QED
    BY <2>1, MobsStay, MobListShape
<1>7. CASE MobsRead
  <2>1. /\ step_ = "mob" /\ TakeArea(left_) /\ at_ > Len(List("mobs"))
        /\ UNCHANGED <<input_, mobs_, area_cubes_>>
    BY <1>7 DEF MobsRead
  <2>2. List("mobs") = MobList(file_)
    BY DEF List, Json, MobList
  <2>3. at_ > Len(MobList(file_))
    BY <2>1, <2>2
  <2>4. left_ \in SUBSET ConfigIds /\ ConfigIds \subseteq DOMAIN area_cubes_ \cup left_
    BY <2>1 DEF MapInv, ControlOK, MobInv, NoneForgotten
  <2> QED
    BY <2>1, <2>3, <2>4, TakeAreaMobs
<1> QED
  BY <1>1, <1>2, <1>3, <1>4, <1>5, <1>6, <1>7, AreaHeadMobs, AreaMarksMobs, AreaMobMobs DEF WorldMapNext

(* The mob a file describes is found under its id, whatever the files of the
   other areas say, as long as their mobs' ids stay below the bound
   (mob.cpp:18-111). *)
THEOREM MobsAlwaysFound == WorldMapSpec => []MobsFound
<1>1. WorldMapInit => MobInv
  <2>1. WorldMapInit => DOMAIN mobs_ = {} /\ DOMAIN area_cubes_ = {} /\ step_ = "config"
    BY NothingIs DEF WorldMapInit
  <2> QED
    BY <2>1 DEF MobInv, NoneForgotten, MobsKept, MobsTrue, IdsKnown
<1>2. MapInv /\ MobInv => MobsFound
  <2> SUFFICES ASSUME MapInv, MobInv, step_ = "done", DistinctIds, SmallMobIds,
                      NEW id \in ConfigIds, NEW m \in Mobs(FileOf(id))
               PROVE  LET key == MobId(FileOf(id).id, m.id)
                      IN /\ key \in DOMAIN mobs_
                         /\ Has(m, "name") /\ (\A other \in Mobs(FileOf(id)) : other.id = m.id => other = m) =>
                              mobs_[key].name = m.name
    BY DEF MobsFound
  <2> DEFINE key == MobId(FileOf(id).id, m.id)
  <2>1. id \in DOMAIN area_cubes_ /\ left_ \subseteq ConfigIds
    <3>1. left_ = {}
      BY DEF MapInv, ControlOK
    <3> QED
      BY <3>1 DEF MobInv, NoneForgotten
  <2>2. PICK i \in DOMAIN MobList(id) : m = MobList(id)[i]
    BY DEF Mobs, MobList
  <2>3. key \in DOMAIN mobs_
    BY <2>1, <2>2 DEF MobInv, MobsKept
  <2>4. PICK f \in ConfigIds : \E j \in DOMAIN MobList(f) : ReadFrom(key, f, j)
    BY <2>3 DEF MobInv, MobsTrue
  <2>5. PICK j \in DOMAIN MobList(f) : ReadFrom(key, f, j)
    BY <2>4
  <2> DEFINE n == MobList(f)[j]
  <2>6. n \in Mobs(FileOf(f))
    BY <2>5 DEF Mobs, MobList
  <2>7. f \in DOMAIN area_cubes_
    BY <2>1 DEF MapInv, ControlOK, MobInv, NoneForgotten
  <2>8. /\ Has(FileOf(id), "id") /\ FileOf(id).id \in Int
        /\ Has(FileOf(f), "id") /\ FileOf(f).id \in Int
    <3>1. Has(FileOf(id), "id") /\ Has(FileOf(f), "id")
      BY <2>1, <2>7 DEF MobInv, IdsKnown
    <3>2. AreaShape(FileOf(id)) /\ AreaShape(FileOf(f))
      BY FileShape DEF MapInv, ControlOK
    <3> QED
      BY <3>1, <3>2, InputsAssumption DEF AreaShape, AreaId
  <2>9. m.id \in 0 .. MAX_MOB_COUNT_IN_AREA - 1 /\ n.id \in 0 .. MAX_MOB_COUNT_IN_AREA - 1
    BY <2>6 DEF SmallMobIds
  <2>10. MobId(FileOf(id).id, m.id) = MobId(FileOf(f).id, n.id)
    BY <2>5 DEF ReadFrom
  <2>11. FileOf(id).id = FileOf(f).id /\ m.id = n.id
    BY <2>8, <2>9, <2>10, MobIdsApart
  <2>12. f = id
    BY <2>8, <2>11, OneFile
  <2>13. (\A other \in Mobs(FileOf(id)) : other.id = m.id => other = m) => n = m
    BY <2>6, <2>11, <2>12
  <2>14. Has(n, "name") => mobs_[key].name = n.name
    BY <2>5 DEF ReadFrom
  <2> QED
    BY <2>3, <2>13, <2>14
<1>3. WorldMapSpec => []MobInv
  BY <1>1, NextMobs, MapInvAlways, PTL DEF WorldMapSpec
<1> QED
  BY <1>2, <1>3, MapInvAlways, PTL

-----------------------------------------------------------------------------
(* The player of the map client                                            *)

OnMap == {cubes_[pos] : pos \in DOMAIN cubes_}

(* The cubes of the map that an exit of the player's cube may lead to. *)
Near == {cube \in OnMap : ~NoExitTo(cube)}

(* The animations the window is ever left with, and how far the key that was
   pressed last has carried the player: the turn back stays in the queue until
   the second floor is reached. *)
CarriedInv ==
  /\ carried_ \in 0 .. 2
  /\ \/ animation_ = <<>>
     \/ /\ step_ = "done"
        /\ \/ animation_ = <<"rotate">>
           \/ \E cube \in Near : \/ animation_ = <<cube>> /\ carried_ = 0
                                 \/ animation_ = <<cube, "rotate">> /\ carried_ # 2
                                 \/ animation_ = <<"rotate", cube, "rotate">> /\ carried_ # 2

(* The player is on a cube of the loaded map; the cube to be reborn in is
   known of no map that was refused. *)
CenterInv ==
  /\ center_ = NoCube \/ (step_ = "done" /\ center_ \in OnMap)
  /\ crashed_ => \/ step_ = "failed" /\ center_ = NoCube
                 \/ step_ = "done" /\ center_ \in OnMap /\ ExitsBlind(center_)
  /\ reborn_ # NoCube => step_ \in {"global", "done", "crashed"}

(* What the window does is no step of the loader ... *)
LEMMA ClientLoads == [ClientNext]_playVars => [WorldMapNext]_loadVars
  BY DEF ClientNext, Load, Start, StartNull, Press, KeyPress, DrawFrame, Finish, FinishAnimation, Tick, playVars

(* ... which is over when the window is made. *)
LEMMA LoadedStays == step_ \in {"done", "failed"} /\ [WorldMapNext]_loadVars => UNCHANGED loadVars
  BY DEF WorldMapNext, ReadConfig, AreaHead, AreaCube, CubesRead, AreaLink, LinksRead, AreaMarks, AreaMob,
         MobsRead, MakeShortcut, GlobalLink, Loaded

LEMMA MapStays ==
  ASSUME UNCHANGED loadVars
  PROVE  /\ step_' = step_ /\ cubes_' = cubes_ /\ exits_' = exits_ /\ OnMap' = OnMap /\ reborn_' = reborn_
         /\ \A cube : ExitsBlind(cube)' <=> ExitsBlind(cube)
  BY DEF loadVars, mapVars, OnMap, ExitsBlind

(* Cube::dir tells the exit that leads from a place to the next one. *)
LEMMA DirOfStep ==
  ASSUME NEW p \in Position, NEW dir \in WalkDir
  PROVE  DirTo(p, Step(p, dir)) # NoDir
<1>1. /\ p = <<p[1], p[2], p[3]>> /\ p[1] \in Axis /\ p[2] \in Axis /\ p[3] \in Axis
  BY DEF Position
<1>2. /\ Inc(p[1]) # p[1] /\ Inc(p[2]) # p[2] /\ Inc(p[3]) # p[3]
      /\ Dec(p[1]) # p[1] /\ Dec(p[2]) # p[2] /\ Dec(p[3]) # p[3]
  BY <1>1, AxisSizeAssumption DEF Inc, Dec, Axis
<1> USE DEF NoDir, X_INC, Y_INC, Z_INC, X_DEC, Y_DEC, Z_DEC
<1>3. ASSUME NEW q, q[1] # p[1], q[2] = p[2], q[3] = p[3], Inc(p[1]) = q[1] \/ Dec(p[1]) = q[1]
      PROVE  DirTo(p, q) # NoDir
  <2>1. DirTo(p, q) = IF Inc(p[1]) = q[1] THEN X_INC ELSE IF Dec(p[1]) = q[1] THEN X_DEC ELSE NoDir
    BY <1>3 DEF DirTo
  <2> QED
    BY <1>3, <2>1
<1>4. ASSUME NEW q, q[1] = p[1], q[2] # p[2], q[3] = p[3], Inc(p[2]) = q[2] \/ Dec(p[2]) = q[2]
      PROVE  DirTo(p, q) # NoDir
  <2>1. DirTo(p, q) = IF Inc(p[2]) = q[2] THEN Y_INC ELSE IF Dec(p[2]) = q[2] THEN Y_DEC ELSE NoDir
    BY <1>4 DEF DirTo
  <2> QED
    BY <1>4, <2>1
<1>5. ASSUME NEW q, q[1] = p[1], q[2] = p[2], Inc(p[3]) = q[3] \/ Dec(p[3]) = q[3]
      PROVE  DirTo(p, q) # NoDir
  <2>1. DirTo(p, q) = IF Inc(p[3]) = q[3] THEN Z_INC ELSE IF Dec(p[3]) = q[3] THEN Z_DEC ELSE NoDir
    BY <1>5 DEF DirTo
  <2> QED
    BY <1>5, <2>1
<1> DEFINE q == Step(p, dir)
<1>6. /\ Step(p, X_INC) = <<Inc(p[1]), p[2], p[3]>> /\ Step(p, X_DEC) = <<Dec(p[1]), p[2], p[3]>>
      /\ Step(p, Y_INC) = <<p[1], Inc(p[2]), p[3]>> /\ Step(p, Y_DEC) = <<p[1], Dec(p[2]), p[3]>>
      /\ Step(p, Z_INC) = <<p[1], p[2], Inc(p[3])>> /\ Step(p, Z_DEC) = <<p[1], p[2], Dec(p[3])>>
  BY StepIs, <1>1
<1>7. \/ q[1] # p[1] /\ q[2] = p[2] /\ q[3] = p[3] /\ (Inc(p[1]) = q[1] \/ Dec(p[1]) = q[1])
      \/ q[1] = p[1] /\ q[2] # p[2] /\ q[3] = p[3] /\ (Inc(p[2]) = q[2] \/ Dec(p[2]) = q[2])
      \/ q[1] = p[1] /\ q[2] = p[2] /\ (Inc(p[3]) = q[3] \/ Dec(p[3]) = q[3])
  <2> HIDE <1>1
  <2>1. CASE dir \in {X_INC, X_DEC}
    <3>1. q = <<Inc(p[1]), p[2], p[3]>> \/ q = <<Dec(p[1]), p[2], p[3]>>
      BY <1>6, <2>1
    <3> QED
      BY <1>2, <3>1
  <2>2. CASE dir \in {Y_INC, Y_DEC}
    <3>1. q = <<p[1], Inc(p[2]), p[3]>> \/ q = <<p[1], Dec(p[2]), p[3]>>
      BY <1>6, <2>2
    <3> QED
      BY <1>2, <3>1
  <2>3. CASE dir \in {Z_INC, Z_DEC}
    <3>1. q = <<p[1], p[2], Inc(p[3])>> \/ q = <<p[1], p[2], Dec(p[3])>>
      BY <1>6, <2>3
    <3> QED
      BY <3>1
  <2> QED
    BY <2>1, <2>2, <2>3, DirCodes
<1> HIDE DEF q
<1>8. DirTo(p, q) # NoDir
  BY <1>3, <1>4, <1>5, <1>7
<1> QED
  BY <1>8 DEF q

LEMMA OnMapThere == MapInv => NoCube \notin OnMap
<1> SUFFICES ASSUME MapInv, NoCube \in OnMap PROVE FALSE
  OBVIOUS
<1>1. NoCube \in DOMAIN exits_
  BY DEF OnMap, MapInv, WorldMapTypeOK, MapOK
<1>2. PICK f \in DOMAIN area_cubes_ : NoCube \in {f} \X area_cubes_[f]
  BY <1>1 DEF MapInv, WorldMapTypeOK, ObjectsOK
<1> QED
  BY <1>2 DEF NoCube

(* The cubes that an exit of cube may lead to, when the player is there. *)
NextTo(cube) == {dest \in OnMap : DirTo(Place(cube), Place(dest)) # NoDir}

(* keypress queues a walk to a neighbour on the map, or nothing. *)
LEMMA PressedIs ==
  ASSUME MapInv, NEW animation, NEW cube \in OnMap, NEW dir \in WalkDir, NEW rolling
  PROVE  \/ Pressed(animation, cube, dir, rolling) = animation
         \/ /\ animation = <<>>
            /\ \E dest \in NextTo(cube) : Pressed(animation, cube, dir, rolling) = Walk(dest, dir)
<1> DEFINE dest == cubes_[Step(Place(cube), dir)]
<1> SUFFICES ASSUME animation = <<>>, Find(DOMAIN cubes_, Place(cube), dir) # NoCube,
                    Pressed(animation, cube, dir, rolling) = Walk(dest, dir)
             PROVE  dest \in NextTo(cube)
  BY DEF Pressed
<1>1. Step(Place(cube), dir) \in DOMAIN cubes_
  BY DEF Find
<1>2. dest \in OnMap /\ Place(dest) = Step(Place(cube), dir)
  BY <1>1 DEF OnMap, MapInv, WorldMapTypeOK, MapOK
<1>3. Place(cube) \in Position
  BY DEF OnMap, MapInv, WorldMapTypeOK, MapOK, ObjectsOK
<1>4. DirTo(Place(cube), Place(dest)) # NoDir
  BY <1>2, <1>3, DirOfStep
<1> QED
  BY <1>2, <1>4 DEF NextTo

(* setCenterCube goes on by stairs only when nothing else is queued. *)
LEMMA OnwardIs ==
  ASSUME MapInv, NEW animation, NEW cube \in OnMap, NEW previous, NEW rolling
  PROVE  \/ Onward(animation, cube, previous, rolling) = animation
         \/ /\ animation = <<>>
            /\ \E dest \in NextTo(cube) : Onward(animation, cube, previous, rolling) = <<"rotate", dest, "rotate">>
<1> DEFINE Climbs(a) == animation = <<>> /\ \E dest \in NextTo(cube) : a = <<"rotate", dest, "rotate">>
<1>1. ASSUME NEW a, a = animation \/ Climbs(a), NEW d \in {Z_INC, Z_DEC}
      PROVE  LET b == Pressed(a, cube, d, rolling) IN b = animation \/ Climbs(b)
  <2>1. \A dest : Walk(dest, d) = <<"rotate", dest, "rotate">>
    BY DEF Walk
  <2>2. CASE Pressed(a, cube, d, rolling) = a
    BY <1>1, <2>2
  <2>3. CASE a = <<>> /\ \E dest \in NextTo(cube) : Pressed(a, cube, d, rolling) = Walk(dest, d)
    BY <1>1, <2>1, <2>3
  <2>4. d \in WalkDir
    BY DEF Z_INC, Z_DEC, WalkDir
  <2> QED
    BY <2>2, <2>3, <2>4, PressedIs
<1> DEFINE Goes(d) == exits_[cube][d] # 0 /\ Step(Place(cube), d) # Place(previous)
           up == IF Goes(Z_INC) THEN Pressed(animation, cube, Z_INC, rolling) ELSE animation
           down == IF Goes(Z_DEC) THEN Pressed(up, cube, Z_DEC, rolling) ELSE up
<1>2. up = animation \/ Climbs(up)
  BY <1>1
<1> HIDE DEF up
<1>3. down = animation \/ Climbs(down)
  BY <1>1, <1>2
<1> QED
  BY <1>3 DEF Onward, up

LEMMA CenterInit == ClientInit => CenterInv /\ CarriedInv
  BY DEF ClientInit, WorldMapInit, CenterInv, CarriedInv

(* The loading, the drawing, and the time that passes. *)
LEMMA QuietKeeps ==
  ASSUME CenterInv, CarriedInv, UNCHANGED <<center_, animation_, crashed_, carried_>>,
         [WorldMapNext]_loadVars
  PROVE  CenterInv' /\ CarriedInv'
<1>1. CASE step_ \in {"done", "failed"}
  <2>1. UNCHANGED loadVars
    BY <1>1, LoadedStays
  <2>2. Near' = Near
    BY <2>1, MapStays DEF Near, NoExitTo
  <2> QED
    BY <2>1, <2>2, MapStays DEF CenterInv, CarriedInv
<1>2. CASE step_ \notin {"done", "failed"}
  <2>1. animation_ = <<>> /\ center_ = NoCube /\ ~crashed_ /\ carried_ \in 0 .. 2
    BY <1>2 DEF CenterInv, CarriedInv
  <2>2. reborn_' # NoCube => step_' \in {"global", "done", "crashed"}
    <3>1. CASE MakeShortcut
      BY <1>2, <3>1 DEF MakeShortcut
    <3>2. CASE GlobalLink \/ Loaded
      BY <3>2 DEF GlobalLink, Loaded, mapVars
    <3>3. CASE \/ ReadConfig \/ AreaHead \/ AreaCube \/ CubesRead \/ AreaLink \/ LinksRead
               \/ AreaMarks \/ AreaMob \/ MobsRead
      <4>1. reborn_' = reborn_ /\ step_ \notin {"global", "done", "crashed"}
        BY <3>3 DEF ReadConfig, AreaHead, AreaCube, CubesRead, AreaLink, LinksRead, AreaMarks, AreaMob,
                    MobsRead, Fail, Crash, Stop, mapVars
      <4> QED
        BY <4>1 DEF CenterInv
    <3>4. CASE UNCHANGED loadVars
      BY <3>4 DEF CenterInv, loadVars, mapVars
    <3> QED
      BY <3>1, <3>2, <3>3, <3>4 DEF WorldMapNext
  <2> QED
    BY <2>1, <2>2 DEF CenterInv, CarriedInv
<1> QED
  BY <1>1, <1>2

LEMMA StartKeeps ==
  ASSUME MapInv, CenterInv, CarriedInv, Start
  PROVE  CenterInv' /\ CarriedInv'
<1> DEFINE dest == cubes_[reborn_]
<1>1. step_ = "done" /\ center_ = NoCube /\ UNCHANGED <<loadVars, carried_>>
  BY DEF Start, Made, CenterInv
<1>2. center_' = dest /\ ~crashed_' /\ animation_' = <<>>
  BY <1>1 DEF Start, SetCenterCube
<1>3. dest \in OnMap
  BY <1>1 DEF MapInv, WorldMapTypeOK, MapOK, OnMap
<1>4. step_' = "done" /\ OnMap' = OnMap
  BY <1>1, MapStays
<1> QED
  BY <1>1, <1>2, <1>3, <1>4 DEF CenterInv, CarriedInv

LEMMA StartNullKeeps ==
  ASSUME MapInv, CenterInv, CarriedInv, StartNull
  PROVE  CenterInv' /\ CarriedInv'
<1>1. /\ step_ \in {"done", "failed"} /\ center_ = NoCube /\ reborn_ = NoCube
      /\ UNCHANGED <<loadVars, center_, animation_, carried_>>
  BY DEF StartNull, Made
<1>2. ASSUME step_ = "done" PROVE FALSE
  <2>1. cubes_[NoCube] \in DOMAIN exits_ /\ Place(cubes_[NoCube]) = NoCube
    BY <1>1, <1>2 DEF MapInv, WorldMapTypeOK, MapOK
  <2>2. NoCube \in Position
    BY <2>1 DEF MapInv, WorldMapTypeOK, ObjectsOK
  <2> QED
    BY <2>2 DEF Position, NoCube
<1>3. step_' = "failed" /\ step_ = "failed" /\ reborn_' = reborn_ /\ OnMap' = OnMap
  BY <1>1, <1>2, MapStays
<1>4. animation_ = <<>>
  BY <1>3 DEF CarriedInv
<1> QED
  BY <1>1, <1>3, <1>4 DEF CenterInv, CarriedInv

LEMMA KeyPressKeeps ==
  ASSUME MapInv, CenterInv, CarriedInv, NEW dir \in WalkDir, NEW rolling, KeyPress(dir, rolling)
  PROVE  CenterInv' /\ CarriedInv'
<1>1. /\ step_ = "done" /\ ~crashed_ /\ animation_' # animation_
      /\ animation_' = Pressed(animation_, center_, dir, rolling) /\ carried_' = 0
      /\ UNCHANGED <<loadVars, center_, crashed_>> /\ center_ \in OnMap
  BY DEF KeyPress, Playing, CenterInv
<1>2. PICK dest \in NextTo(center_) : animation_' = Walk(dest, dir)
  BY <1>1, PressedIs
<1>3. animation_' = <<"rotate", dest, "rotate">> \/ animation_' = <<dest>>
  BY <1>2 DEF Walk
<1>4. step_' = "done" /\ OnMap' = OnMap /\ reborn_' = reborn_ /\ dest \in Near'
  BY <1>1, <1>2, MapStays DEF Near, NextTo, NoExitTo
<1>5. CenterInv'
  BY <1>1, <1>4 DEF CenterInv
<1>6. CarriedInv'
  BY <1>1, <1>3, <1>4 DEF CarriedInv
<1> QED
  BY <1>5, <1>6

(* The animation that is over is a turn of the view ... *)
LEMMA RotateKeeps ==
  ASSUME CenterInv, CarriedInv, step_ = "done", animation_ # <<>>,
         animation_' = Tail(animation_), UNCHANGED <<loadVars, center_, crashed_, carried_>>,
         Head(animation_) = "rotate"
  PROVE  CenterInv' /\ CarriedInv'
<1>1. step_' = "done" /\ OnMap' = OnMap /\ CenterInv'
  BY MapStays DEF CenterInv
<1>0. Near' = Near
  BY <1>1 DEF Near, NoExitTo
<1>2. CASE animation_ = <<"rotate">>
  <2>1. animation_' = <<>>
    BY <1>2
  <2> QED
    BY <1>1, <2>1 DEF CarriedInv
<1>3. ASSUME NEW cube \in Near, animation_ = <<cube>> PROVE CarriedInv'
  <2>1. animation_' = <<>>
    BY <1>3
  <2> QED
    BY <1>1, <2>1 DEF CarriedInv
<1>4. ASSUME NEW cube \in Near, animation_ = <<cube, "rotate">> PROVE CarriedInv'
  <2>1. animation_' = <<"rotate">>
    BY <1>4
  <2> QED
    BY <1>1, <2>1 DEF CarriedInv
<1>5. ASSUME NEW cube \in Near, animation_ = <<"rotate", cube, "rotate">>, carried_ # 2
      PROVE  CarriedInv'
  <2>1. animation_' = <<cube, "rotate">>
    BY <1>5
  <2> QED
    BY <1>0, <1>1, <1>5, <2>1 DEF CarriedInv
<1> QED
  BY <1>1, <1>2, <1>3, <1>4, <1>5 DEF CarriedInv

(* ... or a move to a cube, which is on the map. *)
LEMMA ArriveKeeps ==
  ASSUME MapInv, CenterInv, CarriedInv, step_ = "done", animation_ # <<>>, UNCHANGED loadVars,
         Head(animation_) # "rotate", NEW run, NEW rolling,
         SetCenterCube(Head(animation_), Tail(animation_), run, rolling), carried_' = carried_ + 1
  PROVE  CenterInv' /\ CarriedInv'
<1> DEFINE dest == Head(animation_)
<1>1. /\ step_' = "done" /\ OnMap' = OnMap /\ reborn_' = reborn_
      /\ \A cube : ExitsBlind(cube)' <=> ExitsBlind(cube)
  BY MapStays
<1>2. carried_ \in {0, 1} /\ carried_' \in {1, 2} /\ (carried_' = 2 => carried_ = 1)
      /\ \E cube \in Near : \/ animation_ = <<cube>> /\ carried_ = 0
                            \/ animation_ = <<cube, "rotate">>
  <2>1. animation_ # <<"rotate">>
    OBVIOUS
  <2>2. \A cube \in Near : animation_ # <<"rotate", cube, "rotate">>
    OBVIOUS
  <2> QED
    BY <2>1, <2>2 DEF CarriedInv
<1>3. PICK cube \in Near : \/ animation_ = <<cube>> /\ carried_ = 0
                           \/ animation_ = <<cube, "rotate">>
  BY <1>2
<1>4. dest = cube /\ dest \in OnMap
  BY <1>3 DEF Near
<1>5. CenterInv'
  <2>0. ~NoExitTo(dest)
    BY <1>4 DEF Near
  <2>1. center_' = dest /\ (crashed_' => ExitsBlind(dest))
    BY <2>0 DEF SetCenterCube
  <2> QED
    BY <1>1, <1>4, <2>1 DEF CenterInv
<1>6. \/ animation_' = Tail(animation_)
      \/ /\ Tail(animation_) = <<>>
         /\ \E next \in Near' : animation_' = <<"rotate", next, "rotate">>
  <2>0. center_' = dest /\ dest \in OnMap
    BY <1>4 DEF SetCenterCube
  <2> DEFINE rest == Tail(animation_)
             more == Onward(rest, dest, center_, rolling)
  <2>1. animation_' = rest \/ animation_' = more
    BY DEF SetCenterCube
  <2> HIDE DEF rest, dest
  <2>2. more = rest \/ (rest = <<>> /\ \E next \in NextTo(dest) : more = <<"rotate", next, "rotate">>)
    BY <2>0, OnwardIs
  <2> HIDE DEF more
  <2>4. Near' = NextTo(dest)
    BY <1>1, <2>0 DEF Near, NextTo, NoExitTo
  <2>3. animation_' = rest \/ (rest = <<>> /\ \E next \in Near' : animation_' = <<"rotate", next, "rotate">>)
    BY <2>1, <2>2, <2>4
  <2> QED
    BY <2>3 DEF rest
<1>7. CASE animation_ = <<cube>> /\ carried_ = 0
  <2>1. Tail(animation_) = <<>> /\ carried_' = 1
    BY <1>7
  <2> QED
    BY <1>1, <1>5, <1>6, <2>1 DEF CarriedInv
<1>8. CASE animation_ = <<cube, "rotate">>
  <2>1. Tail(animation_) = <<"rotate">> /\ <<"rotate">> # <<>>
    BY <1>8
  <2>2. animation_' = <<"rotate">>
    BY <1>6, <2>1
  <2> QED
    BY <1>1, <1>2, <1>5, <2>2 DEF CarriedInv
<1> QED
  BY <1>3, <1>5, <1>7, <1>8

LEMMA FinishKeeps ==
  ASSUME MapInv, CenterInv, CarriedInv, NEW rolling, FinishAnimation(rolling)
  PROVE  CenterInv' /\ CarriedInv'
<1>1. step_ = "done" /\ animation_ # <<>> /\ UNCHANGED loadVars
  BY DEF FinishAnimation, Playing
<1>2. CASE Head(animation_) = "rotate"
  <2>1. animation_' = Tail(animation_) /\ UNCHANGED <<center_, crashed_, carried_>>
    BY <1>2 DEF FinishAnimation
  <2> QED
    BY <1>1, <1>2, <2>1, RotateKeeps
<1>3. CASE Head(animation_) # "rotate"
  <2>1. carried_' = carried_ + 1 /\ \E run : SetCenterCube(Head(animation_), Tail(animation_), run, rolling)
    BY <1>3 DEF FinishAnimation
  <2> QED
    BY <1>1, <1>3, <2>1, ArriveKeeps
<1> QED
  BY <1>2, <1>3

LEMMA ClientKeeps ==
  MapInv /\ CenterInv /\ CarriedInv /\ [ClientNext]_playVars => CenterInv' /\ CarriedInv'
<1> SUFFICES ASSUME MapInv, CenterInv, CarriedInv, [ClientNext]_playVars
             PROVE  CenterInv' /\ CarriedInv'
  OBVIOUS
<1>1. [WorldMapNext]_loadVars
  BY ClientLoads
<1>2. CASE Load \/ DrawFrame \/ Tick \/ UNCHANGED playVars
  <2>1. UNCHANGED <<center_, animation_, crashed_, carried_>>
    BY <1>2 DEF Load, DrawFrame, Tick, playVars, clientVars
  <2> QED
    BY <1>1, <2>1, QuietKeeps
<1>3. CASE Start \/ StartNull
  BY <1>3, StartKeeps, StartNullKeeps
<1>4. CASE Press
  BY <1>4, KeyPressKeeps DEF Press
<1>5. CASE Finish
  BY <1>5, FinishKeeps DEF Finish
<1> QED
  BY <1>2, <1>3, <1>4, <1>5 DEF ClientNext

LEMMA ClientAlways == ClientSpec => [](MapInv /\ LeadInv /\ CenterInv /\ CarriedInv)
<1>1. ClientSpec => ClientInit /\ [][ClientNext]_playVars
  BY PTL DEF ClientSpec
<1>2. ClientInit => MapInv /\ LeadInv /\ CenterInv /\ CarriedInv
  BY InitInv, InitLeads, CenterInit DEF ClientInit
<1>3. /\ MapInv /\ LeadInv /\ CenterInv /\ CarriedInv /\ [ClientNext]_playVars
      => MapInv' /\ LeadInv' /\ CenterInv' /\ CarriedInv'
  BY ClientLoads, NextKeeps, NextLeads, ClientKeeps
<1> QED
  BY <1>1, <1>2, <1>3, PTL

(* For all files, keys and orders of keys, drawings and arrivals: no key
   carries the player further than one floor beyond the cube it asked for
   (DrawClass.cpp:348, 473, 631-645). *)
THEOREM KeysCarryOnce == ClientSpec => []CarriedOnce
<1>1. CarriedInv => CarriedOnce
  BY DEF CarriedInv, CarriedOnce
<1> QED
  BY <1>1, ClientAlways, PTL

(* For all files whose ids are their own the client uses a cube or an exit
   that is not there only at its start on a map that was refused, or behind a
   vertical exit that letters of an area file opened: never at the start of a
   map that loads, never behind a link, never for the exit it went through
   (DrawClass.cpp:26, 49, 590, 596, 631-645). *)
THEOREM ClientStaysAlive == ClientSpec => []ClientAlive
<1>1. MapInv /\ LeadInv /\ CenterInv => ClientAlive
  <2> SUFFICES ASSUME MapInv, LeadInv, CenterInv, crashed_, DistinctIds,
                      ~(step_ = "failed" /\ center_ = NoCube)
               PROVE  /\ center_ # NoCube
                      /\ \E d \in Lettered(center_) \cap {Z_INC, Z_DEC} :
                           Step(Place(center_), d) \notin DOMAIN cubes_
    BY DEF ClientAlive
  <2>1. step_ = "done" /\ center_ \in OnMap /\ ExitsBlind(center_)
    BY DEF CenterInv
  <2>7. center_ # NoCube
    BY <2>1, OnMapThere
  <2>2. PICK pos \in DOMAIN cubes_ : center_ = cubes_[pos]
    BY <2>1 DEF OnMap
  <2>3. Place(center_) = pos
    BY <2>2 DEF MapInv, WorldMapTypeOK, MapOK
  <2>4. PICK d \in {Z_INC, Z_DEC} : exits_[center_][d] # 0 /\ Step(pos, d) \notin DOMAIN cubes_
    BY <2>1, <2>3 DEF ExitsBlind
  <2>5. d \in ExitDir
    BY DEF Z_INC, Z_DEC, ExitDir
  <2>6. d \in Lettered(center_)
    BY <2>1, <2>2, <2>4, <2>5, LeadsOfMap DEF LinksLead
  <2> QED
    BY <2>3, <2>4, <2>6, <2>7
<1> QED
  BY <1>1, ClientAlways, PTL

-----------------------------------------------------------------------------
(* The texts of the map client                                             *)

(* The scripts of every file read are there, under their places in the file. *)
ScriptsRead ==
  \A f \in DOMAIN area_cubes_ : f \in DOMAIN scripts_ /\ DOMAIN scripts_[f] \subseteq Nat

LEMMA ScriptsStay ==
  ASSUME ScriptsRead, scripts_' = scripts_, DOMAIN area_cubes_' = DOMAIN area_cubes_
  PROVE  ScriptsRead'
BY DEF ScriptsRead

LEMMA NextScripts == MapInv /\ ScriptsRead /\ [WorldMapNext]_loadVars => ScriptsRead'
<1> SUFFICES ASSUME MapInv, ScriptsRead, [WorldMapNext]_loadVars PROVE ScriptsRead'
  OBVIOUS
<1>1. CASE AreaHead
  <2>1. CASE step_' # "cube"
    <3>1. UNCHANGED <<scripts_, area_cubes_>>
      BY <1>1, <2>1 DEF AreaHead, Fail, Crash, Stop, areaVars
    <3> QED
      BY <3>1, ScriptsStay
  <2>2. CASE step_' = "cube"
    <3> DEFINE new == ScriptsInit(List("scripts"), Nothing, Json.offset)
    <3>1. /\ scripts_' = With(scripts_, file_, new) /\ area_cubes_' = With(area_cubes_, file_, {})
          /\ step_ = "head"
      BY <1>1, <2>2 DEF AreaHead, Fail, Crash, Stop
    <3>2. file_ \in ConfigIds /\ input_ \in Inputs
      BY <3>1 DEF MapInv, ControlOK
    <3>3. DOMAIN List("scripts") \subseteq Nat
      <4>1. Has(Json, "scripts") => IsList(Json["scripts"])
        BY <3>2, FileShape DEF Json, AreaShape
      <4> QED
        BY <4>1 DEF List, IsList
    <3>4. DOMAIN new \subseteq Nat
      BY <3>3 DEF ScriptsInit
    <3> HIDE DEF new
    <3> QED
      BY <3>1, <3>4 DEF With, ScriptsRead
  <2> QED
    BY <2>1, <2>2
<1>2. CASE UNCHANGED loadVars
  <2>1. UNCHANGED <<scripts_, area_cubes_>>
    BY <1>2 DEF loadVars, areaVars
  <2> QED
    BY <2>1, ScriptsStay
<1>3. CASE AreaCube
  <2>1. scripts_' = scripts_ /\ DOMAIN area_cubes_' = DOMAIN area_cubes_
    BY <1>3 DEF AreaCube, Fail, Crash, Stop, areaVars
  <2> QED
    BY <2>1, ScriptsStay
<1>4. CASE \/ ReadConfig \/ CubesRead \/ AreaLink \/ LinksRead \/ AreaMarks \/ AreaMob \/ MobsRead
           \/ MakeShortcut \/ GlobalLink \/ Loaded
  <2>1. UNCHANGED <<scripts_, area_cubes_>>
    BY <1>4 DEF ReadConfig, CubesRead, AreaLink, LinksRead, AreaMarks, AreaMob, MobsRead, MakeShortcut,
         GlobalLink, Loaded, Fail, Crash, Stop, areaVars
  <2> QED
    BY <2>1, ScriptsStay
<1> QED
  BY <1>1, <1>2, <1>3, <1>4 DEF WorldMapNext

(* A cube of the map is in a file that was read and is the area of its id. *)
LEMMA OwnArea ==
  ASSUME MapInv, LeadInv, step_ = "done", NEW cube \in OnMap
  PROVE  /\ cube # NoCube /\ cube[1] \in DOMAIN area_cubes_
         /\ areas_[AreaOf(cube).id] = cube[1]
<1>1. PICK pos \in DOMAIN Shortcut : cube = Shortcut[pos]
  BY DEF OnMap, LeadInv
<1>2. PICK id \in DOMAIN areas_ : cube = <<areas_[id], pos>>
  BY <1>1, ShortcutIs
<1>3. cube[1] = areas_[id] /\ cube # NoCube
  BY <1>2 DEF NoCube
<1>4. areas_[id] \in DOMAIN area_cubes_
  BY DEF MapInv, WorldMapTypeOK, MapOK
<1>5. FileOf(areas_[id]).id = id
  BY DEF LeadInv, OwnIds
<1> QED
  BY <1>3, <1>4, <1>5 DEF AreaOf

-----------------------------------------------------------------------------
(* What scripts say                                                        *)

(* A storage as the window has it: counts and the timer are numbers. *)
StorageOK(st) ==
  /\ DOMAIN st = {"areaid_", "loc_", "integer_1", "move_count_", "age"}
  /\ st.age \in Nat
  /\ \A a \in DOMAIN st.move_count_ : st.move_count_[a] \in Nat

LEMMA MoveCountNat ==
  ASSUME NEW st, StorageOK(st), NEW a
  PROVE  move_count(st, a) \in Nat
BY DEF StorageOK, move_count, Has

(* A timer that is reset changes nothing else. *)
LEMMA ResetTimer ==
  ASSUME NEW st, StorageOK(st)
  PROVE  /\ StorageOK(reset_timer(st))
         /\ reset_timer(st).age = 0
         /\ reset_timer(st).areaid_ = st.areaid_
         /\ \A a : move_count(reset_timer(st), a) = move_count(st, a)
<1> DEFINE t == reset_timer(st)
<1>1. DOMAIN t = DOMAIN st /\ t.age = 0 /\ t.areaid_ = st.areaid_ /\ t.move_count_ = st.move_count_
  BY DEF StorageOK, reset_timer
<1> HIDE DEF t
<1>2. StorageOK(t)
  BY <1>1 DEF StorageOK
<1>3. \A a : move_count(t, a) = move_count(st, a)
  BY <1>1 DEF move_count
<1> QED
  BY <1>1, <1>2, <1>3 DEF t

(* A script resets the timer when it sees st. *)
ResetsIn(cube, st, moving, k) ==
  \E j \in Performed(Handle(scripts_[cube[1]][k], st, moving), StringTable(AreaOf(cube))) :
    Handle(scripts_[cube[1]][k], st, moving)[j].action_type_ = "reset_timer"

SeenBy(cube, st, moving, i) ==
  Seen(st, \E k \in DOMAIN scripts_[cube[1]] : k < i /\ ResetsIn(cube, st, moving, k))

(* What a script says is in an action of it, and its condition holds. *)
LEMMA SaysOf ==
  ASSUME NEW cube, NEW st, NEW moving, NEW said \in RunScripts(cube, st, moving).says
  PROVE  \E i \in DOMAIN scripts_[cube[1]] : \E j :
           LET actions == Handle(scripts_[cube[1]][i], SeenBy(cube, st, moving, i), moving)
           IN /\ j \in DOMAIN actions /\ IsText(actions[j])
              /\ said = [moving |-> moving, place |-> <<i, j>>,
                         text |-> <<AreaOf(cube).id, actions[j].i_rhs_>>]
<1> DEFINE scripts == scripts_[cube[1]]
           Actions(i, s) == Handle(scripts[i], s, moving)
           Done(i, s) == Performed(Actions(i, s), StringTable(AreaOf(cube)))
           Said(i) ==
             {[moving |-> moving, place |-> <<i, j>>,
               text |-> <<AreaOf(cube).id, Actions(i, SeenBy(cube, st, moving, i))[j].i_rhs_>>] :
                j \in {k \in Done(i, SeenBy(cube, st, moving, i)) :
                         IsText(Actions(i, SeenBy(cube, st, moving, i))[k])}}
<1>1. RunScripts(cube, st, moving).says = UNION {Said(i) : i \in DOMAIN scripts}
  BY DEF RunScripts, SeenBy, ResetsIn
<1>2. PICK i \in DOMAIN scripts : said \in Said(i)
  BY <1>1
<1>3. PICK j \in Done(i, SeenBy(cube, st, moving, i)) :
        /\ IsText(Actions(i, SeenBy(cube, st, moving, i))[j])
        /\ said = [moving |-> moving, place |-> <<i, j>>,
                   text |-> <<AreaOf(cube).id, Actions(i, SeenBy(cube, st, moving, i))[j].i_rhs_>>]
  BY <1>2
<1>4. j \in DOMAIN Actions(i, SeenBy(cube, st, moving, i))
  BY DEF Performed
<1> QED
  BY <1>2, <1>3, <1>4

LEMMA RunStorage ==
  ASSUME NEW cube, NEW st, NEW moving
  PROVE  RunScripts(cube, st, moving).st =
           IF \E k \in DOMAIN scripts_[cube[1]] : ResetsIn(cube, st, moving, k) THEN reset_timer(st) ELSE st
BY DEF RunScripts, ResetsIn

(* A script does all its actions or none. *)
LEMMA HandleIs ==
  ASSUME NEW script, NEW st, NEW moving, NEW j \in DOMAIN Handle(script, st, moving)
  PROVE  /\ Handle(script, st, moving) = script.p_actions_move_
         /\ script.condition_type_ = "and" =>
              \A c \in DOMAIN script.conditions_ : IsTrue(script.conditions_[c], st, moving)
<1>1. Handle(script, st, moving) # <<>>
  OBVIOUS
<1> QED
  BY <1>1 DEF Handle

LEMMA MoveSays ==
  ASSUME NEW script, NEW st, NEW moving, NEW j \in DOMAIN Handle(script, st, moving),
         Single(script, "move_count"), script.conditions_[1].condition_type_ = "equal"
  PROVE  moving /\ move_count(st, st.areaid_) = script.conditions_[1].i_rhs_
<1>1. IsTrue(script.conditions_[1], st, moving)
  BY HandleIs DEF Single
<1> QED
  BY <1>1 DEF IsTrue, IsTrueMoveCount, Single

LEMMA TimerSays ==
  ASSUME NEW script, NEW st, NEW moving, NEW j \in DOMAIN Handle(script, st, moving),
         Single(script, "timer")
  PROVE  st.age > script.conditions_[1].i_rhs_
<1>1. IsTrue(script.conditions_[1], st, moving)
  BY HandleIs DEF Single
<1> QED
  BY <1>1 DEF IsTrue, IsTrueTimer, Single

-----------------------------------------------------------------------------
(* A text for the n-th move is said once                                   *)

Number(file, place) == scripts_[file][place[1]].conditions_[1].i_rhs_

(* A text for the n-th move that was told times often when the player's
   storage was st was told once, and the n-th move has been made. *)
ToldOK(text, times, st) ==
  MoveText(areas_[text[1]], text[2]) =>
    /\ times = 1
    /\ \A place \in Places(areas_[text[1]], text[2]) :
         LET n == Number(areas_[text[1]], place) IN n \in Nat /\ n <= move_count(st, text[1])

TextsInv ==
  /\ StorageOK(storage_)
  /\ center_ = NoCube => told_ = Nothing
  /\ center_ # NoCube => storage_.areaid_ = AreaOf(center_).id
  /\ \A text \in DOMAIN told_ : ToldOK(text, told_[text], storage_)

(* What a run of the scripts says of such texts: one place, once, at the n-th
   move, and not when it was told before. *)
Fresh(run) ==
  \A text : MoveText(areas_[text[1]], text[2]) =>
    \A said \in run.says : said.text = text =>
      \E place \in Places(areas_[text[1]], text[2]) :
        /\ said = [moving |-> TRUE, place |-> place, text |-> text]
        /\ Number(areas_[text[1]], place) = move_count(run.st, text[1])
        /\ text \in DOMAIN told_ => move_count(storage_, text[1]) < Number(areas_[text[1]], place)

(* The player's arrival is counted for the area arrived in. *)
LEMMA MovedIs ==
  ASSUME StorageOK(storage_), NEW dest
  PROVE  /\ StorageOK(Moved(dest))
         /\ Moved(dest).areaid_ = AreaOf(dest).id
         /\ \A a : move_count(Moved(dest), a) =
              move_count(storage_, a) + IF center_ # NoCube /\ a = AreaOf(dest).id THEN 1 ELSE 0
<1> DEFINE id == AreaOf(dest).id
           st == IF center_ = NoCube THEN storage_ ELSE move_count_inc(storage_, id)
           moved == Moved(dest)
<1>1. DOMAIN st = DOMAIN storage_ /\ st.age = storage_.age
  BY DEF StorageOK, move_count_inc
<1>2. \A a : move_count(st, a) = move_count(storage_, a) + IF center_ # NoCube /\ a = id THEN 1 ELSE 0
  <2>1. CASE center_ = NoCube
    BY <2>1, MoveCountNat
  <2>2. CASE center_ # NoCube
    <3>1. st.move_count_ = [a \in DOMAIN storage_.move_count_ \cup {id} |->
            IF a = id THEN move_count(storage_, id) + 1 ELSE storage_.move_count_[a]]
      BY <2>2 DEF move_count_inc, StorageOK
    <3> QED
      BY <2>2, <3>1, MoveCountNat DEF move_count, Has
  <2> QED
    BY <2>1, <2>2
<1>3. \A a \in DOMAIN st.move_count_ : st.move_count_[a] \in Nat
  <2>1. \A a : move_count(st, a) \in Nat
    BY <1>2, MoveCountNat
  <2> QED
    BY <2>1 DEF move_count, Has
<1>4. moved = [st EXCEPT !.areaid_ = id, !.loc_ = Place(dest)]
  BY DEF Moved
<1> HIDE DEF st, moved
<1>5. DOMAIN st = {"areaid_", "loc_", "integer_1", "move_count_", "age"} /\ st.age \in Nat
  BY <1>1 DEF StorageOK
<1>6. /\ DOMAIN moved = DOMAIN st /\ moved.age = st.age /\ moved.areaid_ = id
      /\ moved.move_count_ = st.move_count_
  BY <1>4, <1>5
<1>7. StorageOK(moved)
  BY <1>3, <1>5, <1>6 DEF StorageOK
<1>8. \A a : move_count(moved, a) = move_count(st, a)
  BY <1>6 DEF move_count
<1> QED
  BY <1>2, <1>6, <1>7, <1>8 DEF moved

(* Scripts change the timer only. *)
LEMMA RunKeepsStorage ==
  ASSUME NEW cube, NEW st, StorageOK(st), NEW moving
  PROVE  LET run == RunScripts(cube, st, moving)
         IN /\ StorageOK(run.st) /\ run.st \in {st, reset_timer(st)}
            /\ run.st.areaid_ = st.areaid_
            /\ \A a : move_count(run.st, a) = move_count(st, a)
<1>1. RunScripts(cube, st, moving).st \in {st, reset_timer(st)}
  BY RunStorage
<1> QED
  BY <1>1, ResetTimer

LEMMA SeenIs ==
  ASSUME NEW cube, NEW st, StorageOK(st), NEW moving, NEW i
  PROVE  LET sees == SeenBy(cube, st, moving, i)
         IN sees.areaid_ = st.areaid_ /\ \A a : move_count(sees, a) = move_count(st, a)
<1>1. SeenBy(cube, st, moving, i) \in {st, reset_timer(st)}
  BY DEF SeenBy, Seen
<1> QED
  BY <1>1, ResetTimer

LEMMA PlaceOf ==
  ASSUME NEW f, NEW i \in DOMAIN scripts_[f], NEW j \in DOMAIN scripts_[f][i].p_actions_move_,
         IsText(scripts_[f][i].p_actions_move_[j])
  PROVE  <<i, j>> \in Places(f, scripts_[f][i].p_actions_move_[j].i_rhs_)
<1> DEFINE t == scripts_[f][i].p_actions_move_[j].i_rhs_
           Js(k) == {l \in DOMAIN scripts_[f][k].p_actions_move_ :
                       LET action == scripts_[f][k].p_actions_move_[l] IN IsText(action) /\ action.i_rhs_ = t}
           Of(k) == {<<k, l>> : l \in Js(k)}
<1>1. Places(f, t) = UNION {Of(k) : k \in DOMAIN scripts_[f]}
  BY DEF Places
<1>2. j \in Js(i)
  OBVIOUS
<1> HIDE DEF Js
<1>3. <<i, j>> \in Of(i)
  BY <1>2
<1> QED
  BY <1>1, <1>3

(* What a run says, seen from the text. *)
LEMMA SaysMoveText ==
  ASSUME MapInv, LeadInv, step_ = "done", NEW cube \in OnMap, NEW st, StorageOK(st), NEW moving,
         st.areaid_ = AreaOf(cube).id,
         NEW said \in RunScripts(cube, st, moving).says,
         MoveText(areas_[said.text[1]], said.text[2])
  PROVE  /\ moving /\ said.moving = moving /\ said.text[1] = AreaOf(cube).id
         /\ said.place \in Places(areas_[said.text[1]], said.text[2])
         /\ said = [moving |-> moving, place |-> said.place, text |-> said.text]
         /\ Number(areas_[said.text[1]], said.place) = move_count(st, said.text[1])
<1>0. PICK i \in DOMAIN scripts_[cube[1]] : \E j :
        LET actions == Handle(scripts_[cube[1]][i], SeenBy(cube, st, moving, i), moving)
        IN /\ j \in DOMAIN actions /\ IsText(actions[j])
           /\ said = [moving |-> moving, place |-> <<i, j>>,
                      text |-> <<AreaOf(cube).id, actions[j].i_rhs_>>]
  BY SaysOf
<1>1. PICK j :
        LET actions == Handle(scripts_[cube[1]][i], SeenBy(cube, st, moving, i), moving)
        IN /\ j \in DOMAIN actions /\ IsText(actions[j])
           /\ said = [moving |-> moving, place |-> <<i, j>>,
                      text |-> <<AreaOf(cube).id, actions[j].i_rhs_>>]
  BY <1>0
<1> DEFINE script == scripts_[cube[1]][i]
           sees == SeenBy(cube, st, moving, i)
<1>2. j \in DOMAIN Handle(script, sees, moving) /\ Handle(script, sees, moving) = script.p_actions_move_
  BY <1>1, HandleIs
<1>3. /\ j \in DOMAIN script.p_actions_move_ /\ IsText(script.p_actions_move_[j])
      /\ said = [moving |-> moving, place |-> <<i, j>>,
                 text |-> <<AreaOf(cube).id, script.p_actions_move_[j].i_rhs_>>]
  BY <1>1, <1>2
<1>4. /\ said.moving = moving /\ said.place = <<i, j>> /\ said.text[1] = AreaOf(cube).id
      /\ said.text[2] = script.p_actions_move_[j].i_rhs_
      /\ said = [moving |-> moving, place |-> said.place, text |-> said.text]
  BY <1>3
<1>5. areas_[said.text[1]] = cube[1]
  BY <1>4, OwnArea
<1>6. <<i, j>> \in Places(cube[1], said.text[2])
  BY <1>3, <1>4, PlaceOf
<1>7. Single(script, "move_count") /\ script.conditions_[1].condition_type_ = "equal"
  <2>1. PICK place \in Places(cube[1], said.text[2]) :
          /\ \A other \in Places(cube[1], said.text[2]) : other = place
          /\ Single(scripts_[cube[1]][place[1]], "move_count")
          /\ scripts_[cube[1]][place[1]].conditions_[1].condition_type_ = "equal"
    BY <1>5 DEF MoveText
  <2>2. place = <<i, j>> /\ place[1] = i
    BY <1>6, <2>1
  <2> QED
    BY <2>1, <2>2
<1>8. moving /\ move_count(sees, sees.areaid_) = script.conditions_[1].i_rhs_
  BY <1>2, <1>7, MoveSays
<1>9. move_count(sees, sees.areaid_) = move_count(st, said.text[1])
  BY <1>4, SeenIs
<1>10. Number(areas_[said.text[1]], said.place) = script.conditions_[1].i_rhs_
  BY <1>4, <1>5 DEF Number
<1> QED
  BY <1>4, <1>5, <1>6, <1>8, <1>9, <1>10

(* Drawing says none of them. *)
LEMMA StillFresh ==
  ASSUME MapInv, LeadInv, step_ = "done", NEW cube \in OnMap, NEW st, StorageOK(st),
         st.areaid_ = AreaOf(cube).id, NEW moving, ~moving
  PROVE  \A said \in RunScripts(cube, st, moving).says : ~MoveText(areas_[said.text[1]], said.text[2])
BY SaysMoveText

LEMMA ClientStays ==
  ASSUME UNCHANGED loadVars
  PROVE  /\ input_' = input_ /\ scripts_' = scripts_ /\ areas_' = areas_
         /\ \A f, t : Places(f, t)' = Places(f, t) /\ (MoveText(f, t)' <=> MoveText(f, t))
         /\ \A cube : AreaOf(cube)' = AreaOf(cube)
<1>1. input_' = input_ /\ scripts_' = scripts_ /\ areas_' = areas_
  BY DEF loadVars, areaVars
<1>2. \A f, t : Places(f, t)' = Places(f, t)
  BY <1>1 DEF Places
<1>3. \A f, t : MoveText(f, t)' <=> MoveText(f, t)
  BY <1>1, <1>2 DEF MoveText, Single
<1>4. \A cube : AreaOf(cube)' = AreaOf(cube)
  BY <1>1 DEF AreaOf, FileOf
<1> QED
  BY <1>1, <1>2, <1>3, <1>4

(* Running scripts whose texts are fresh keeps what was told in order. *)
LEMMA RanKeeps ==
  ASSUME TextsInv, UNCHANGED loadVars, NEW run, Ran(run), Fresh(run), StorageOK(run.st),
         \A a : move_count(storage_, a) <= move_count(run.st, a)
  PROVE  StorageOK(storage_') /\ \A text \in DOMAIN told_' : ToldOK(text, told_[text], storage_)'
<1>1. storage_' = run.st /\ StorageOK(storage_')
  BY DEF Ran
<1>2. ASSUME NEW text \in DOMAIN told_', MoveText(areas_[text[1]], text[2])
      PROVE  /\ told_'[text] = 1
             /\ \A place \in Places(areas_[text[1]], text[2]) :
                  LET n == Number(areas_[text[1]], place) IN n \in Nat /\ n <= move_count(run.st, text[1])
  <2> DEFINE S == {said \in run.says : said.text = text}
             times == Cardinality(S) + IF text \in DOMAIN told_ THEN told_[text] ELSE 0
             file == areas_[text[1]]
  <2>1. text \in DOMAIN told_ \/ S # {}
    BY DEF Ran
  <2>2. told_'[text] = IF times > 2 THEN 2 ELSE times
    BY DEF Ran
  <2>3. CASE S = {}
    <3>1. text \in DOMAIN told_ /\ ToldOK(text, told_[text], storage_)
      BY <2>1, <2>3 DEF TextsInv
    <3>2. told_[text] = 1
      BY <1>2, <3>1 DEF ToldOK
    <3>3. Cardinality(S) = 0
      BY <2>3, FS_EmptySet
    <3>4. told_'[text] = 1
      BY <2>2, <3>1, <3>2, <3>3
    <3>5. ASSUME NEW place \in Places(file, text[2])
          PROVE  Number(file, place) \in Nat /\ Number(file, place) <= move_count(run.st, text[1])
      <4>1. Number(file, place) \in Nat /\ Number(file, place) <= move_count(storage_, text[1])
        BY <1>2, <3>1 DEF ToldOK
      <4>2. move_count(storage_, text[1]) \in Nat /\ move_count(run.st, text[1]) \in Nat
        BY MoveCountNat DEF TextsInv
      <4> QED
        BY <4>1, <4>2
    <3> QED
      BY <3>4, <3>5
  <2>4. CASE S # {}
    <3>1. PICK place \in Places(file, text[2]) : \A other \in Places(file, text[2]) : other = place
      BY <1>2 DEF MoveText
    <3>2. \A said \in S :
            /\ said = [moving |-> TRUE, place |-> place, text |-> text]
            /\ Number(file, place) = move_count(run.st, text[1])
            /\ text \in DOMAIN told_ => move_count(storage_, text[1]) < Number(file, place)
      BY <1>2, <3>1 DEF Fresh
    <3>3. S = {[moving |-> TRUE, place |-> place, text |-> text]}
      BY <2>4, <3>2
    <3>4. Cardinality(S) = 1
      BY <3>3, FS_Singleton
    <3>5. /\ Number(file, place) = move_count(run.st, text[1]) /\ move_count(run.st, text[1]) \in Nat
          /\ text \in DOMAIN told_ => move_count(storage_, text[1]) < Number(file, place)
      BY <2>4, <3>2, MoveCountNat
    <3>6. text \notin DOMAIN told_
      <4> SUFFICES ASSUME text \in DOMAIN told_ PROVE FALSE
        OBVIOUS
      <4>1. Number(file, place) <= move_count(storage_, text[1])
        BY <1>2 DEF TextsInv, ToldOK
      <4>2. move_count(storage_, text[1]) \in Nat
        BY MoveCountNat DEF TextsInv
      <4> QED
        BY <3>5, <4>1, <4>2
    <3>7. told_'[text] = 1
      BY <2>2, <3>4, <3>6
    <3> QED
      BY <3>1, <3>5, <3>7
  <2> QED
    BY <2>3, <2>4
<1>3. ASSUME NEW text \in DOMAIN told_' PROVE ToldOK(text, told_[text], storage_)'
  <2>1. /\ areas_' = areas_ /\ scripts_' = scripts_
        /\ MoveText(areas_[text[1]], text[2])' <=> MoveText(areas_[text[1]], text[2])
        /\ Places(areas_[text[1]], text[2])' = Places(areas_[text[1]], text[2])
    BY ClientStays
  <2> QED
    BY <1>1, <1>2, <2>1 DEF ToldOK, Number
<1> QED
  BY <1>1, <1>3

(* What is drawn where the player stays. *)
LEMMA StillTexts ==
  ASSUME MapInv, LeadInv, TextsInv, step_ = "done", center_ \in OnMap, UNCHANGED loadVars,
         center_' = center_, Ran(RunScripts(center_, storage_, FALSE))
  PROVE  TextsInv'
<1> DEFINE stay == FALSE
           run == RunScripts(center_, storage_, stay)
<1> HIDE DEF stay
<1>0. center_ # NoCube
  BY OwnArea
<1>1. StorageOK(storage_) /\ storage_.areaid_ = AreaOf(center_).id
  BY <1>0 DEF TextsInv
<1>2. /\ StorageOK(run.st) /\ run.st.areaid_ = storage_.areaid_
      /\ \A a : move_count(run.st, a) = move_count(storage_, a)
  BY <1>1, RunKeepsStorage
<1>3. \A said \in run.says : ~MoveText(areas_[said.text[1]], said.text[2])
  <2>1. ~stay
    BY DEF stay
  <2> QED
    BY <1>1, <2>1, StillFresh
<1>5. Ran(run)
  BY DEF stay
<1>4. storage_' = run.st
  BY <1>5 DEF Ran
<1> HIDE DEF run
<1>6. Fresh(run)
  BY <1>3 DEF Fresh
<1>7. \A a : move_count(storage_, a) <= move_count(run.st, a)
  BY <1>1, <1>2, MoveCountNat
<1>8. StorageOK(storage_') /\ \A text \in DOMAIN told_' : ToldOK(text, told_[text], storage_)'
  BY <1>2, <1>5, <1>6, <1>7, RanKeeps
<1>9. AreaOf(center_)' = AreaOf(center_)
  BY ClientStays DEF AreaOf, FileOf
<1> QED
  BY <1>0, <1>1, <1>2, <1>4, <1>8, <1>9 DEF TextsInv

(* An arrival at dest, whose scripts run, and may run again to be drawn. *)
LEMMA ArriveTexts ==
  ASSUME MapInv, LeadInv, TextsInv, step_ = "done", UNCHANGED loadVars,
         NEW dest \in OnMap, center_' = dest, NEW arrived, NEW refreshed, NEW run, Ran(run),
         arrived = RunScripts(dest, Moved(dest), TRUE),
         refreshed = RunScripts(dest, arrived.st, FALSE),
         run.says \subseteq arrived.says \cup refreshed.says,
         run.st \in {arrived.st, refreshed.st}
  PROVE  TextsInv'
<1> DEFINE id == AreaOf(dest).id
           go == TRUE
           stay == FALSE
<1>0. /\ arrived = RunScripts(dest, Moved(dest), go) /\ refreshed = RunScripts(dest, arrived.st, stay)
      /\ go = TRUE /\ ~stay
  OBVIOUS
<1> HIDE DEF go, stay
<1>1. /\ StorageOK(Moved(dest)) /\ Moved(dest).areaid_ = id
      /\ \A a : move_count(Moved(dest), a) =
           move_count(storage_, a) + IF center_ # NoCube /\ a = id THEN 1 ELSE 0
  BY MovedIs DEF TextsInv
<1>2. /\ StorageOK(arrived.st) /\ arrived.st.areaid_ = id
      /\ \A a : move_count(arrived.st, a) = move_count(Moved(dest), a)
  <2>1. LET ran == RunScripts(dest, Moved(dest), go)
        IN /\ StorageOK(ran.st) /\ ran.st.areaid_ = Moved(dest).areaid_
           /\ \A a : move_count(ran.st, a) = move_count(Moved(dest), a)
    BY <1>1, RunKeepsStorage
  <2> QED
    BY <1>0, <1>1, <2>1
<1>3. /\ StorageOK(refreshed.st) /\ refreshed.st.areaid_ = id
      /\ \A a : move_count(refreshed.st, a) = move_count(Moved(dest), a)
  <2> DEFINE st == arrived.st
  <2>1. StorageOK(st)
    BY <1>2
  <2> HIDE DEF st
  <2>2. LET ran == RunScripts(dest, st, stay)
        IN /\ StorageOK(ran.st) /\ ran.st.areaid_ = st.areaid_
           /\ \A a : move_count(ran.st, a) = move_count(st, a)
    BY <2>1, RunKeepsStorage
  <2> QED
    BY <1>0, <1>2, <2>2 DEF st
<1>4. /\ StorageOK(run.st) /\ run.st.areaid_ = id
      /\ \A a : move_count(run.st, a) = move_count(Moved(dest), a)
  BY <1>2, <1>3
<1>5. \A said \in refreshed.says : ~MoveText(areas_[said.text[1]], said.text[2])
  BY <1>0, <1>2, StillFresh
<1>6. ASSUME NEW text, MoveText(areas_[text[1]], text[2]), NEW said \in run.says, said.text = text
      PROVE  \E place \in Places(areas_[text[1]], text[2]) :
               /\ said = [moving |-> TRUE, place |-> place, text |-> text]
               /\ Number(areas_[text[1]], place) = move_count(run.st, text[1])
               /\ text \in DOMAIN told_ => move_count(storage_, text[1]) < Number(areas_[text[1]], place)
  <2>1. said \in RunScripts(dest, Moved(dest), go).says
    BY <1>0, <1>5, <1>6
  <2>2. /\ said.text[1] = id /\ said.place \in Places(areas_[text[1]], text[2])
        /\ said = [moving |-> TRUE, place |-> said.place, text |-> text]
        /\ Number(areas_[text[1]], said.place) = move_count(Moved(dest), text[1])
    <3>1. MoveText(areas_[said.text[1]], said.text[2])
      BY <1>6
    <3>2. /\ said.text[1] = id /\ said.place \in Places(areas_[said.text[1]], said.text[2])
          /\ said = [moving |-> go, place |-> said.place, text |-> said.text]
          /\ Number(areas_[said.text[1]], said.place) = move_count(Moved(dest), said.text[1])
      BY <1>1, <2>1, <3>1, SaysMoveText
    <3> QED
      BY <1>0, <1>6, <3>2
  <2>3. text \in DOMAIN told_ => move_count(storage_, text[1]) < Number(areas_[text[1]], said.place)
    <3> SUFFICES ASSUME text \in DOMAIN told_
                 PROVE  move_count(storage_, text[1]) < Number(areas_[text[1]], said.place)
      OBVIOUS
    <3>1. center_ # NoCube
      BY NothingIs DEF TextsInv
    <3>2. move_count(storage_, text[1]) \in Nat
      BY MoveCountNat DEF TextsInv
    <3>3. move_count(Moved(dest), text[1]) = move_count(storage_, text[1]) + 1
      BY <1>1, <1>6, <2>2, <3>1
    <3> QED
      BY <2>2, <3>2, <3>3
  <2> QED
    BY <1>4, <2>2, <2>3
<1>7. Fresh(run)
  BY <1>6 DEF Fresh
<1>8. \A a : move_count(storage_, a) <= move_count(run.st, a)
  <2>1. \A a : move_count(storage_, a) \in Nat
    BY MoveCountNat DEF TextsInv
  <2> QED
    BY <1>1, <1>4, <2>1
<1>9. StorageOK(storage_') /\ \A text \in DOMAIN told_' : ToldOK(text, told_[text], storage_)'
  BY <1>4, <1>7, <1>8, RanKeeps
<1>10. storage_' = run.st /\ dest # NoCube
  BY OwnArea DEF Ran
<1>11. AreaOf(center_)' = AreaOf(dest)
  BY ClientStays DEF AreaOf, FileOf
<1> QED
  BY <1>4, <1>9, <1>10, <1>11 DEF TextsInv

(* Neither keys nor loading nor time change what was told. *)
LEMMA SilentTexts ==
  ASSUME TextsInv, UNCHANGED <<center_, told_>>, UNCHANGED loadVars \/ center_ = NoCube,
         \/ storage_' = storage_
         \/ storage_' = [storage_ EXCEPT !.age = IF @ < LongAgo THEN @ + 1 ELSE @]
  PROVE  TextsInv'
<1>1. /\ StorageOK(storage_') /\ storage_'.areaid_ = storage_.areaid_
      /\ storage_'.move_count_ = storage_.move_count_
  <2>1. CASE storage_' = storage_
    BY <2>1 DEF TextsInv
  <2>2. CASE storage_' = [storage_ EXCEPT !.age = IF @ < LongAgo THEN @ + 1 ELSE @]
    <3>1. /\ DOMAIN storage_' = DOMAIN storage_ /\ storage_'.age \in {storage_.age, storage_.age + 1}
          /\ storage_'.areaid_ = storage_.areaid_ /\ storage_'.move_count_ = storage_.move_count_
      BY <2>2 DEF TextsInv, StorageOK
    <3> QED
      BY <3>1 DEF TextsInv, StorageOK
  <2> QED
    BY <2>1, <2>2
<1>2. CASE center_ = NoCube
  <2>1. told_' = Nothing /\ center_' = NoCube /\ DOMAIN told_' = {}
    BY <1>2, NothingIs DEF TextsInv
  <2> QED
    BY <1>1, <2>1 DEF TextsInv, Nothing
<1>3. CASE center_ # NoCube /\ UNCHANGED loadVars
  <2>1. AreaOf(center_)' = AreaOf(center_)
    BY <1>3, ClientStays DEF AreaOf, FileOf
  <2>2. \A a : move_count(storage_', a) = move_count(storage_, a)
    BY <1>1 DEF move_count
  <2>3. ASSUME NEW text \in DOMAIN told_' PROVE ToldOK(text, told_[text], storage_)'
    <3>1. /\ areas_' = areas_ /\ scripts_' = scripts_
          /\ MoveText(areas_[text[1]], text[2])' <=> MoveText(areas_[text[1]], text[2])
          /\ Places(areas_[text[1]], text[2])' = Places(areas_[text[1]], text[2])
      BY <1>3, ClientStays
    <3>2. ToldOK(text, told_[text], storage_)
      BY DEF TextsInv
    <3> QED
      BY <2>2, <3>1, <3>2 DEF ToldOK, Number
  <2> QED
    BY <1>1, <1>3, <2>1, <2>3 DEF TextsInv
<1> QED
  BY <1>2, <1>3

-----------------------------------------------------------------------------
(* Texts for idle players                                                  *)

(* Where the timer is reset on arrival, it tells how long nothing happened. *)
IdleInv ==
  /\ center_ = NoCube => said_ = {}
  /\ center_ # NoCube /\ ResetsFirst(center_[1]) => quiet_ = storage_.age

LEMMA IdleLimitIs ==
  ASSUME NEW f, NEW t, IdleText(f, t), NEW s \in Sayers(f, t)
  PROVE  /\ Single(s, "timer") /\ s.conditions_[1].i_rhs_ \in Nat
         /\ IdleLimit(f, t) \in Nat /\ IdleLimit(f, t) <= s.conditions_[1].i_rhs_
<1> DEFINE limits == {r.conditions_[1].i_rhs_ : r \in Sayers(f, t)}
           least == CHOOSE limit \in limits : \A other \in limits : limit <= other
<1>1. Single(s, "timer") /\ s.conditions_[1].i_rhs_ \in Nat
  BY DEF IdleText
<1>2. limits \in SUBSET Nat /\ s.conditions_[1].i_rhs_ \in limits
  BY DEF IdleText
<1>3. IdleLimit(f, t) = least
  BY DEF IdleLimit
<1> HIDE DEF limits
<1>4. \E limit \in limits : \A other \in limits : limit <= other
  BY <1>2, SmallestNat
<1>5. least \in limits /\ \A other \in limits : least <= other
  BY <1>4
<1> QED
  BY <1>1, <1>2, <1>3, <1>5

(* An idle text is said only when the timer its script sees is past its limit,
   and that script is none that runs on every move. *)
LEMMA SaysIdle ==
  ASSUME MapInv, LeadInv, step_ = "done", NEW cube \in OnMap, NEW st, StorageOK(st), NEW moving,
         NEW said \in RunScripts(cube, st, moving).says,
         IdleText(areas_[said.text[1]], said.text[2])
  PROVE  /\ areas_[said.text[1]] = cube[1]
         /\ IdleLimit(cube[1], said.text[2]) \in Nat
         /\ \E i \in DOMAIN scripts_[cube[1]] :
              /\ scripts_[cube[1]][i].condition_type_ = "and"
              /\ SeenBy(cube, st, moving, i).age > IdleLimit(cube[1], said.text[2])
<1>0. PICK i \in DOMAIN scripts_[cube[1]] : \E j :
        LET actions == Handle(scripts_[cube[1]][i], SeenBy(cube, st, moving, i), moving)
        IN /\ j \in DOMAIN actions /\ IsText(actions[j])
           /\ said = [moving |-> moving, place |-> <<i, j>>,
                      text |-> <<AreaOf(cube).id, actions[j].i_rhs_>>]
  BY SaysOf
<1>1. PICK j :
        LET actions == Handle(scripts_[cube[1]][i], SeenBy(cube, st, moving, i), moving)
        IN /\ j \in DOMAIN actions /\ IsText(actions[j])
           /\ said = [moving |-> moving, place |-> <<i, j>>,
                      text |-> <<AreaOf(cube).id, actions[j].i_rhs_>>]
  BY <1>0
<1> DEFINE script == scripts_[cube[1]][i]
           sees == SeenBy(cube, st, moving, i)
           t == said.text[2]
<1>2. j \in DOMAIN Handle(script, sees, moving) /\ Handle(script, sees, moving) = script.p_actions_move_
  BY <1>1, HandleIs
<1>3. /\ j \in DOMAIN script.p_actions_move_ /\ IsText(script.p_actions_move_[j])
      /\ said.text = <<AreaOf(cube).id, script.p_actions_move_[j].i_rhs_>>
  BY <1>1, <1>2
<1>4. said.text[1] = AreaOf(cube).id /\ t = script.p_actions_move_[j].i_rhs_
  BY <1>3
<1>5. areas_[said.text[1]] = cube[1]
  BY <1>4, OwnArea
<1>6. <<i, j>> \in Places(cube[1], t)
  BY <1>3, <1>4, PlaceOf
<1>7. script \in Sayers(cube[1], t)
  <2>1. <<i, j>>[1] = i
    OBVIOUS
  <2> QED
    BY <1>6, <2>1 DEF Sayers
<1> HIDE DEF t
<1>8. IdleText(cube[1], t)
  BY <1>5 DEF t
<1>9. /\ Single(script, "timer") /\ script.conditions_[1].i_rhs_ \in Nat
      /\ IdleLimit(cube[1], t) \in Nat /\ IdleLimit(cube[1], t) <= script.conditions_[1].i_rhs_
  BY <1>7, <1>8, IdleLimitIs
<1>10. sees.age > script.conditions_[1].i_rhs_
  BY <1>2, <1>9, TimerSays
<1>11. sees.age \in Nat
  <2>1. sees \in {st, reset_timer(st)}
    BY DEF SeenBy, Seen
  <2> QED
    BY <2>1, ResetTimer DEF StorageOK
<1>12. script.condition_type_ = "and"
  BY <1>9 DEF Single
<1>13. sees.age > IdleLimit(cube[1], t)
  BY <1>9, <1>10, <1>11
<1> QED
  BY <1>5, <1>9, <1>12, <1>13 DEF t

(* The first script of such an area resets the timer on every move. *)
LEMMA FirstResets ==
  ASSUME NEW cube, ResetsFirst(cube[1]), NEW st, StorageOK(st), NEW moving, moving
  PROVE  \E i \in DOMAIN scripts_[cube[1]] :
           /\ \A k \in DOMAIN scripts_[cube[1]] : i <= k
           /\ scripts_[cube[1]][i].condition_type_ = "or"
           /\ ResetsIn(cube, st, moving, i)
<1>1. PICK i \in DOMAIN scripts_[cube[1]] :
        LET first == scripts_[cube[1]][i]
            zeros == {c \in DOMAIN first.conditions_ : /\ first.conditions_[c].variable_type_ = "move_count"
                                                       /\ first.conditions_[c].i_rhs_ = 0}
        IN /\ \A k \in DOMAIN scripts_[cube[1]] : i <= k
           /\ first.condition_type_ = "or"
           /\ {"equal", "greater"} \subseteq {first.conditions_[c].condition_type_ : c \in zeros}
           /\ 1 \in DOMAIN first.p_actions_move_ /\ first.p_actions_move_[1].action_type_ = "reset_timer"
  BY DEF ResetsFirst
<1> DEFINE first == scripts_[cube[1]][i]
           count == move_count(st, st.areaid_)
<1>2. /\ \E c \in DOMAIN first.conditions_ : /\ first.conditions_[c].variable_type_ = "move_count"
                                             /\ first.conditions_[c].i_rhs_ = 0
                                             /\ first.conditions_[c].condition_type_ = "equal"
      /\ \E c \in DOMAIN first.conditions_ : /\ first.conditions_[c].variable_type_ = "move_count"
                                             /\ first.conditions_[c].i_rhs_ = 0
                                             /\ first.conditions_[c].condition_type_ = "greater"
  BY <1>1
<1>3. count \in Nat
  BY MoveCountNat
<1>4. \E c \in DOMAIN first.conditions_ : IsTrue(first.conditions_[c], st, moving)
  <2>1. CASE count = 0
    <3>1. PICK c \in DOMAIN first.conditions_ : /\ first.conditions_[c].variable_type_ = "move_count"
                                                /\ first.conditions_[c].i_rhs_ = 0
                                                /\ first.conditions_[c].condition_type_ = "equal"
      BY <1>2
    <3>2. IsTrueMoveCount(first.conditions_[c], st)
      BY <2>1, <3>1 DEF IsTrueMoveCount
    <3> QED
      BY <3>1, <3>2 DEF IsTrue
  <2>2. CASE count > 0
    <3>1. PICK c \in DOMAIN first.conditions_ : /\ first.conditions_[c].variable_type_ = "move_count"
                                                /\ first.conditions_[c].i_rhs_ = 0
                                                /\ first.conditions_[c].condition_type_ = "greater"
      BY <1>2
    <3>2. IsTrueMoveCount(first.conditions_[c], st)
      BY <2>2, <3>1 DEF IsTrueMoveCount
    <3> QED
      BY <3>1, <3>2 DEF IsTrue
  <2>3. count = 0 \/ count > 0
    BY <1>3
  <2> QED
    BY <2>1, <2>2, <2>3
<1>5. Handle(first, st, moving) = first.p_actions_move_
  BY <1>1, <1>4 DEF Handle
<1>6. 1 \in Performed(first.p_actions_move_, StringTable(AreaOf(cube)))
  <2>1. ~IsText(first.p_actions_move_[1])
    BY <1>1 DEF IsText
  <2>2. \A k \in 1 .. 1 : k = 1
    OBVIOUS
  <2> QED
    BY <1>1, <2>1, <2>2 DEF Performed
<1>7. ResetsIn(cube, st, moving, i)
  BY <1>1, <1>5, <1>6 DEF ResetsIn
<1> QED
  BY <1>1, <1>7

QuietStep ==
  \A said \in said_' :
    LET file == areas_[said.text[1]]
    IN ResetsFirst(file) /\ IdleText(file, said.text[2])
       => center_' = center_ /\ quiet_ > IdleLimit(file, said.text[2])

(* Who stays is told when the timer is past the limit. *)
LEMMA StillQuiet ==
  ASSUME MapInv, LeadInv, TextsInv, IdleInv, step_ = "done", center_ \in OnMap, UNCHANGED loadVars,
         center_' = center_, NEW stay, NEW run, run = RunScripts(center_, storage_, stay), Ran(run),
         quiet_' = IF run.st.age < storage_.age THEN 0 ELSE quiet_
  PROVE  IdleInv' /\ QuietStep
<1>1. center_ # NoCube /\ StorageOK(storage_)
  BY OwnArea DEF TextsInv
<1>2. run.st \in {storage_, reset_timer(storage_)}
  BY <1>1, RunKeepsStorage
<1>3. storage_.age \in Nat /\ reset_timer(storage_).age = 0
  BY <1>1, ResetTimer DEF StorageOK
<1>4. storage_' = run.st /\ said_' = run.says
  BY DEF Ran
<1>5. IdleInv'
  <2>1. ResetsFirst(center_[1])' <=> ResetsFirst(center_[1])
    BY ClientStays DEF ResetsFirst
  <2>2. ASSUME ResetsFirst(center_[1]) PROVE quiet_' = storage_'.age
    <3>1. quiet_ = storage_.age
      BY <1>1, <2>2 DEF IdleInv
    <3>2. CASE run.st = storage_
      BY <1>3, <1>4, <3>1, <3>2
    <3>3. CASE run.st = reset_timer(storage_)
      <4>1. run.st.age = 0
        BY <1>3, <3>3
      <4> QED
        BY <1>3, <1>4, <3>1, <4>1
    <3> QED
      BY <1>2, <3>2, <3>3
  <2> QED
    BY <1>1, <2>1, <2>2 DEF IdleInv
<1>6. ASSUME NEW said \in said_', ResetsFirst(areas_[said.text[1]]),
             IdleText(areas_[said.text[1]], said.text[2])
      PROVE  quiet_ > IdleLimit(areas_[said.text[1]], said.text[2])
  <2>1. said \in RunScripts(center_, storage_, stay).says
    BY <1>4
  <2>2. /\ areas_[said.text[1]] = center_[1]
        /\ IdleLimit(center_[1], said.text[2]) \in Nat
        /\ \E i \in DOMAIN scripts_[center_[1]] :
             /\ scripts_[center_[1]][i].condition_type_ = "and"
             /\ SeenBy(center_, storage_, stay, i).age > IdleLimit(center_[1], said.text[2])
    BY <1>1, <1>6, <2>1, SaysIdle
  <2>3. PICK i \in DOMAIN scripts_[center_[1]] :
          SeenBy(center_, storage_, stay, i).age > IdleLimit(center_[1], said.text[2])
    BY <2>2
  <2>4. SeenBy(center_, storage_, stay, i) \in {storage_, reset_timer(storage_)}
    BY DEF SeenBy, Seen
  <2>5. storage_.age > IdleLimit(center_[1], said.text[2])
    BY <1>3, <2>2, <2>3, <2>4
  <2>6. quiet_ = storage_.age
    BY <1>1, <1>6, <2>2 DEF IdleInv
  <2> QED
    BY <2>2, <2>5, <2>6
<1>7. QuietStep
  BY <1>6 DEF QuietStep
<1> QED
  BY <1>5, <1>7

(* Scripts that run on a move reset the timer before an idle text is due ... *)
LEMMA MoveSaysNoIdle ==
  ASSUME MapInv, LeadInv, ScriptsRead, step_ = "done", NEW cube \in OnMap, ResetsFirst(cube[1]),
         NEW st, StorageOK(st), NEW go, go
  PROVE  /\ RunScripts(cube, st, go).st = reset_timer(st)
         /\ \A said \in RunScripts(cube, st, go).says : ~IdleText(areas_[said.text[1]], said.text[2])
<1>1. PICK first \in DOMAIN scripts_[cube[1]] :
        /\ \A k \in DOMAIN scripts_[cube[1]] : first <= k
        /\ scripts_[cube[1]][first].condition_type_ = "or"
        /\ ResetsIn(cube, st, go, first)
  BY FirstResets
<1>2. RunScripts(cube, st, go).st = reset_timer(st)
  BY <1>1, RunStorage
<1>3. ASSUME NEW said \in RunScripts(cube, st, go).says, IdleText(areas_[said.text[1]], said.text[2])
      PROVE  FALSE
  <2> DEFINE limit == IdleLimit(cube[1], said.text[2])
  <2>1. /\ limit \in Nat
        /\ \E i \in DOMAIN scripts_[cube[1]] :
             /\ scripts_[cube[1]][i].condition_type_ = "and"
             /\ SeenBy(cube, st, go, i).age > limit
    BY <1>3, SaysIdle
  <2> HIDE DEF limit
  <2>2. PICK i \in DOMAIN scripts_[cube[1]] :
          /\ scripts_[cube[1]][i].condition_type_ = "and"
          /\ SeenBy(cube, st, go, i).age > limit
    BY <2>1
  <2>3. i \in Nat /\ first \in Nat /\ i # first
    <3>1. cube[1] \in DOMAIN area_cubes_
      BY OwnArea
    <3> QED
      BY <1>1, <2>2, <3>1 DEF ScriptsRead
  <2>4. first < i
    BY <1>1, <2>3
  <2>5. SeenBy(cube, st, go, i) = reset_timer(st)
    BY <1>1, <2>4 DEF SeenBy, Seen
  <2>6. SeenBy(cube, st, go, i).age = 0
    BY <2>5, ResetTimer
  <2>7. 0 > limit /\ limit \in Nat
    BY <2>1, <2>2, <2>6
  <2> QED
    BY <2>7
<1> QED
  BY <1>2, <1>3

(* ... and no script says one while the timer is zero. *)
LEMMA ZeroSaysNoIdle ==
  ASSUME MapInv, LeadInv, step_ = "done", NEW cube \in OnMap, NEW st, StorageOK(st), st.age = 0, NEW moving
  PROVE  \A said \in RunScripts(cube, st, moving).says : ~IdleText(areas_[said.text[1]], said.text[2])
<1> SUFFICES ASSUME NEW said \in RunScripts(cube, st, moving).says,
                    IdleText(areas_[said.text[1]], said.text[2])
             PROVE  FALSE
  OBVIOUS
<1> DEFINE limit == IdleLimit(cube[1], said.text[2])
<1>1. limit \in Nat /\ \E i \in DOMAIN scripts_[cube[1]] : SeenBy(cube, st, moving, i).age > limit
  BY SaysIdle
<1> HIDE DEF limit
<1>2. PICK i \in DOMAIN scripts_[cube[1]] : SeenBy(cube, st, moving, i).age > limit
  BY <1>1
<1>3. SeenBy(cube, st, moving, i) \in {st, reset_timer(st)}
  BY DEF SeenBy, Seen
<1>4. SeenBy(cube, st, moving, i).age = 0
  BY <1>3, ResetTimer
<1> QED
  BY <1>1, <1>2, <1>4

(* The scripts of a cube speak for the area of its file. *)
LEMMA SaysForArea ==
  ASSUME MapInv, LeadInv, step_ = "done", NEW cube \in OnMap, NEW st, NEW moving,
         NEW said \in RunScripts(cube, st, moving).says
  PROVE  areas_[said.text[1]] = cube[1]
<1>1. said.text[1] = AreaOf(cube).id
  <2>1. PICK i \in DOMAIN scripts_[cube[1]] : \E j :
          LET actions == Handle(scripts_[cube[1]][i], SeenBy(cube, st, moving, i), moving)
          IN said = [moving |-> moving, place |-> <<i, j>>, text |-> <<AreaOf(cube).id, actions[j].i_rhs_>>]
    BY SaysOf
  <2> QED
    BY <2>1
<1> QED
  BY <1>1, OwnArea

(* Who comes in is not told. *)
LEMMA ArriveQuiet ==
  ASSUME MapInv, LeadInv, ScriptsRead, TextsInv, step_ = "done", UNCHANGED loadVars,
         NEW dest \in OnMap, center_' = dest, NEW go, go, NEW stay,
         NEW arrived, NEW refreshed, NEW run, Ran(run),
         arrived = RunScripts(dest, Moved(dest), go),
         refreshed = RunScripts(dest, arrived.st, stay),
         run.says \subseteq arrived.says \cup refreshed.says,
         run.st \in {arrived.st, refreshed.st}, quiet_' = 0
  PROVE  IdleInv' /\ QuietStep
<1>1. StorageOK(Moved(dest)) /\ dest # NoCube
  BY MovedIs, OwnArea DEF TextsInv
<1>2. ASSUME ResetsFirst(dest[1])
      PROVE  run.st.age = 0 /\ \A said \in run.says : ~IdleText(areas_[said.text[1]], said.text[2])
  <2> DEFINE st == reset_timer(Moved(dest))
  <2>1. /\ arrived.st = st
        /\ \A said \in arrived.says : ~IdleText(areas_[said.text[1]], said.text[2])
    BY <1>1, <1>2, MoveSaysNoIdle
  <2>2. StorageOK(st) /\ st.age = 0 /\ reset_timer(st).age = 0
    <3>1. StorageOK(st) /\ st.age = 0
      BY <1>1, ResetTimer
    <3> HIDE DEF st
    <3>2. reset_timer(st).age = 0
      BY <3>1, ResetTimer
    <3> QED
      BY <3>1, <3>2
  <2> HIDE DEF st
  <2>3. refreshed = RunScripts(dest, st, stay)
    BY <2>1
  <2>4. refreshed.st \in {st, reset_timer(st)}
    BY <2>2, <2>3, RunKeepsStorage
  <2>5. \A said \in refreshed.says : ~IdleText(areas_[said.text[1]], said.text[2])
    BY <2>2, <2>3, ZeroSaysNoIdle
  <2>6. run.st.age = 0
    BY <2>1, <2>2, <2>4
  <2> QED
    BY <2>1, <2>5, <2>6
<1>3. storage_' = run.st /\ said_' = run.says
  BY DEF Ran
<1>4. IdleInv'
  <2>1. ResetsFirst(center_[1])' <=> ResetsFirst(dest[1])
    BY ClientStays DEF ResetsFirst
  <2> QED
    BY <1>1, <1>2, <1>3, <2>1 DEF IdleInv
<1>5. \A said \in run.says : areas_[said.text[1]] = dest[1]
  <2>1. \A said \in RunScripts(dest, Moved(dest), go).says : areas_[said.text[1]] = dest[1]
    BY SaysForArea
  <2> DEFINE st == arrived.st
  <2>2. \A said \in RunScripts(dest, st, stay).says : areas_[said.text[1]] = dest[1]
    <3> HIDE DEF st
    <3> QED
      BY SaysForArea
  <2>3. \A said \in arrived.says : areas_[said.text[1]] = dest[1]
    BY <2>1
  <2>4. \A said \in refreshed.says : areas_[said.text[1]] = dest[1]
    BY <2>2
  <2> QED
    BY <2>3, <2>4
<1>6. ASSUME NEW said \in said_', ResetsFirst(areas_[said.text[1]])
      PROVE  ~IdleText(areas_[said.text[1]], said.text[2])
  <2>1. ResetsFirst(dest[1])
    BY <1>3, <1>5, <1>6
  <2> QED
    BY <1>2, <1>3, <2>1
<1>7. QuietStep
  BY <1>6 DEF QuietStep
<1> QED
  BY <1>4, <1>7

(* Neither keys nor loading nor time say anything. *)
LEMMA SilentQuiet ==
  ASSUME TextsInv, IdleInv, UNCHANGED center_, said_' = {}, UNCHANGED loadVars \/ center_ = NoCube,
         \/ UNCHANGED <<storage_, quiet_>>
         \/ /\ storage_' = [storage_ EXCEPT !.age = IF @ < LongAgo THEN @ + 1 ELSE @]
            /\ quiet_' = IF quiet_ < LongAgo THEN quiet_ + 1 ELSE quiet_
  PROVE  IdleInv' /\ QuietStep
<1>1. QuietStep
  BY DEF QuietStep
<1>2. quiet_ = storage_.age => quiet_' = storage_'.age
  <2>1. CASE UNCHANGED <<storage_, quiet_>>
    BY <2>1
  <2>2. CASE /\ storage_' = [storage_ EXCEPT !.age = IF @ < LongAgo THEN @ + 1 ELSE @]
             /\ quiet_' = IF quiet_ < LongAgo THEN quiet_ + 1 ELSE quiet_
    <3>1. storage_'.age = IF storage_.age < LongAgo THEN storage_.age + 1 ELSE storage_.age
      BY <2>2 DEF TextsInv, StorageOK
    <3> QED
      BY <2>2, <3>1
  <2> QED
    BY <2>1, <2>2
<1>3. IdleInv'
  <2>1. CASE center_ = NoCube
    BY <2>1 DEF IdleInv
  <2>2. CASE center_ # NoCube /\ UNCHANGED loadVars
    <3>1. ResetsFirst(center_[1])' <=> ResetsFirst(center_[1])
      BY <2>2, ClientStays DEF ResetsFirst
    <3> QED
      BY <1>2, <2>2, <3>1 DEF IdleInv
  <2> QED
    BY <2>1, <2>2
<1> QED
  BY <1>1, <1>3

-----------------------------------------------------------------------------
(* All steps                                                               *)

SaysInv == ScriptsRead /\ TextsInv /\ IdleInv

LEMMA SaysInit == ClientInit => SaysInv
<1> SUFFICES ASSUME ClientInit PROVE SaysInv
  OBVIOUS
<1>1. /\ DOMAIN area_cubes_ = {} /\ center_ = NoCube /\ said_ = {} /\ told_ = Nothing
      /\ storage_ = NewStorage(LongAgo)
  BY NothingIs DEF ClientInit, WorldMapInit
<1>2. StorageOK(storage_)
  BY <1>1, NothingIs, LongAgoAssumption DEF StorageOK, NewStorage
<1>3. \A text \in DOMAIN told_ : ToldOK(text, told_[text], storage_)
  BY <1>1, NothingIs
<1> QED
  BY <1>1, <1>2, <1>3 DEF SaysInv, ScriptsRead, TextsInv, IdleInv

(* A move that is at the front of the queue leads onto the map. *)
LEMMA HeadOnMap ==
  ASSUME CarriedInv, animation_ # <<>>, Head(animation_) # "rotate"
  PROVE  Head(animation_) \in OnMap
<1>1. animation_ # <<"rotate">> /\ \A cube \in Near : animation_ # <<"rotate", cube, "rotate">>
  OBVIOUS
<1>2. PICK cube \in Near : animation_ = <<cube>> \/ animation_ = <<cube, "rotate">>
  BY <1>1 DEF CarriedInv
<1> QED
  BY <1>2 DEF Near

(* Drawing where the player stays. *)
LEMMA StillSays ==
  ASSUME MapInv, LeadInv, TextsInv, IdleInv, step_ = "done", center_ \in OnMap, UNCHANGED loadVars,
         center_' = center_, NEW run, run = RunScripts(center_, storage_, FALSE), Ran(run),
         quiet_' = IF run.st.age < storage_.age THEN 0 ELSE quiet_
  PROVE  TextsInv' /\ IdleInv' /\ QuietStep
<1>1. TextsInv'
  BY StillTexts
<1> DEFINE stay == FALSE
<1>2. run = RunScripts(center_, storage_, stay)
  OBVIOUS
<1> HIDE DEF stay
<1>3. IdleInv' /\ QuietStep
  BY <1>2, StillQuiet
<1> QED
  BY <1>1, <1>3

(* Arriving. *)
LEMMA ArriveSays ==
  ASSUME MapInv, LeadInv, ScriptsRead, TextsInv, step_ = "done", UNCHANGED loadVars,
         NEW dest \in OnMap, center_' = dest, NEW arrived, NEW refreshed, NEW run, Ran(run),
         arrived = RunScripts(dest, Moved(dest), TRUE),
         refreshed = RunScripts(dest, arrived.st, FALSE),
         run.says \subseteq arrived.says \cup refreshed.says,
         run.st \in {arrived.st, refreshed.st}, quiet_' = 0
  PROVE  TextsInv' /\ IdleInv' /\ QuietStep
<1>1. TextsInv'
  BY ArriveTexts
<1> DEFINE go == TRUE
           stay == FALSE
<1>2. arrived = RunScripts(dest, Moved(dest), go) /\ refreshed = RunScripts(dest, arrived.st, stay) /\ go
  OBVIOUS
<1> HIDE DEF go, stay
<1>3. IdleInv' /\ QuietStep
  BY <1>2, ArriveQuiet
<1> QED
  BY <1>1, <1>3

LEMMA StartSays ==
  ASSUME MapInv, LeadInv, CenterInv, SaysInv, Start
  PROVE  TextsInv' /\ IdleInv' /\ QuietStep
<1> DEFINE dest == cubes_[reborn_]
           arrived == RunScripts(dest, Moved(dest), TRUE)
           refreshed == RunScripts(dest, arrived.st, FALSE)
<1>1. step_ = "done" /\ UNCHANGED loadVars
  BY DEF Start, Made, CenterInv
<1>2. dest \in OnMap
  BY <1>1 DEF MapInv, WorldMapTypeOK, MapOK, OnMap
<1>3. center_' = dest /\ Ran(arrived) /\ quiet_' = 0
  BY DEF Start, SetCenterCube
<1> HIDE DEF dest
<1>4. /\ arrived = RunScripts(dest, Moved(dest), TRUE)
      /\ refreshed = RunScripts(dest, arrived.st, FALSE)
      /\ arrived.says \subseteq arrived.says \cup refreshed.says
      /\ arrived.st \in {arrived.st, refreshed.st}
  OBVIOUS
<1> HIDE DEF arrived, refreshed
<1> QED
  BY <1>1, <1>2, <1>3, <1>4, ArriveSays DEF SaysInv

LEMMA FinishSays ==
  ASSUME MapInv, LeadInv, CenterInv, CarriedInv, SaysInv, NEW rolling, FinishAnimation(rolling)
  PROVE  TextsInv' /\ IdleInv' /\ QuietStep
<1>1. step_ = "done" /\ animation_ # <<>> /\ UNCHANGED loadVars /\ center_ \in OnMap
  BY DEF FinishAnimation, Playing, CenterInv
<1>2. CASE Head(animation_) = "rotate"
  <2>1. /\ Ran(RunScripts(center_, storage_, FALSE)) /\ center_' = center_
        /\ quiet_' = IF RunScripts(center_, storage_, FALSE).st.age < storage_.age THEN 0 ELSE quiet_
    BY <1>2 DEF FinishAnimation
  <2> QED
    BY <1>1, <2>1, StillSays DEF SaysInv
<1>3. CASE Head(animation_) # "rotate"
  <2> DEFINE dest == Head(animation_)
             arrived == RunScripts(dest, Moved(dest), TRUE)
             refreshed == RunScripts(dest, arrived.st, FALSE)
             run == [st |-> refreshed.st,
                     says |-> arrived.says \cup IF ExitsBlind(dest) THEN {} ELSE refreshed.says]
  <2>1. dest \in OnMap
    BY <1>1, <1>3, HeadOnMap
  <2>2. center_' = dest /\ Ran(run) /\ quiet_' = 0
    BY <1>3 DEF FinishAnimation, SetCenterCube
  <2> HIDE DEF dest
  <2>3. arrived = RunScripts(dest, Moved(dest), TRUE) /\ refreshed = RunScripts(dest, arrived.st, FALSE)
    OBVIOUS
  <2> HIDE DEF arrived, refreshed
  <2>4. run.says \subseteq arrived.says \cup refreshed.says /\ run.st \in {arrived.st, refreshed.st}
    OBVIOUS
  <2> HIDE DEF run
  <2> QED
    BY <1>1, <2>1, <2>2, <2>3, <2>4, ArriveSays DEF SaysInv
<1> QED
  BY <1>2, <1>3

LEMMA QuietSays ==
  ASSUME MapInv, CenterInv, SaysInv, Load \/ StartNull \/ Press \/ Tick \/ UNCHANGED playVars
  PROVE  TextsInv' /\ IdleInv' /\ [QuietStep]_playVars
<1>1. CASE UNCHANGED playVars
  <2>1. UNCHANGED loadVars /\ UNCHANGED <<center_, storage_, said_, told_, quiet_>>
    BY <1>1 DEF playVars, clientVars
  <2>2. TextsInv'
    BY <2>1, SilentTexts DEF SaysInv
  <2>3. ResetsFirst(center_[1])' <=> ResetsFirst(center_[1])
    BY <2>1, ClientStays DEF ResetsFirst
  <2>4. IdleInv'
    BY <2>1, <2>3 DEF SaysInv, IdleInv
  <2> QED
    BY <1>1, <2>2, <2>4
<1>2. CASE Load /\ center_ # NoCube
  <2>1. UNCHANGED playVars
    BY <1>2, LoadedStays DEF Load, CenterInv, playVars
  <2> QED
    BY <1>1, <2>1
<1>3. CASE Load /\ center_ = NoCube
  <2>1. UNCHANGED <<center_, storage_, said_, told_, quiet_>>
    BY <1>3 DEF Load, clientVars
  <2>2. said_' = {}
    BY <1>3, <2>1 DEF SaysInv, IdleInv
  <2> QED
    BY <1>3, <2>1, <2>2, SilentTexts, SilentQuiet DEF SaysInv
<1>6. CASE StartNull
  <2>1. UNCHANGED loadVars /\ UNCHANGED <<center_, storage_, said_, told_, quiet_>> /\ center_ = NoCube
    BY <1>6 DEF StartNull, Made
  <2>2. said_' = {}
    BY <2>1 DEF SaysInv, IdleInv
  <2> QED
    BY <2>1, <2>2, SilentTexts, SilentQuiet DEF SaysInv
<1>4. CASE Press
  <2>1. UNCHANGED loadVars /\ said_' = {} /\ UNCHANGED <<center_, storage_, told_, quiet_>>
    BY <1>4 DEF Press, KeyPress
  <2> QED
    BY <2>1, SilentTexts, SilentQuiet DEF SaysInv
<1>5. CASE Tick
  <2>1. /\ UNCHANGED loadVars /\ said_' = {} /\ UNCHANGED <<center_, told_>>
        /\ storage_' = [storage_ EXCEPT !.age = IF @ < LongAgo THEN @ + 1 ELSE @]
        /\ quiet_' = IF quiet_ < LongAgo THEN quiet_ + 1 ELSE quiet_
    BY <1>5 DEF Tick
  <2> QED
    BY <2>1, SilentTexts, SilentQuiet DEF SaysInv
<1> QED
  BY <1>1, <1>2, <1>3, <1>4, <1>5, <1>6

LEMMA NextSays ==
  MapInv /\ LeadInv /\ CenterInv /\ CarriedInv /\ SaysInv /\ [ClientNext]_playVars
  => SaysInv' /\ [QuietStep]_playVars
<1> SUFFICES ASSUME MapInv, LeadInv, CenterInv, CarriedInv, SaysInv, [ClientNext]_playVars
             PROVE  SaysInv' /\ [QuietStep]_playVars
  OBVIOUS
<1>1. ScriptsRead'
  BY ClientLoads, NextScripts DEF SaysInv
<1>2. CASE Load \/ StartNull \/ Press \/ Tick \/ UNCHANGED playVars
  BY <1>1, <1>2, QuietSays DEF SaysInv
<1>3. CASE Start
  BY <1>1, <1>3, StartSays DEF SaysInv
<1>4. CASE DrawFrame
  <2>1. /\ step_ = "done" /\ center_ \in OnMap /\ UNCHANGED loadVars /\ center_' = center_
        /\ Ran(RunScripts(center_, storage_, FALSE))
        /\ quiet_' = IF RunScripts(center_, storage_, FALSE).st.age < storage_.age THEN 0 ELSE quiet_
    BY <1>4 DEF DrawFrame, Playing, CenterInv
  <2>2. TextsInv' /\ IdleInv' /\ QuietStep
    BY <2>1, StillSays DEF SaysInv
  <2> QED
    BY <1>1, <2>2 DEF SaysInv
<1>5. CASE Finish
  BY <1>1, <1>5, FinishSays DEF Finish, SaysInv
<1> QED
  BY <1>2, <1>3, <1>4, <1>5 DEF ClientNext

(* For all files and scripts, and however often the player comes back, waits
   and is drawn: a text for the n-th move in an area is said once in a game
   (DrawClass.cpp:588, 335; script.cpp:427). *)
THEOREM TextsSaidOnce == ClientSpec => []TextsOnce
<1>1. ClientSpec => ClientInit /\ [][ClientNext]_playVars
  BY PTL DEF ClientSpec
<1>2. SaysInv => TextsOnce
  BY DEF SaysInv, TextsInv, ToldOK, TextsOnce
<1> QED
  BY <1>1, <1>2, SaysInit, NextSays, ClientAlways, PTL

(* For all files and scripts: where the first script resets the timer on every
   move, an idle text is said only to who has stayed that long; one timer for
   all areas is enough (storage.cpp, DrawClass.cpp:588, 335). *)
THEOREM IdleTextsQuiet == ClientSpec => IdleQuiet
<1>1. ClientSpec => ClientInit /\ [][ClientNext]_playVars
  BY PTL DEF ClientSpec
<1>2. ClientSpec => [][QuietStep]_playVars
  BY <1>1, SaysInit, NextSays, ClientAlways, PTL
<1> QED
  BY <1>2, PTL DEF IdleQuiet, QuietStep

=============================================================================
