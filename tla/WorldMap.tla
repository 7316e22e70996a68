------------------------------ MODULE WorldMap ------------------------------
(***************************************************************************)
(* WorldMap::load_external_data_file with everything it calls: the         *)
(* constructor of Area, Area::getmark, StringTable, Interactive, Mob.      *)
(* One thread reads the files; a step is one entry of a list in them.      *)
(*                                                                         *)
(* An input is what the files say: config, the areas _global.json lists,   *)
(* each [id, json]; reborn; links, those of _global.json; flaw, what is    *)
(* wrong with _global.json itself, if anything.  An area file that cannot  *)
(* be opened or parsed is one without fields: both are refused.            *)
(***************************************************************************)
EXTENDS MapLinks, Script

CONSTANTS Inputs,         \* the inputs to load
          Garbage,        \* what an uninitialised attr may hold
          AtMark,         \* the marks that contain '@'
          IntSize,        \* values of an int, which places are cast to
          MaxAreaId,      \* the largest int: areas are told apart by ints
          MAX_MOB_COUNT_IN_AREA

ASSUME WorldMapAssumption == Garbage \subseteq Nat /\ Garbage # {} /\ MAX_MOB_COUNT_IN_AREA \in Nat

AreaId == -MaxAreaId .. MaxAreaId

Triple == [1 .. 3 -> Int]

IsList(list) == Len(list) \in Nat /\ DOMAIN list = 1 .. Len(list)

(* The types of the fields whose type the loader looks at. *)
AreaShape(json) ==
  /\ Has(json, "id") => json.id \in AreaId
  /\ Has(json, "offset") => json.offset \in Triple
  /\ \A field \in {"cubes", "links", "mobs", "scripts"} : Has(json, field) => IsList(json[field])
  /\ Has(json, "cubes") =>
       \A i \in DOMAIN json["cubes"] : Has(json["cubes"][i], "loc") => json["cubes"][i].loc \in Triple

ASSUME InputsAssumption ==
  /\ MaxAreaId \in Nat /\ IntSize \in Nat \ {0}
  /\ \A input \in Inputs :
       /\ IsList(input.config) /\ IsList(input.links)
       /\ {"config", "links"} \subseteq DOMAIN input
       /\ \A i \in DOMAIN input.config : input.config[i].id \in AreaId /\ AreaShape(input.config[i].json)

VARIABLES
  input_,      \* the files
  step_,       \* what is read next
  left_,       \* area_files: ids of the areas still to be read
  file_,       \* the one being read
  at_,         \* the next entry of the list being read
  markmap_,    \* Area::Area's marks: name -> position
  marks_,      \* the marks of all areas: <<area id, name>> -> cube
  areas_,      \* area id -> file
  area_cubes_, \* file -> positions of Area::cubes_
  exits_,      \* cube -> exits_
  adjacent_,   \* cube -> directions set in adjacent_cubes_
  cubes_,      \* position -> cube
  reborn_,     \* position, or NoCube
  scripts_,    \* file -> scripts_, each under its place in the file
  mobs_        \* mob id -> [id, name]

areaVars == <<left_, file_, areas_, area_cubes_>>
mapVars == <<cubes_, adjacent_, reborn_>>
loadVars == <<input_, step_, at_, markmap_, marks_, exits_, scripts_, mobs_, areaVars, mapVars>>

Nothing == [x \in {} |-> 0]

(* f with key added, or with what it has for key replaced. *)
With(f, key, value) == [k \in DOMAIN f \cup {key} |-> IF k = key THEN value ELSE f[k]]

(* std::map::insert: what is there stays. *)
Insert(f, key, value) == IF key \in DOMAIN f THEN f ELSE With(f, key, value)

FileOf(id) == input_.config[CHOOSE i \in DOMAIN input_.config : input_.config[i].id = id].json

Json == FileOf(file_)

List(field) == IF Has(Json, field) THEN Json[field] ELSE <<>>

(* The entry of the list that is read in this step. *)
Entry(field) == Json[field][at_]

WorldMapInit ==
  /\ input_ \in Inputs
  /\ step_ = "config"
  /\ left_ = {} /\ file_ = 0 /\ at_ = 1
  /\ markmap_ = Nothing /\ marks_ = Nothing /\ areas_ = Nothing /\ area_cubes_ = Nothing
  /\ exits_ = Nothing /\ adjacent_ = Nothing /\ cubes_ = Nothing
  /\ reborn_ = NoCube
  /\ scripts_ = Nothing /\ mobs_ = Nothing

-----------------------------------------------------------------------------
(* The list of areas in _global.json                                       *)

Stop(how) ==
  /\ step_' = how
  /\ UNCHANGED <<input_, at_, markmap_, marks_, exits_, scripts_, mobs_, areaVars, mapVars>>

(* load_external_data_file returns false. *)
Fail == Stop("failed")

(* It uses a null pointer. *)
Crash == Stop("crashed")

(* Go on with the smallest id left: std::map's order. *)
TakeArea(ids) ==
  IF ids = {}
  THEN step_' = "shortcut" /\ left_' = {} /\ file_' = file_
  ELSE /\ step_' = "head"
       /\ file_' = CHOOSE id \in ids : \A other \in ids : id <= other
       /\ left_' = ids \ {file_'}

ConfigIds == {input_.config[i].id : i \in DOMAIN input_.config}

Flawed(flaws) == Has(input_, "flaw") /\ input_.flaw \in flaws

(* Refused: the file cannot be opened or parsed, its stamp is empty, an entry
   of its list lacks a field, or ids are missing, 0 or there twice. *)
ConfigRefused ==
  \/ Flawed({"unreadable", "empty stamp", "bad entry"})
  \/ ConfigIds = {} \/ 0 \in ConfigIds \/ Cardinality(ConfigIds) # Len(input_.config)

(* A file without "stamp" or "area" is not survived. *)
ReadConfig ==
  /\ step_ = "config"
  /\ CASE Flawed({"no stamp", "no area"}) -> Crash
       [] ~Flawed({"no stamp", "no area"}) /\ ConfigRefused -> Fail
       [] OTHER -> /\ TakeArea(ConfigIds)
                   /\ UNCHANGED <<input_, at_, markmap_, marks_, exits_, scripts_, mobs_,
                                  areas_, area_cubes_, mapVars>>

-----------------------------------------------------------------------------
(* The constructor of Area                                                 *)

(* Area::readloc: the sum is cast to an int before it is a place on an axis,
   which may be wider. *)
ReadAxis(n) ==
  LET low == n % IntSize
  IN (IF 2 * low < IntSize THEN low ELSE low - IntSize) % AxisSize

readloc(loc, offset) ==
  <<ReadAxis(loc[1] + offset[1]), ReadAxis(loc[2] + offset[2]), ReadAxis(loc[3] + offset[3])>>

(* StringTable::add: the ids before the first entry without id or text. *)
StringTable(json) ==
  LET strings == IF Has(json, "strings") THEN json.strings ELSE <<>>
      bad == {i \in DOMAIN strings : ~(Has(strings[i], "id") /\ Has(strings[i], "text"))}
  IN {strings[i].id : i \in {j \in DOMAIN strings : \A b \in bad : j < b}}

(* Interactive::init. *)
InteractiveOK(json) ==
  /\ Has(json, "id") /\ Has(json, "title") /\ Has(json, "loc")
  /\ json.title \in StringTable(Json)

(* Scripts are read with no mark known yet. *)
ScriptsCrash(json) ==
  /\ Has(json, "scripts")
  /\ \E i \in DOMAIN json.scripts : ScriptCrashes(json.scripts[i], Nothing, Json.offset)

(* The title's string is looked at without a test that there is one, and so
   are the actions of a script, in the order of the file. *)
HeadCrashes ==
  /\ Has(Json, "id") /\ Has(Json, "title")
  /\ \/ Json.title \notin StringTable(Json)
     \/ Has(Json, "offset") /\ ScriptsCrash(Json)
     \/ /\ Has(Json, "offset")
        /\ \E i \in DOMAIN List("interactives") :
             /\ \A j \in 1 .. i : InteractiveOK(List("interactives")[j])
             /\ ScriptsCrash(List("interactives")[i])

(* Everything before the cubes. *)
HeadOK ==
  /\ Has(Json, "id") /\ Has(Json, "title") /\ Has(Json, "offset") /\ Has(Json, "cubes")
  /\ \A i \in DOMAIN List("interactives") : InteractiveOK(List("interactives")[i])

AreaHead ==
  /\ step_ = "head"
  /\ CASE HeadCrashes -> Crash
       [] ~HeadCrashes /\ ~HeadOK -> Fail
       [] OTHER ->
            /\ step_' = "cube" /\ at_' = 1
            /\ markmap_' = Nothing
            /\ scripts_' = With(scripts_, file_, ScriptsInit(List("scripts"), Nothing, Json.offset))
            /\ area_cubes_' = With(area_cubes_, file_, {})
            /\ UNCHANGED <<input_, marks_, exits_, mobs_, left_, file_, areas_, mapVars>>

(* One cube: its place must be new in the area, its mark too.  The letters
   of "exits" open exits wherever they lead. *)
CubeOK(entry) ==
  /\ Has(entry, "loc")
  /\ readloc(entry.loc, Json.offset) \notin area_cubes_[file_]
  /\ Has(entry, "mark") => entry.mark # "" /\ entry.mark \notin DOMAIN markmap_

AreaCube ==
  /\ step_ = "cube" /\ at_ <= Len(List("cubes"))
  /\ LET entry == Entry("cubes")
         pos == readloc(entry.loc, Json.offset)
         letters == IF Has(entry, "exits") THEN entry.exits ELSE {}
     IN IF ~CubeOK(entry) THEN Fail
        ELSE /\ at_' = at_ + 1
             /\ area_cubes_' = [area_cubes_ EXCEPT ![file_] = @ \cup {pos}]
             /\ markmap_' = IF Has(entry, "mark") THEN With(markmap_, entry.mark, pos) ELSE markmap_
             /\ exits_' = With(exits_, <<file_, pos>>,
                               [d \in ExitDir |-> IF d \in letters THEN EXIT_NORMAL ELSE 0])
             /\ UNCHANGED <<input_, step_, marks_, scripts_, mobs_, left_, file_, areas_, mapVars>>

CubesRead ==
  /\ step_ = "cube" /\ at_ > Len(List("cubes"))
  /\ step_' = "link" /\ at_' = 1
  /\ UNCHANGED <<input_, markmap_, marks_, exits_, scripts_, mobs_, areaVars, mapVars>>

(* The place an end of a link of the area names, by mark or by numbers. *)
LinkEnd(end) ==
  IF Has(end, "mark")
  THEN IF Has(markmap_, end.mark) THEN markmap_[end.mark] ELSE NoCube
  ELSE readloc(end.loc, Json.offset)

TwoWay(link) == ~(Has(link, "type") /\ link.type = "1way")

(* Cube::json2attr: bit by bit exclusive or with what attr happened to hold;
   EXIT_NORMAL when there is no "attr". *)
FlipBit(n, bit) == IF (n \div bit) % 2 = 1 THEN n - bit ELSE n + bit

LinkAttr(link, garbage) ==
  IF ~Has(link, "attr") THEN EXIT_NORMAL
  ELSE LET mob == IF "nomob" \in link.attr THEN FlipBit(garbage, 1) ELSE garbage
       IN IF "nonpc" \in link.attr THEN FlipBit(mob, 2) ELSE mob

(* MUTANT of LinkOK: only the cube a link starts at is looked for. *)
X_LinkOKFrom(link) == Has(link, "from") /\ LinkEnd(link.from) \in area_cubes_[file_] /\ Has(link, "to")

LinkOK(link) ==
  /\ Has(link, "from") /\ LinkEnd(link.from) \in area_cubes_[file_]
  /\ Has(link, "to") /\ LinkEnd(link.to) \in area_cubes_[file_]

(* One link between two cubes of the area.  What addlink returns is ignored. *)
AreaLink ==
  /\ step_ = "link" /\ at_ <= Len(List("links"))
  /\ LET link == Entry("links")
     IN IF ~LinkOK(link) THEN Fail
        ELSE /\ at_' = at_ + 1
             /\ \E garbage \in Garbage :
                  exits_' = AddLink(exits_, TwoWay(link), <<file_, LinkEnd(link.from)>>,
                                    <<file_, LinkEnd(link.to)>>, LinkAttr(link, garbage))
             /\ UNCHANGED <<input_, step_, markmap_, marks_, scripts_, mobs_, areaVars, mapVars>>

LinksRead ==
  /\ step_ = "link" /\ at_ > Len(List("links"))
  /\ step_' = "mark" /\ at_' = 1
  /\ UNCHANGED <<input_, markmap_, marks_, exits_, scripts_, mobs_, areaVars, mapVars>>

-----------------------------------------------------------------------------
(* What load_external_data_file does with a valid area                     *)

(* areas_.insert and Area::getmark: an area id that was there keeps its
   first file, but the marks of this file are added all the same. *)
AreaMarks ==
  /\ step_ = "mark"
  /\ areas_' = Insert(areas_, Json.id, file_)
  /\ LET named == {i \in DOMAIN List("cubes") : Has(List("cubes")[i], "mark")}
         keys == {<<Json.id, List("cubes")[i].mark>> : i \in named}
     IN IF (\E i \in named : List("cubes")[i].mark \in AtMark) \/ keys \cap DOMAIN marks_ # {}
        THEN /\ step_' = "failed"
             /\ UNCHANGED <<marks_, markmap_>>
        ELSE /\ marks_' = [k \in DOMAIN marks_ \cup keys |->
                             IF k \in DOMAIN marks_ THEN marks_[k] ELSE <<file_, markmap_[k[2]]>>]
             /\ markmap_' = Nothing
             /\ step_' = "mob"
  /\ UNCHANGED <<input_, at_, exits_, scripts_, mobs_, left_, file_, area_cubes_, mapVars>>

(* MUTANT of MobId: ids as the file has them. *)
X_MobIdPlain(area, mid) == mid

(* Mob::calc_id. *)
MobId(area, mid) == area * MAX_MOB_COUNT_IN_AREA + mid

(* Mob::refid: only a positive one counts. *)
RefId(entry) == IF Has(entry, "refid") /\ entry.refid > 0 THEN entry.refid ELSE 0

(* One mob: a copy of the mob it refers to, with its own fields on top. *)
AreaMob ==
  /\ step_ = "mob" /\ at_ <= Len(List("mobs"))
  /\ LET entry == Entry("mobs")
         ref == MobId(Json.id, RefId(entry))
     IN IF ~Has(entry, "id") \/ (RefId(entry) # 0 /\ ref \notin DOMAIN mobs_) THEN Fail
        ELSE LET inherited == IF RefId(entry) # 0 THEN mobs_[ref].name ELSE ""
                 mob == [id |-> MobId(Json.id, entry.id),
                         name |-> IF Has(entry, "name") THEN entry.name ELSE inherited]
             IN /\ mobs_' = Insert(mobs_, mob.id, mob)
                /\ at_' = at_ + 1
                /\ UNCHANGED <<input_, step_, markmap_, marks_, exits_, scripts_, areaVars, mapVars>>

MobsRead ==
  /\ step_ = "mob" /\ at_ > Len(List("mobs"))
  /\ TakeArea(left_)
  /\ at_' = 1
  /\ UNCHANGED <<input_, markmap_, marks_, exits_, scripts_, mobs_, areas_, area_cubes_, mapVars>>

(* cubes_: of the areas that have a cube at pos, the last one's. *)
Shortcut ==
  LET Owners(pos) == {id \in DOMAIN areas_ : pos \in area_cubes_[areas_[id]]}
      places == UNION {area_cubes_[areas_[id]] : id \in DOMAIN areas_}
      last(pos) == CHOOSE id \in Owners(pos) : \A other \in Owners(pos) : other <= id
  IN [pos \in places |-> <<areas_[last(pos)], pos>>]

(* The two exits a diagonal neighbour needs to lead back. *)
BackExits(d) ==
  CASE d = X_INC_Y_INC -> {X_DEC, Y_DEC}
    [] d = X_DEC_Y_INC -> {X_INC, Y_DEC}
    [] d = X_INC_Y_DEC -> {X_DEC, Y_INC}
    [] d = X_DEC_Y_DEC -> {X_INC, Y_INC}
    [] OTHER -> {}

(* MUTANT of AdjacentDirs: the exits of the cube itself instead of those of
   its diagonal neighbour. *)
X_AdjacentDirsOwn(cubes, exits, pos) ==
  {d \in ExitDir : /\ Find(DOMAIN cubes, pos, d) # NoCube
                   /\ \A back \in BackExits(d) : exits[cubes[pos]][back] # 0}

(* adjacent_cubes_: a neighbour that exists; for a diagonal also its exits. *)
AdjacentDirs(cubes, exits, pos) ==
  {d \in ExitDir : /\ Find(DOMAIN cubes, pos, d) # NoCube
                   /\ \A back \in BackExits(d) : exits[cubes[Step(pos, d)]][back] # 0}

(* MUTANT of RebornFound: any place will do. *)
X_RebornAnywhere == Has(input_, "reborn")

(* The place to be reborn in is one of a cube. *)
RebornFound == Has(input_, "reborn") /\ input_.reborn \in DOMAIN Shortcut

(* The shortcut map, adjacency, and the place to be reborn, which must exist. *)
MakeShortcut ==
  /\ step_ = "shortcut"
  /\ step_' = IF RebornFound THEN "global" ELSE "failed"
  /\ reborn_' = IF RebornFound THEN input_.reborn ELSE NoCube
  /\ cubes_' = Shortcut
  /\ adjacent_' = [cube \in {Shortcut[pos] : pos \in DOMAIN Shortcut} |->
                     AdjacentDirs(Shortcut, exits_, Place(cube))]
  /\ UNCHANGED <<input_, at_, markmap_, marks_, exits_, scripts_, mobs_, areaVars>>

(* WorldMap::readloc: the cube a mark of some area names, or the one on the
   map at a place. *)
GlobalEnd(end) ==
  IF Has(end, "mark")
  THEN IF end.area > 0 /\ <<end.area, end.mark>> \in DOMAIN marks_ THEN marks_[<<end.area, end.mark>>] ELSE NoCube
  ELSE LET pos == readloc(end.loc, IF Has(end, "offset") THEN end.offset ELSE <<0, 0, 0>>)
       IN IF pos \in DOMAIN cubes_ THEN cubes_[pos] ELSE NoCube

(* A link without an end, without a type, or with an end that names no cube
   (neither by mark nor by numbers) is not survived. *)
LinkWhole(link) ==
  /\ {"from", "to", "type"} \subseteq DOMAIN link
  /\ \A end \in {link.from, link.to} : Has(end, "mark") \/ Has(end, "loc")

(* One link of _global.json: one with a bad end is skipped. *)
GlobalLink ==
  /\ step_ = "global" /\ at_ <= Len(input_.links)
  /\ LET link == input_.links[at_]
         from == GlobalEnd(link.from)
         to == GlobalEnd(link.to)
     IN IF ~LinkWhole(link)
        THEN step_' = "crashed" /\ UNCHANGED <<at_, exits_>>
        ELSE /\ at_' = at_ + 1 /\ UNCHANGED step_
             /\ IF from = NoCube \/ to = NoCube THEN UNCHANGED exits_
                ELSE \E garbage \in Garbage :
                       exits_' = AddLink(exits_, TwoWay(link), from, to, LinkAttr(link, garbage))
  /\ UNCHANGED <<input_, markmap_, marks_, scripts_, mobs_, areaVars, mapVars>>

Loaded ==
  /\ step_ = "global" /\ at_ > Len(input_.links)
  /\ step_' = "done"
  /\ UNCHANGED <<input_, at_, markmap_, marks_, exits_, scripts_, mobs_, areaVars, mapVars>>

WorldMapNext ==
  \/ ReadConfig \/ AreaHead \/ AreaCube \/ CubesRead \/ AreaLink \/ LinksRead
  \/ AreaMarks \/ AreaMob \/ MobsRead \/ MakeShortcut \/ GlobalLink \/ Loaded

WorldMapSpec == WorldMapInit /\ [][WorldMapNext]_loadVars

-----------------------------------------------------------------------------
(* What the files of an input are like                                     *)

Entries == {input_.config[i] : i \in DOMAIN input_.config}

(* No two area files give themselves the same id (the ids _global.json lists
   them under are checked by the code, the ones inside the files are not). *)
DistinctIds ==
  \A e, f \in {entry \in Entries : Has(entry.json, "id")} : e.json.id = f.json.id => e = f

LinksOf(json) ==
  IF Has(json, "links") THEN {json.links[i] : i \in DOMAIN json.links} ELSE {}

AllLinks == (UNION {LinksOf(entry.json) : entry \in Entries}) \cup LinksOf(input_)

Mobs(json) == IF Has(json, "mobs") THEN {json.mobs[i] : i \in DOMAIN json.mobs} ELSE {}

WithAttr == \E link \in AllLinks : Has(link, "attr")

(* The exits the letters of "exits" give a cube. *)
Lettered(cube) ==
  LET json == FileOf(cube[1])
  IN UNION {json.cubes[i].exits :
              i \in {j \in DOMAIN json.cubes : /\ Has(json.cubes[j], "exits")
                                               /\ readloc(json.cubes[j].loc, json.offset) = Place(cube)}}

(* Areas apart from each other, every way between cubes a two-way link. *)
Regular ==
  /\ DistinctIds /\ ~WithAttr
  /\ \A link \in AllLinks : TwoWay(link)
  /\ \A cube \in DOMAIN exits_ : Lettered(cube) = {}
  /\ \A a, b \in DOMAIN exits_ : Place(a) = Place(b) => a = b

-----------------------------------------------------------------------------
(* Properties                                                              *)

(* Every object is a cube of a file, under its place. *)
ObjectsOK ==
  /\ DOMAIN exits_ = UNION {{f} \X area_cubes_[f] : f \in DOMAIN area_cubes_}
  /\ \A cube \in DOMAIN exits_ : Place(cube) \in Position /\ exits_[cube] \in [ExitDir -> Nat]

(* Marks name cubes: those of the file that is read, and those of all areas. *)
MarksOK ==
  /\ \A mark \in DOMAIN markmap_ : markmap_[mark] \in area_cubes_[file_]
  /\ \A key \in DOMAIN marks_ : marks_[key] \in DOMAIN exits_

(* The map has a cube of its own place everywhere. *)
MapOK ==
  /\ \A id \in DOMAIN areas_ : areas_[id] \in DOMAIN area_cubes_
  /\ \A pos \in DOMAIN cubes_ : cubes_[pos] \in DOMAIN exits_ /\ Place(cubes_[pos]) = pos
  /\ step_ \in {"global", "done"} => reborn_ \in DOMAIN cubes_

(* The loader's tables fit together: every object is a cube of the area that
   was read, marks and the map name objects, each under its own place, and a
   loaded map has the cube players are reborn in (what World assumes of it). *)
WorldMapTypeOK == ObjectsOK /\ MarksOK /\ MapOK

(* An exit that a link opened leads to a cube of the map: whoever walks by
   links never stands before nothing.  Letters may open exits to nowhere, and
   a file whose id was taken leaves its cubes off the map (world.cpp and the
   client look for a cube behind an exit). *)
LinksLead ==
  step_ = "done" /\ DistinctIds =>
    \A pos \in DOMAIN cubes_ : \A d \in ExitDir :
      exits_[cubes_[pos]][d] # 0 /\ d \notin Lettered(cubes_[pos]) => Step(pos, d) \in DOMAIN cubes_

(* In a map made of two-way links every step can be taken back: addlink never
   opens one end and refuses the other. *)
WalkBack ==
  step_ = "done" /\ Regular =>
    \A pos \in DOMAIN cubes_ : \A d \in WalkDir :
      exits_[cubes_[pos]][d] # 0 =>
        exits_[cubes_[Step(pos, d)]][opposite_dir(d)] # 0

(* What adjacent_cubes_ says of a loaded map is true of it: a neighbour along
   an axis is there, a diagonal one opens towards both cubes between the two.
   Links read after it was computed only add ways (which it does not say). *)
AdjacencySound ==
  step_ = "done" /\ ~WithAttr =>
    \A pos \in DOMAIN cubes_ : \A d \in adjacent_[cubes_[pos]] :
      LET other == Step(pos, d)
      IN /\ other \in DOMAIN cubes_
         /\ d \notin WalkDir =>
              \A away, back \in WalkDir :
                Step(Step(other, away), back) = pos => exits_[cubes_[other]][away] # 0

(* Mob ids that leave those of other areas alone. *)
SmallMobIds ==
  \A id \in ConfigIds : \A m \in Mobs(FileOf(id)) : m.id \in 0 .. MAX_MOB_COUNT_IN_AREA - 1

(* The mob a file describes is the one found under its id: the first entry of
   an id counts, and ids below MAX_MOB_COUNT_IN_AREA never meet those of
   another area (larger ones do, and the later mob is lost: mob.cpp:111). *)
MobsFound ==
  step_ = "done" /\ DistinctIds /\ SmallMobIds =>
    \A id \in ConfigIds : \A m \in Mobs(FileOf(id)) :
      LET key == MobId(FileOf(id).id, m.id)
      IN /\ key \in DOMAIN mobs_
         /\ Has(m, "name") /\ (\A other \in Mobs(FileOf(id)) : other.id = m.id => other = m) =>
              mobs_[key].name = m.name

=============================================================================
