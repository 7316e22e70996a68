----------------------------- MODULE MapClient -----------------------------
(***************************************************************************)
(* The map's player of test/win32_client/DrawClass.cpp: one window that    *)
(* loads the files with WorldMap, walks a cube map by keys, and runs the   *)
(* scripts of the area it is in when it arrives somewhere and every time   *)
(* it is drawn.                                                            *)
(*                                                                         *)
(* Rolling text, which makes keypress refuse, may or may not be on at any  *)
(* time: how long it rolls depends on the fonts.                           *)
(***************************************************************************)
EXTENDS WorldMap

CONSTANTS LongAgo,    \* seconds: a timer that old counts as the epoch
          MaxMoves    \* bound: keys that are obeyed

ASSUME LongAgoAssumption == LongAgo \in Nat

VARIABLES
  center_,     \* cube_center_ and the front of move_history_; NoCube before
  storage_,
  animation_,  \* animation_blocking_: "rotate" or the cube moved to
  crashed_,    \* a null shared_ptr or an exit that is none was used
  said_,       \* what is said in this step, each with its script and action
  told_,       \* history: how often each text was said, at most 2
  carried_,    \* history: arrivals since the last key that was obeyed
  quiet_,      \* history: seconds without arrival or reset of the timer
  keys_        \* keys obeyed so far

clientVars == <<center_, storage_, animation_, crashed_, said_, told_, carried_, quiet_, keys_>>
playVars == <<loadVars, clientVars>>

ClientInit ==
  /\ WorldMapInit
  /\ center_ = NoCube /\ storage_ = NewStorage(LongAgo) /\ animation_ = <<>>
  /\ crashed_ = FALSE /\ said_ = {} /\ told_ = Nothing
  /\ carried_ = 0 /\ quiet_ = 0 /\ keys_ = 0

Playing == step_ = "done" /\ center_ # NoCube /\ ~crashed_

AreaOf(cube) == FileOf(cube[1])

-----------------------------------------------------------------------------
(* Scripts                                                                 *)

IsText(action) == action.action_type_ = "text" /\ action.variable_type_ = "string"

(* handle_action, the actions carried out: the first text the area does not
   have ends it. *)
Performed(actions, strings) ==
  {j \in DOMAIN actions : \A k \in 1 .. j : IsText(actions[k]) => actions[k].i_rhs_ \in strings}

(* MUTANT of Seen: all scripts see the storage the first one saw. *)
X_SeenFirst(st, reset) == st

(* The storage a script sees after earlier ones that may have reset the
   timer, which is all an action changes: "set" is not carried out. *)
Seen(st, reset) == IF reset THEN reset_timer(st) ELSE st

(* The scripts of the cube's area in order: the storage, and what is said. *)
RunScripts(cube, st, moving) ==
  LET scripts == scripts_[cube[1]]
      Actions(i, s) == Handle(scripts[i], s, moving)
      Done(i, s) == Performed(Actions(i, s), StringTable(AreaOf(cube)))
      Resets(i) == \E j \in Done(i, st) : Actions(i, st)[j].action_type_ = "reset_timer"
      Sees(i) == Seen(st, \E k \in DOMAIN scripts : k < i /\ Resets(k))
      Said(i) ==
        {[moving |-> moving, place |-> <<i, j>>, text |-> <<AreaOf(cube).id, Actions(i, Sees(i))[j].i_rhs_>>] :
           j \in {k \in Done(i, Sees(i)) : IsText(Actions(i, Sees(i))[k])}}
  IN [st |-> IF \E i \in DOMAIN scripts : Resets(i) THEN reset_timer(st) ELSE st,
      says |-> UNION {Said(i) : i \in DOMAIN scripts}]

(* storage_ and the texts after the scripts ran. *)
Ran(run) ==
  /\ storage_' = run.st
  /\ said_' = run.says
  /\ told_' = [t \in DOMAIN told_ \cup {said.text : said \in run.says} |->
                 LET times == Cardinality({said \in run.says : said.text = t})
                             + IF t \in DOMAIN told_ THEN told_[t] ELSE 0
                 IN IF times > 2 THEN 2 ELSE times]

-----------------------------------------------------------------------------
(* Moves                                                                   *)

(* MUTANT of Walk: a climb does not turn the view back. *)
X_WalkNoReset(dest, dir) == IF dir \in {Z_INC, Z_DEC} THEN <<"rotate", dest>> ELSE <<dest>>

(* The animations keypress queues: climbing turns the view and back. *)
Walk(dest, dir) == IF dir \in {Z_INC, Z_DEC} THEN <<"rotate", dest, "rotate">> ELSE <<dest>>

(* animation_blocking_ after keypress(dir) in cube.  An exit that leads
   nowhere changes nothing. *)
Pressed(animation, cube, dir, rolling) ==
  IF /\ animation = <<>> /\ ~rolling
     /\ exits_[cube][dir] > 0 /\ Find(DOMAIN cubes_, Place(cube), dir) # NoCube
  THEN Walk(cubes_[Step(Place(cube), dir)], dir)
  ELSE animation

(* After the scripts setCenterCube goes on up, then down, unless that is
   where the player came from; an exit that leads nowhere is not survived. *)
ExitsBlind(cube) ==
  \E d \in {Z_INC, Z_DEC} : exits_[cube][d] # 0 /\ Step(Place(cube), d) \notin DOMAIN cubes_

Onward(animation, cube, previous, rolling) ==
  LET Goes(d) == exits_[cube][d] # 0 /\ Step(Place(cube), d) # Place(previous)
      up == IF Goes(Z_INC) THEN Pressed(animation, cube, Z_INC, rolling) ELSE animation
  IN IF Goes(Z_DEC) THEN Pressed(up, cube, Z_DEC, rolling) ELSE up

(* The exit the player took, by Cube::dir: its description is looked up in
   desc_exits_, which has no place -1. *)
NoExitTo(dest) == DirTo(Place(center_), Place(dest)) = NoDir

(* setCenterCube: the first time there is no cube before, so that no move is
   counted and nothing goes on.  What the exit's description says is left out. *)
SetCenterCube(dest, animation, run, rolling) ==
  /\ center_' = dest
  /\ Ran(run)
  /\ crashed_' = (center_ # NoCube /\ (NoExitTo(dest) \/ ExitsBlind(dest)))
  /\ animation_' = IF center_ = NoCube \/ ExitsBlind(dest) THEN animation
                   ELSE Onward(animation, dest, center_, rolling)
  /\ quiet_' = 0

(* storage_ when the scripts of dest are run. *)
Moved(dest) ==
  [IF center_ = NoCube THEN storage_ ELSE move_count_inc(storage_, AreaOf(dest).id)
     EXCEPT !.areaid_ = AreaOf(dest).id, !.loc_ = Place(dest)]

(* The window is made, whatever load_external_data_file has returned. *)
Made == step_ \in {"done", "failed"} /\ center_ = NoCube /\ ~crashed_

(* The player is where the dead are reborn. *)
Start ==
  /\ Made /\ reborn_ # NoCube
  /\ LET dest == cubes_[reborn_]
     IN \E run \in {RunScripts(dest, Moved(dest), TRUE)} : SetCenterCube(dest, <<>>, run, FALSE)
  /\ UNCHANGED <<loadVars, carried_, keys_>>

(* A map that was refused has no such cube, and the client does not survive
   its own start. *)
StartNull ==
  /\ Made /\ reborn_ = NoCube
  /\ crashed_' = TRUE
  /\ UNCHANGED <<loadVars, center_, storage_, animation_, said_, told_, carried_, quiet_, keys_>>

KeyPress(dir, rolling) ==
  /\ Playing /\ keys_ < MaxMoves[input_]
  /\ Pressed(animation_, center_, dir, rolling) # animation_
  /\ animation_' = Pressed(animation_, center_, dir, rolling)
  /\ keys_' = keys_ + 1
  /\ carried_' = 0
  /\ said_' = {}
  /\ UNCHANGED <<loadVars, center_, storage_, crashed_, told_, quiet_>>

(* OnPaint, the scripts refreshed last, when the front animation is not over
   or there is none. *)
DrawFrame ==
  /\ Playing
  /\ \E run \in {RunScripts(center_, storage_, FALSE)} :
        /\ Ran(run)
        /\ quiet_' = IF run.st.age < storage_.age THEN 0 ELSE quiet_
  /\ UNCHANGED <<loadVars, center_, animation_, crashed_, carried_, keys_>>

(* OnPaint when it is: a move arrives, and its scripts run twice. *)
FinishAnimation(rolling) ==
  /\ Playing /\ animation_ # <<>>
  /\ IF Head(animation_) = "rotate"
     THEN \E run \in {RunScripts(center_, storage_, FALSE)} :
            /\ animation_' = Tail(animation_)
            /\ Ran(run)
            /\ quiet_' = IF run.st.age < storage_.age THEN 0 ELSE quiet_
            /\ UNCHANGED <<center_, crashed_, carried_>>
     ELSE LET dest == Head(animation_)
          IN \E arrived \in {RunScripts(dest, Moved(dest), TRUE)} :
             \E refreshed \in {RunScripts(dest, arrived.st, FALSE)} :
               /\ SetCenterCube(dest, Tail(animation_),
                                [st |-> refreshed.st,
                                 says |-> arrived.says \cup IF ExitsBlind(dest) THEN {} ELSE refreshed.says],
                                rolling)
               /\ carried_' = carried_ + 1
  /\ UNCHANGED <<loadVars, keys_>>

(* A second passes. *)
Tick ==
  /\ Playing
  /\ storage_' = [storage_ EXCEPT !.age = IF @ < LongAgo THEN @ + 1 ELSE @]
  /\ quiet_' = IF quiet_ < LongAgo THEN quiet_ + 1 ELSE quiet_
  /\ said_' = {}
  /\ UNCHANGED <<loadVars, center_, animation_, crashed_, told_, carried_, keys_>>

Load == WorldMapNext /\ UNCHANGED clientVars

Press == \E dir \in WalkDir : KeyPress(dir, FALSE)

Finish == \E rolling \in BOOLEAN : FinishAnimation(rolling)

ClientNext == Load \/ Start \/ StartNull \/ Press \/ DrawFrame \/ Finish \/ Tick

(* The timer of the window draws it every 100 ms, an animation lasts at most
   two seconds, and time passes. *)
ClientSpec ==
  /\ ClientInit /\ [][ClientNext]_playVars
  /\ WF_playVars(Load) /\ WF_playVars(Start \/ StartNull) /\ WF_playVars(DrawFrame)
  /\ WF_playVars(Finish) /\ WF_playVars(Tick)

-----------------------------------------------------------------------------
(* Properties                                                              *)

(* The first script of an area resets the timer on every arrival, as
   data/id_10_reincarnation_chamber.json does at 59-66. *)
ResetsFirst(file) ==
  \E i \in DOMAIN scripts_[file] :
    LET first == scripts_[file][i]
        zeros == {c \in DOMAIN first.conditions_ : /\ first.conditions_[c].variable_type_ = "move_count"
                                                   /\ first.conditions_[c].i_rhs_ = 0}
    IN /\ \A k \in DOMAIN scripts_[file] : i <= k
       /\ first.condition_type_ = "or"
       /\ {"equal", "greater"} \subseteq {first.conditions_[c].condition_type_ : c \in zeros}
       /\ 1 \in DOMAIN first.p_actions_move_ /\ first.p_actions_move_[1].action_type_ = "reset_timer"

(* A script with one condition, on variable. *)
Single(script, variable) ==
  /\ script.condition_type_ = "and" /\ DOMAIN script.conditions_ = {1}
  /\ script.conditions_[1].variable_type_ = variable

(* The actions that say text t of the area of file: script and action. *)
Places(file, t) ==
  UNION {{<<i, j>> : j \in {k \in DOMAIN scripts_[file][i].p_actions_move_ :
                              LET action == scripts_[file][i].p_actions_move_[k]
                              IN IsText(action) /\ action.i_rhs_ = t}} : i \in DOMAIN scripts_[file]}

(* The scripts that do. *)
Sayers(file, t) == {scripts_[file][place[1]] : place \in Places(file, t)}

(* A text for the player's n-th move: one action of one script has it. *)
MoveText(file, t) ==
  \E place \in Places(file, t) :
     /\ \A other \in Places(file, t) : other = place
     /\ Single(scripts_[file][place[1]], "move_count")
     /\ scripts_[file][place[1]].conditions_[1].condition_type_ = "equal"

(* Texts an area has for players who stay idle: after how long. *)
IdleLimit(file, t) ==
  LET limits == {s.conditions_[1].i_rhs_ : s \in Sayers(file, t)}
  IN CHOOSE limit \in limits : \A other \in limits : limit <= other

IdleText(file, t) ==
  /\ Sayers(file, t) # {} /\ t \in StringTable(FileOf(file))
  /\ \A s \in Sayers(file, t) : Single(s, "timer") /\ s.conditions_[1].i_rhs_ \in Nat

(* The client uses a cube or an exit that is not there in two cases only: at
   its start, when the map was refused (DrawClass.cpp:26, 49, 590), and where
   the letters of an area file open a vertical exit without a cube behind it
   (631, 641).  No link of a map that loads does, no walk leads to a cube
   that is no neighbour (596), and no map that loads fails at the start. *)
ClientAlive ==
  crashed_ /\ DistinctIds =>
    \/ center_ = NoCube /\ step_ = "failed"
    \/ /\ center_ # NoCube
       /\ \E d \in Lettered(center_) \cap {Z_INC, Z_DEC} : Step(Place(center_), d) \notin DOMAIN cubes_

(* A text meant for the player's n-th move in an area is said once in a game,
   wherever the player goes in between: an area's count of moves never comes
   back to n, and drawing does not say it again (DrawClass.cpp:588, 335). *)
TextsOnce == \A text \in DOMAIN told_ : MoveText(areas_[text[1]], text[2]) => told_[text] = 1

(* A key carries the player to the cube asked for and, where that one has
   stairs, one floor further: never up or down a whole tower (the animation
   that turns the view back makes keypress refuse, DrawClass.cpp:348, 473). *)
CarriedOnce == carried_ <= 2

(* In an area that resets the timer on arrival an idle text is said only to a
   player who has not arrived anywhere for as long as it says, although the
   timer is one for all areas and starts at the epoch (storage.cpp). *)
IdleQuiet ==
  [][\A said \in said_' :
       LET file == areas_[said.text[1]]
       IN ResetsFirst(file) /\ IdleText(file, said.text[2])
          => center_' = center_ /\ quiet_ > IdleLimit(file, said.text[2])]_playVars

(* A player in an area that has such a text, and resets the timer only on
   arrival. *)
IdleOwed ==
  Playing /\ ResetsFirst(center_[1]) /\ (\E t \in StringTable(AreaOf(center_)) : IdleText(center_[1], t))

IdleSaid == \E said \in said_ : IdleText(areas_[said.text[1]], said.text[2])

(* Who stays there (MaxMoves bounds the keys) is told so. *)
IdleShown == IdleOwed ~> IdleSaid \/ ~IdleOwed

=============================================================================
