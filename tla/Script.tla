------------------------------- MODULE Script -------------------------------
(***************************************************************************)
(* The scripts of an area: script.cpp, and storage.cpp, the variables they *)
(* read and change.  Operators only; MapClient runs them.                  *)
(*                                                                         *)
(* A json object is a record; a field it does not have, or has with a type *)
(* the code does not take, is not in its DOMAIN.  A "loc" that names a     *)
(* cube instead of giving its three numbers is the field mark.             *)
(***************************************************************************)
EXTENDS CubeGrid, Sequences, FiniteSets

Has(json, field) == field \in DOMAIN json

(* What an init that returns false leaves. *)
Invalid == [valid |-> FALSE]

(* A "loc" of a condition: loc + offset on the wrapped axes.  The cubes of
   an area get theirs in another way (readloc in WorldMap). *)
Shift(loc, offset) ==
  <<(loc[1] + offset[1]) % AxisSize, (loc[2] + offset[2]) % AxisSize, (loc[3] + offset[3]) % AxisSize>>

-----------------------------------------------------------------------------
(* Storage.  age stands for the time since reset_timer in seconds; before  *)
(* the first one timer_ is the epoch.                                      *)

NewStorage(longAgo) ==
  [areaid_ |-> 0, loc_ |-> <<0, 0, 0>>, integer_1 |-> 0,
   move_count_ |-> [a \in {} |-> 0], age |-> longAgo]

integer(st, index) == IF index = 1 THEN st.integer_1 ELSE 0

move_count(st, area) ==
  IF Has(st.move_count_, area) THEN st.move_count_[area] ELSE 0

(* MUTANT of move_count_inc: only the area the player is in is counted. *)
X_CountHereOnly(st, area) ==
  [st EXCEPT !.move_count_ = [a \in {area} |-> move_count(st, area) + 1]]

move_count_inc(st, area) ==
  [st EXCEPT !.move_count_ =
     [a \in DOMAIN @ \cup {area} |->
        IF a = area THEN move_count(st, area) + 1 ELSE @[a]]]

reset_timer(st) == [st EXCEPT !.age = 0]

-----------------------------------------------------------------------------
(* Conditions                                                              *)

ConditionType == {"equal", "not_equal", "greater"}

(* The order in which Condition::init looks for a variable. *)
ConditionVariable == <<"b01", "i01", "loc", "mark", "move_count", "timer">>

(* The order in which Action::init does. *)
ActionVariable == <<"b01", "i01", "string">>

(* The first of names that json has, or "none". *)
FirstField(json, names) ==
  LET found == {i \in DOMAIN names : Has(json, names[i])}
  IN IF found = {} THEN "none"
     ELSE names[CHOOSE i \in found : \A j \in found : i <= j]

TypeIn(json, types) == Has(json, "type") /\ json.type \in types

(* Condition::init.  The number of an "i01" goes to b_rhs_; i_rhs_ stays 0. *)
ConditionInit(json, markmap, offset) ==
  LET var == FirstField(json, ConditionVariable)
      Rhs(b, i, loc) ==
        [valid |-> TRUE, condition_type_ |-> json.type,
         variable_type_ |-> IF var = "mark" THEN "loc" ELSE var,
         b_rhs_ |-> b, i_rhs_ |-> i, loc_rhs_ |-> loc]
  IN IF ~TypeIn(json, ConditionType) THEN Invalid
     ELSE CASE var = "b01" -> Rhs(json.b01, 0, NoCube)
            [] var = "i01" -> Rhs(json.i01 # 0, 0, NoCube)
            [] var = "loc" -> Rhs(FALSE, 0, Shift(json.loc, offset))
            [] var = "mark" /\ Has(markmap, json.mark) -> Rhs(FALSE, 0, markmap[json.mark])
            [] var = "move_count" -> Rhs(FALSE, json.move_count, NoCube)
            [] var = "timer" -> Rhs(FALSE, json.timer, NoCube)
            [] OTHER -> Invalid

(* is_true_location, _boolean, _move_count, _timer and _integer: what each
   makes of its condition type.  The boolean read from the storage is not
   looked at, and the integer read is that of index 0. *)
IsTrueLocation(c, st) ==
  \/ c.condition_type_ = "equal" /\ c.loc_rhs_ = st.loc_
  \/ c.condition_type_ = "not_equal" /\ c.loc_rhs_ # st.loc_

IsTrueBoolean(c) ==
  \/ c.condition_type_ = "equal" /\ c.b_rhs_
  \/ c.condition_type_ = "not_equal" /\ ~c.b_rhs_

IsTrueMoveCount(c, st) ==
  LET count == move_count(st, st.areaid_)
  IN \/ c.condition_type_ = "equal" /\ count = c.i_rhs_
     \/ c.condition_type_ = "not_equal" /\ count # c.i_rhs_
     \/ c.condition_type_ = "greater" /\ count > c.i_rhs_

IsTrueTimer(c, st) == c.condition_type_ = "greater" /\ st.age > c.i_rhs_

IsTrueInteger(c, st) ==
  \/ c.condition_type_ = "equal" /\ integer(st, 0) = c.i_rhs_
  \/ c.condition_type_ = "not_equal" /\ integer(st, 0) # c.i_rhs_

(* MUTANT of IsTrue: counts of moves are looked at whenever the screen is
   drawn. *)
X_IsTrueAlways(c, st, moving) ==
  CASE c.variable_type_ = "loc" -> moving /\ IsTrueLocation(c, st)
    [] c.variable_type_ = "b01" -> IsTrueBoolean(c)
    [] c.variable_type_ = "i01" -> IsTrueInteger(c, st)
    [] c.variable_type_ = "move_count" -> IsTrueMoveCount(c, st)
    [] c.variable_type_ = "timer" -> IsTrueTimer(c, st)

(* Condition::is_true: places and counts of moves only matter on a move. *)
IsTrue(c, st, moving) ==
  CASE c.variable_type_ = "loc" -> moving /\ IsTrueLocation(c, st)
    [] c.variable_type_ = "b01" -> IsTrueBoolean(c)
    [] c.variable_type_ = "i01" -> IsTrueInteger(c, st)
    [] c.variable_type_ = "move_count" -> moving /\ IsTrueMoveCount(c, st)
    [] c.variable_type_ = "timer" -> IsTrueTimer(c, st)

-----------------------------------------------------------------------------
(* Actions and scripts                                                     *)

ActionType == {"set", "text", "reset_timer"}

(* Action::init: resetting the timer takes no variable. *)
ActionInit(json) ==
  LET var == FirstField(json, ActionVariable)
  IN CASE ~TypeIn(json, ActionType) -> Invalid
       [] TypeIn(json, {"reset_timer"}) ->
            [valid |-> TRUE, action_type_ |-> "reset_timer", variable_type_ |-> "none", i_rhs_ |-> 0]
       [] TypeIn(json, {"set", "text"}) /\ var = "none" -> Invalid
       [] OTHER ->
            [valid |-> TRUE, action_type_ |-> json.type, variable_type_ |-> var,
             i_rhs_ |-> IF var = "b01" THEN 0 ELSE json[var]]

ScriptKinds(json) == {k \in {"and", "or", "not"} : Has(json, k)}

ScriptKind(json) == CHOOSE k \in ScriptKinds(json) : TRUE

Conditions(json, markmap, offset) ==
  [i \in DOMAIN json[ScriptKind(json)] |-> ConditionInit(json[ScriptKind(json)][i], markmap, offset)]

(* One of "and", "or", "not", and everything in it valid. *)
ConditionsOK(json, markmap, offset) ==
  /\ Cardinality(ScriptKinds(json)) = 1
  /\ \A i \in DOMAIN Conditions(json, markmap, offset) : Conditions(json, markmap, offset)[i].valid

(* Only then are the actions looked at, without a test that there are any. *)
ScriptCrashes(json, markmap, offset) ==
  ConditionsOK(json, markmap, offset) /\ ~Has(json, "actions")

(* Script::init where it returns. *)
ScriptInit(json, markmap, offset) ==
  LET actions == [i \in DOMAIN json.actions |-> ActionInit(json.actions[i])]
  IN IF /\ ConditionsOK(json, markmap, offset)
        /\ \A i \in DOMAIN actions : actions[i].valid
     THEN [valid |-> TRUE, condition_type_ |-> ScriptKind(json),
           conditions_ |-> Conditions(json, markmap, offset), p_actions_move_ |-> actions]
     ELSE Invalid

(* The scripts of an area or an interactive that init accepts, each under its
   place in the file. *)
ScriptsInit(jsons, markmap, offset) ==
  [i \in {j \in DOMAIN jsons : ScriptInit(jsons[j], markmap, offset).valid} |->
     ScriptInit(jsons[i], markmap, offset)]

(* Script::handle: the actions to run, none when the condition is false.
   "not" denies the conjunction. *)
Handle(script, st, moving) ==
  LET All == \A i \in DOMAIN script.conditions_ : IsTrue(script.conditions_[i], st, moving)
      Any == \E i \in DOMAIN script.conditions_ : IsTrue(script.conditions_[i], st, moving)
      holds == CASE script.condition_type_ = "and" -> All
                 [] script.condition_type_ = "or" -> Any
                 [] script.condition_type_ = "not" -> ~All
  IN IF holds THEN script.p_actions_move_ ELSE <<>>
=============================================================================
