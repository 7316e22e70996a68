----------------------------- MODULE TokenOnce -----------------------------
(***************************************************************************)
(* What the login server promises about its tokens, whatever is asked of   *)
(* it: a key is drawn once, for one name and one address; it opens the     *)
(* game at most once, for that name from that address, and not after its   *)
(* lifetime; a key that was dropped never opens it.                        *)
(***************************************************************************)
EXTENDS Integers

CONSTANTS Person, Address, Lifetime

VARIABLES
  live,    \* the tokens that may still be presented
  spent,   \* every key drawn that may not
  opened,  \* what the game server was told: who, from where, with which key
  clock

tokenVars == <<live, spent, opened, clock>>

KeysOf(tokens) == {t.key : t \in tokens}

Token == [name : Person, ip : Address, key : Nat, since : Nat]

(* The keys that were live and are not any more cannot be presented again. *)
SpendDropped == spent' = spent \cup (KeysOf(live) \ KeysOf(live'))

(* A fresh key for a name; other tokens may be dropped with it. *)
Issue ==
  /\ \E t \in live' :
       /\ t \in Token /\ t.since = clock
       /\ t.key \notin KeysOf(live) \cup spent
       /\ live' \ {t} \subseteq live
  /\ SpendDropped
  /\ UNCHANGED <<opened, clock>>

(* The token's own name, address and key are what the game server is told. *)
Honour ==
  /\ \E t \in live :
       /\ clock - t.since <= Lifetime
       /\ t.key \notin KeysOf(live')
       /\ opened' = opened \cup {[name |-> t.name, ip |-> t.ip, key |-> t.key]}
  /\ live' \subseteq live
  /\ SpendDropped
  /\ UNCHANGED clock

Drop ==
  /\ live' \subseteq live
  /\ SpendDropped
  /\ UNCHANGED <<opened, clock>>

Pass ==
  /\ clock' \in Nat
  /\ clock' >= clock
  /\ UNCHANGED <<live, spent, opened>>

Init == live = {} /\ spent = {} /\ opened = {} /\ clock = 0

Next == Issue \/ Honour \/ Drop \/ Pass

Spec == Init /\ [][Next]_tokenVars

=============================================================================
