-------------------------- MODULE PlayerPresence --------------------------
(***************************************************************************)
(* What the world promises about players, whatever queues and threads do:  *)
(* a player is away or in one cube, enters at the entry cube bound to one  *)
(* connection, keeps that connection until leaving, and walks only from a  *)
(* cube to the one behind an open exit.                                    *)
(***************************************************************************)
CONSTANTS Person, Connection, EntryCube,
          Behind  \* Behind[c]: the cubes behind the open exits of c

VARIABLE presence \* the players who are not away: id |-> [loc_, fd_]

Enter(p) ==
  /\ p \notin DOMAIN presence
  /\ \E f \in Connection :
       presence' = [q \in DOMAIN presence \cup {p} |->
                      IF q = p THEN [loc_ |-> EntryCube, fd_ |-> f] ELSE presence[q]]

Leave(p) ==
  presence' = [q \in DOMAIN presence \ {p} |-> presence[q]]

Walk(p) ==
  /\ p \in DOMAIN presence
  /\ \E c \in Behind[presence[p].loc_] :
       presence' = [presence EXCEPT ![p].loc_ = c]

Init == presence = [p \in {} |-> EntryCube]

Next == \E p \in Person : Enter(p) \/ Leave(p) \/ Walk(p)

Spec == Init /\ [][Next]_presence

=============================================================================
