-------------------------------- MODULE Lists --------------------------------
(***************************************************************************)
(* Loops over lists: one that erases some of the elements of a std::list,  *)
(* and one that goes on from what its last turn left.                      *)
(***************************************************************************)
EXTENDS Integers, SequencesExt

(* The elements of list at the positions of kept, in their order. *)
Selected(list, kept) ==
  LET scan[i \in 0 .. Len(list)] ==
        IF i = 0 THEN <<>>
        ELSE IF i \in kept THEN Append(scan[i - 1], list[i]) ELSE scan[i - 1]
  IN scan[Len(list)]

(* What n turns of a loop make of the start; turn is a function. *)
Repeated(turn, n, start) ==
  LET loop[i \in 0 .. n] == IF i = 0 THEN start ELSE turn[loop[i - 1]]
  IN loop[n]

=============================================================================
