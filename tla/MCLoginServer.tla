--------------------------- MODULE MCLoginServer ---------------------------
(***************************************************************************)
(* LoginServer for names of all kinds: two spellings std::stoi reads as 1, *)
(* one it reads as 2, one it reads as -1, and one that is no guest's.      *)
(***************************************************************************)
EXTENDS LoginServer, TLC

MCName == {"guest#1", "guest#01", "guest#2", "guest#-1", "bob"}

MCNumber ==
  [n \in MCName \ {"bob"} |->
     CASE n = "guest#2" -> 2 [] n = "guest#-1" -> -1 [] OTHER -> 1]

(* Passwords, and addresses, are only compared. *)
MCSymmetry == Permutations(Secret) \cup Permutations(Address)

=============================================================================
