------------------------------ MODULE ListProofs ------------------------------
(***************************************************************************)
(* What the loops of Lists compute, for every list: what Selected keeps,   *)
(* what holds after the turns of a loop, what DataQueue::remove leaves.    *)
(***************************************************************************)
EXTENDS DataQueue, SequenceTheorems, WellFoundedInduction, TLAPS

(* Less-than, as a set of pairs, is well-founded. *)
LEMMA LessWellFounded ==
  \E less : IsWellFoundedOn(less, Nat) /\ \A m, k \in Nat : m < k => <<m, k>> \in less
<1>1. \A m, k \in Nat : m < k => <<m, k>> \in OpToRel(<, Nat)
  BY DEF OpToRel
<1> QED
  BY <1>1, NatLessThanWellFounded

(* Some number of a set is the smallest. *)
LEMMA SmallestNat ==
  ASSUME NEW T \in SUBSET Nat, T # {}
  PROVE  \E n \in T : \A m \in T : n <= m
<1>1. PICK less : IsWellFoundedOn(less, Nat) /\ \A m, k \in Nat : m < k => <<m, k>> \in less
  BY LessWellFounded
<1>2. IsWellFoundedOn(less, Nat)
  BY <1>1
<1>3. PICK n \in T : \A m \in T : ~ (<<m, n>> \in less)
  BY <1>2, WFMin
<1>4. ASSUME NEW m \in T PROVE n <= m
  <2>1. m \in Nat /\ n \in Nat
    OBVIOUS
  <2>2. ~ (m < n)
    BY <1>1, <1>3, <2>1
  <2> QED
    BY <2>1, <2>2
<1> QED
  BY <1>4

(* Induction, for a set of numbers. *)
LEMMA NatSetInduction ==
  ASSUME NEW P \in SUBSET Nat, 0 \in P, \A n \in P : n + 1 \in P
  PROVE  P = Nat
<1> SUFFICES ASSUME Nat \ P # {} PROVE FALSE
  OBVIOUS
<1>1. PICK n \in Nat \ P : \A m \in Nat \ P : n <= m
  <2>1. Nat \ P \in SUBSET Nat
    OBVIOUS
  <2> QED
    BY <2>1, SmallestNat
<1>2. n - 1 \in P
  BY <1>1
<1>3. (n - 1) + 1 = n
  BY <1>1
<1> QED
  BY <1>2, <1>3

(* f holds what the scan has kept after each of its first n elements. *)
ScanTo(s, K, n, f) ==
  \A i \in 0 .. n :
    f[i] = IF i = 0 THEN <<>>
           ELSE IF i \in K THEN Append(f[i - 1], s[i]) ELSE f[i - 1]

LEMMA ScanStep ==
  ASSUME NEW S, NEW s \in Seq(S), NEW K, NEW n \in Nat, n + 1 <= Len(s),
         NEW f \in [0 .. n -> Seq(S)], ScanTo(s, K, n, f)
  PROVE  \E g \in [0 .. n + 1 -> Seq(S)] : ScanTo(s, K, n + 1, g)
<1> DEFINE last == IF n + 1 \in K THEN Append(f[n], s[n + 1]) ELSE f[n]
           g == [i \in 0 .. n + 1 |-> IF i = n + 1 THEN last ELSE f[i]]
<1>1. last \in Seq(S)
  BY ElementOfSeq, AppendProperties
<1> HIDE DEF last
<1>2. g \in [0 .. n + 1 -> Seq(S)]
  BY <1>1
<1>3. (\A i \in 0 .. n : g[i] = f[i]) /\ g[n + 1] = last
  OBVIOUS
<1> HIDE DEF g
<1>4. ASSUME NEW i \in 0 .. n + 1
      PROVE  g[i] = IF i = 0 THEN <<>>
                    ELSE IF i \in K THEN Append(g[i - 1], s[i]) ELSE g[i - 1]
  <2>1. CASE i = n + 1
    BY <1>3, <2>1 DEF last
  <2>2. CASE i \in 0 .. n
    <3>1. i # 0 => i - 1 \in 0 .. n
      BY <2>2
    <3> QED
      BY <1>3, <2>2, <3>1 DEF ScanTo
  <2> QED
    BY <2>1, <2>2
<1> QED
  BY <1>2, <1>4 DEF ScanTo

(* The scan of Selected gets to the end of the list. *)
LEMMA ScanExists ==
  ASSUME NEW S, NEW s \in Seq(S), NEW K
  PROVE  \E f \in [0 .. Len(s) -> Seq(S)] : ScanTo(s, K, Len(s), f)
<1> DEFINE P == {n \in Nat : n <= Len(s) => \E f \in [0 .. n -> Seq(S)] : ScanTo(s, K, n, f)}
<1>1. Len(s) \in Nat /\ << >> \in Seq(S)
  BY LenProperties, EmptySeq
<1>2. 0 \in P
  <2> DEFINE f == [i \in 0 .. 0 |-> << >>]
  <2>1. f \in [0 .. 0 -> Seq(S)] /\ ScanTo(s, K, 0, f)
    BY <1>1 DEF ScanTo
  <2> QED
    BY <2>1
<1>3. ASSUME NEW n \in P PROVE n + 1 \in P
  <2>1. n \in Nat
    OBVIOUS
  <2>2. ASSUME n + 1 <= Len(s)
        PROVE  \E f \in [0 .. n + 1 -> Seq(S)] : ScanTo(s, K, n + 1, f)
    <3>1. PICK f \in [0 .. n -> Seq(S)] : ScanTo(s, K, n, f)
      BY <1>1, <2>1, <2>2
    <3> QED
      BY <2>1, <2>2, <3>1, ScanStep
  <2> QED
    BY <2>1, <2>2
<1>4. P = Nat
  <2>1. P \in SUBSET Nat
    OBVIOUS
  <2> HIDE DEF P
  <2> QED
    BY <1>2, <1>3, <2>1, NatSetInduction
<1> QED
  BY <1>1, <1>4

(* Any scan keeps lists of the same elements. *)
LEMMA ScanTyped ==
  ASSUME NEW S, NEW s \in Seq(S), NEW K, NEW f, ScanTo(s, K, Len(s), f)
  PROVE  \A i \in 0 .. Len(s) : f[i] \in Seq(S)
<1> DEFINE P == {n \in Nat : n <= Len(s) => f[n] \in Seq(S)}
<1>1. Len(s) \in Nat /\ << >> \in Seq(S)
  BY LenProperties, EmptySeq
<1>2. 0 \in P
  <2>1. 0 \in 0 .. Len(s) /\ f[0] = << >>
    BY <1>1 DEF ScanTo
  <2> QED
    BY <1>1, <2>1
<1>3. ASSUME NEW n \in P PROVE n + 1 \in P
  <2> SUFFICES ASSUME n + 1 <= Len(s) PROVE f[n + 1] \in Seq(S)
    BY <1>3
  <2>1. f[n] \in Seq(S) /\ s[n + 1] \in S /\ n + 1 \in 0 .. Len(s)
    BY <1>1, ElementOfSeq
  <2>2. f[n + 1] = IF n + 1 \in K THEN Append(f[n], s[n + 1]) ELSE f[n]
    BY <2>1 DEF ScanTo
  <2>3. CASE n + 1 \in K
    BY <2>1, <2>2, <2>3, AppendProperties
  <2>4. CASE n + 1 \notin K
    BY <2>1, <2>2, <2>4
  <2> QED
    BY <2>3, <2>4
<1>4. P = Nat
  <2>1. P \in SUBSET Nat
    OBVIOUS
  <2> HIDE DEF P
  <2> QED
    BY <1>2, <1>3, <2>1, NatSetInduction
<1> QED
  BY <1>1, <1>4

LEMMA SelectedScan ==
  ASSUME NEW S, NEW s \in Seq(S), NEW K
  PROVE  \E f : ScanTo(s, K, Len(s), f) /\ Selected(s, K) = f[Len(s)]
<1> DEFINE Fix(f) == f = [i \in 0 .. Len(s) |-> IF i = 0 THEN <<>>
                  ELSE IF i \in K THEN Append(f[i - 1], s[i]) ELSE f[i - 1]]
           scan == CHOOSE f : Fix(f)
<1>1. PICK h \in [0 .. Len(s) -> Seq(S)] : ScanTo(s, K, Len(s), h)
  BY ScanExists
<1>2. Fix(h)
  BY <1>1 DEF ScanTo
<1>3. Fix(scan)
  BY <1>2
<1>4. Selected(s, K) = scan[Len(s)]
  BY DEF Selected
<1> HIDE DEF scan
<1>5. ScanTo(s, K, Len(s), scan)
  BY <1>3 DEF ScanTo
<1> QED
  BY <1>4, <1>5
-----------------------------------------------------------------------------
(* sel are the elements of s at the positions pos, which are those of K up to n. *)
Picks(s, K, n, sel, pos) ==
  /\ pos \in [1 .. Len(sel) -> K \cap 1 .. n]
  /\ \A j \in 1 .. Len(sel) : sel[j] = s[pos[j]]
  /\ \A i, j \in 1 .. Len(sel) : i < j => pos[i] < pos[j]
  /\ \A i \in K \cap 1 .. n : \E j \in 1 .. Len(sel) : pos[j] = i

LEMMA PicksNext ==
  ASSUME NEW S, NEW s \in Seq(S), NEW K, NEW n \in Nat, n + 1 <= Len(s), n + 1 \in K,
         NEW sel \in Seq(S), NEW pos, Picks(s, K, n, sel, pos)
  PROVE  \E more : Picks(s, K, n + 1, Append(sel, s[n + 1]), more)
<1> DEFINE longer == Append(sel, s[n + 1])
           more == [j \in 1 .. Len(sel) + 1 |-> IF j = Len(sel) + 1 THEN n + 1 ELSE pos[j]]
<1>1. Len(sel) \in Nat /\ s[n + 1] \in S
  BY LenProperties, ElementOfSeq
<1>2. /\ Len(longer) = Len(sel) + 1
      /\ \A j \in 1 .. Len(sel) : longer[j] = sel[j]
      /\ longer[Len(sel) + 1] = s[n + 1]
  BY <1>1, AppendProperties
<1> HIDE DEF longer
<1>3. /\ pos \in [1 .. Len(sel) -> K \cap 1 .. n]
      /\ \A j \in 1 .. Len(sel) : more[j] = pos[j]
      /\ more[Len(sel) + 1] = n + 1
  BY <1>1 DEF Picks
<1>4. more \in [1 .. Len(longer) -> K \cap 1 .. n + 1]
  <2>1. \A j \in 1 .. Len(sel) + 1 : j \in 1 .. Len(sel) \/ j = Len(sel) + 1
    BY <1>1
  <2>2. \A j \in 1 .. Len(sel) : more[j] \in K \cap 1 .. n + 1
    BY <1>3
  <2>3. more[Len(sel) + 1] \in K \cap 1 .. n + 1
    BY <1>3
  <2>4. \A j \in 1 .. Len(sel) + 1 : more[j] \in K \cap 1 .. n + 1
    BY <2>1, <2>2, <2>3, Zenon
  <2> QED
    BY <1>2, <2>4
<1> HIDE DEF more
<1>5. \A j \in 1 .. Len(longer) : longer[j] = s[more[j]]
  BY <1>1, <1>2, <1>3 DEF Picks
<1>6. ASSUME NEW i \in 1 .. Len(longer), NEW j \in 1 .. Len(longer), i < j
      PROVE  more[i] < more[j]
  <2>1. i \in 1 .. Len(sel) /\ more[i] = pos[i] /\ pos[i] \in 1 .. n
    BY <1>1, <1>2, <1>3, <1>6
  <2>2. CASE j = Len(sel) + 1
    BY <1>3, <2>1, <2>2
  <2>3. CASE j \in 1 .. Len(sel)
    BY <1>3, <1>6, <2>1, <2>3 DEF Picks
  <2> QED
    BY <1>1, <1>2, <2>2, <2>3
<1>7. ASSUME NEW i \in K \cap 1 .. n + 1
      PROVE  \E j \in 1 .. Len(longer) : more[j] = i
  <2>1. CASE i = n + 1
    BY <1>1, <1>2, <1>3, <2>1
  <2>2. CASE i \in 1 .. n
    <3>1. PICK j \in 1 .. Len(sel) : pos[j] = i
      BY <2>2 DEF Picks
    <3> QED
      BY <1>1, <1>2, <1>3, <3>1
  <2> QED
    BY <2>1, <2>2
<1> QED
  BY <1>4, <1>5, <1>6, <1>7 DEF Picks, longer

(* Selected picks the elements at the positions of K, all of them and in   *)
(* their order.                                                            *)
LEMMA SelectedPicks ==
  ASSUME NEW S, NEW s \in Seq(S), NEW K
  PROVE  /\ Selected(s, K) \in Seq(S)
         /\ \E pos : Picks(s, K, Len(s), Selected(s, K), pos)
<1>1. PICK f : ScanTo(s, K, Len(s), f) /\ Selected(s, K) = f[Len(s)]
  BY SelectedScan
<1>2. Len(s) \in Nat /\ \A i \in 0 .. Len(s) : f[i] \in Seq(S)
  BY <1>1, LenProperties, ScanTyped
<1> DEFINE P == {n \in Nat : n <= Len(s) => \E pos : Picks(s, K, n, f[n], pos)}
<1>3. 0 \in P
  <2>1. f[0] = << >> /\ Len(f[0]) = 0
    BY <1>1, <1>2 DEF ScanTo
  <2>2. Picks(s, K, 0, f[0], [j \in 1 .. 0 |-> 0])
    BY <2>1 DEF Picks
  <2> QED
    BY <2>2
<1>4. ASSUME NEW n \in P PROVE n + 1 \in P
  <2> SUFFICES ASSUME n + 1 <= Len(s) PROVE \E pos : Picks(s, K, n + 1, f[n + 1], pos)
    BY <1>4
  <2>1. n \in Nat /\ f[n] \in Seq(S)
    BY <1>2
  <2>2. f[n + 1] = IF n + 1 \in K THEN Append(f[n], s[n + 1]) ELSE f[n]
    BY <1>1, <1>2, <2>1 DEF ScanTo
  <2>3. PICK pos : Picks(s, K, n, f[n], pos)
    BY <1>2, <2>1
  <2>4. CASE n + 1 \in K
    BY <2>1, <2>2, <2>3, <2>4, PicksNext
  <2>5. CASE n + 1 \notin K
    <3>1. K \cap 1 .. n + 1 = K \cap 1 .. n
      BY <2>1, <2>5
    <3>2. Picks(s, K, n + 1, f[n], pos)
      BY <2>3, <3>1 DEF Picks
    <3> QED
      BY <2>2, <2>5, <3>2
  <2> QED
    BY <2>4, <2>5
<1>5. P = Nat
  <2>1. P \in SUBSET Nat
    OBVIOUS
  <2> HIDE DEF P
  <2> QED
    BY <1>3, <1>4, <2>1, NatSetInduction
<1> QED
  BY <1>1, <1>2, <1>5

(* What stays was there, and stays if its position is one of K. *)
LEMMA SelectedElements ==
  ASSUME NEW S, NEW s \in Seq(S), NEW K
  PROVE  /\ Selected(s, K) \in Seq(S)
         /\ \A j \in 1 .. Len(Selected(s, K)) :
              \E i \in K \cap 1 .. Len(s) : Selected(s, K)[j] = s[i]
         /\ \A i \in K \cap 1 .. Len(s) :
              \E j \in 1 .. Len(Selected(s, K)) : Selected(s, K)[j] = s[i]
<1> DEFINE sel == Selected(s, K)
<1>1. sel \in Seq(S) /\ \E pos : Picks(s, K, Len(s), sel, pos)
  BY SelectedPicks
<1> HIDE DEF sel
<1>2. PICK pos : Picks(s, K, Len(s), sel, pos)
  BY <1>1
<1>3. \A j \in 1 .. Len(sel) : \E i \in K \cap 1 .. Len(s) : sel[j] = s[i]
  BY <1>2 DEF Picks
<1>4. \A i \in K \cap 1 .. Len(s) : \E j \in 1 .. Len(sel) : sel[j] = s[i]
  BY <1>2 DEF Picks
<1> QED
  BY <1>1, <1>3, <1>4 DEF sel

-----------------------------------------------------------------------------
(* A turn stays in X. *)
Keeps(turn, X) == \A x \in X : turn[x] \in X

(* f holds what the loop has after each of its first n turns. *)
Turned(turn, n, start, f) ==
  \A i \in 0 .. n : f[i] = IF i = 0 THEN start ELSE turn[f[i - 1]]

LEMMA TurnStep ==
  ASSUME NEW X, NEW turn, NEW start \in X, Keeps(turn, X),
         NEW n \in Nat, NEW f \in [0 .. n -> X], Turned(turn, n, start, f)
  PROVE  \E g \in [0 .. n + 1 -> X] : Turned(turn, n + 1, start, g)
<1> DEFINE last == turn[f[n]]
           g == [i \in 0 .. n + 1 |-> IF i = n + 1 THEN last ELSE f[i]]
<1>1. last \in X
  BY DEF Keeps
<1> HIDE DEF last
<1>2. g \in [0 .. n + 1 -> X]
  BY <1>1
<1>3. (\A i \in 0 .. n : g[i] = f[i]) /\ g[n + 1] = last
  OBVIOUS
<1> HIDE DEF g
<1>4. ASSUME NEW i \in 0 .. n + 1
      PROVE  g[i] = IF i = 0 THEN start ELSE turn[g[i - 1]]
  <2>1. CASE i = n + 1
    BY <1>3, <2>1 DEF last
  <2>2. CASE i \in 0 .. n
    <3>1. i # 0 => i - 1 \in 0 .. n
      BY <2>2
    <3> QED
      BY <1>3, <2>2, <3>1 DEF Turned
  <2> QED
    BY <2>1, <2>2
<1> QED
  BY <1>2, <1>4 DEF Turned

(* The loop makes its n turns. *)
LEMMA TurnsExist ==
  ASSUME NEW X, NEW turn, NEW start \in X, Keeps(turn, X), NEW n \in Nat
  PROVE  \E f \in [0 .. n -> X] : Turned(turn, n, start, f)
<1> DEFINE P == {k \in Nat : \E f \in [0 .. k -> X] : Turned(turn, k, start, f)}
<1>1. 0 \in P
  <2> DEFINE f == [i \in 0 .. 0 |-> start]
  <2>1. f \in [0 .. 0 -> X] /\ Turned(turn, 0, start, f)
    BY DEF Turned
  <2> QED
    BY <2>1
<1>2. ASSUME NEW k \in P PROVE k + 1 \in P
  <2>1. k \in Nat
    OBVIOUS
  <2>2. PICK f \in [0 .. k -> X] : Turned(turn, k, start, f)
    OBVIOUS
  <2>3. \E g \in [0 .. k + 1 -> X] : Turned(turn, k + 1, start, g)
    BY <2>1, <2>2, TurnStep
  <2> QED
    BY <2>1, <2>3
<1>3. P = Nat
  <2>1. P \in SUBSET Nat
    OBVIOUS
  <2> HIDE DEF P
  <2> QED
    BY <1>1, <1>2, <2>1, NatSetInduction
<1> QED
  BY <1>3

LEMMA RepeatedTurns ==
  ASSUME NEW X, NEW turn, NEW start \in X, Keeps(turn, X), NEW n \in Nat
  PROVE  \E f \in [0 .. n -> X] : Turned(turn, n, start, f) /\ Repeated(turn, n, start) = f[n]
<1> DEFINE Fix(f) == f = [i \in 0 .. n |-> IF i = 0 THEN start ELSE turn[f[i - 1]]]
           loop == CHOOSE f : Fix(f)
<1>1. PICK h \in [0 .. n -> X] : Turned(turn, n, start, h)
  BY TurnsExist
<1>2. Fix(h)
  BY <1>1 DEF Turned
<1>3. Fix(loop)
  BY <1>2
<1>4. Repeated(turn, n, start) = loop[n]
  BY DEF Repeated
<1> HIDE DEF loop
<1>5. Turned(turn, n, start, loop)
  BY <1>3 DEF Turned
<1> DEFINE P == {k \in Nat : k <= n => loop[k] \in X}
<1>6. 0 \in P
  BY <1>5 DEF Turned
<1>7. ASSUME NEW k \in P PROVE k + 1 \in P
  <2> SUFFICES ASSUME k + 1 <= n PROVE loop[k + 1] \in X
    BY <1>7
  <2>1. k \in Nat /\ loop[k] \in X
    OBVIOUS
  <2>2. k + 1 \in 0 .. n /\ k + 1 # 0 /\ (k + 1) - 1 = k
    BY <2>1
  <2>3. loop[k + 1] = turn[loop[k]]
    BY <1>5, <2>2 DEF Turned
  <2> QED
    BY <2>1, <2>3 DEF Keeps
<1>8. P = Nat
  <2>1. P \in SUBSET Nat
    OBVIOUS
  <2> HIDE DEF P
  <2> QED
    BY <1>6, <1>7, <2>1, NatSetInduction
<1>9. loop \in [0 .. n -> X]
  <2>1. loop = [i \in 0 .. n |-> loop[i]]
    BY <1>3
  <2>2. \A i \in 0 .. n : loop[i] \in X
    BY <1>8
  <2> QED
    BY <2>1, <2>2
<1> QED
  BY <1>4, <1>5, <1>9

(* What a turn keeps holds after all of them. *)
LEMMA RepeatedKeeps ==
  ASSUME NEW X, NEW turn, NEW start \in X, Keeps(turn, X), NEW n \in Nat
  PROVE  Repeated(turn, n, start) \in X
<1>1. \E f \in [0 .. n -> X] : Turned(turn, n, start, f) /\ Repeated(turn, n, start) = f[n]
  BY RepeatedTurns
<1>2. n \in 0 .. n
  OBVIOUS
<1> QED
  BY <1>1, <1>2

(* A loop whose turns make something smaller, or change nothing, is at     *)
(* rest after as many turns.                                               *)
LEMMA RepeatedRests ==
  ASSUME NEW X, NEW turn, NEW start \in X, Keeps(turn, X), NEW n \in Nat,
         NEW size \in [X -> Nat], size[start] <= n,
         \A x \in X : turn[x] = x \/ size[turn[x]] < size[x]
  PROVE  /\ Repeated(turn, n, start) \in X
         /\ turn[Repeated(turn, n, start)] = Repeated(turn, n, start)
<1>0. \E f \in [0 .. n -> X] : Turned(turn, n, start, f) /\ Repeated(turn, n, start) = f[n]
  BY RepeatedTurns
<1>1. PICK f \in [0 .. n -> X] : Turned(turn, n, start, f) /\ Repeated(turn, n, start) = f[n]
  BY <1>0
<1> DEFINE P == {k \in Nat : k <= n => turn[f[k]] = f[k] \/ size[f[k]] + k <= n}
<1>2. 0 \in P
  BY <1>1 DEF Turned
<1>3. ASSUME NEW k \in P PROVE k + 1 \in P
  <2> SUFFICES ASSUME k + 1 <= n
               PROVE  turn[f[k + 1]] = f[k + 1] \/ size[f[k + 1]] + (k + 1) <= n
    BY <1>3
  <2>1. k \in Nat /\ f[k] \in X /\ f[k + 1] \in X
    OBVIOUS
  <2>2. f[k + 1] = turn[f[k]]
    <3>1. k + 1 \in 0 .. n /\ k + 1 # 0 /\ (k + 1) - 1 = k
      BY <2>1
    <3> QED
      BY <1>1, <3>1 DEF Turned
  <2>3. CASE turn[f[k]] = f[k]
    BY <2>2, <2>3
  <2>4. CASE turn[f[k]] # f[k]
    <3>1. size[f[k]] + k <= n
      BY <2>1, <2>4
    <3>2. size[f[k + 1]] < size[f[k]] /\ size[f[k + 1]] \in Nat /\ size[f[k]] \in Nat
      BY <2>1, <2>2, <2>4 DEF Keeps
    <3> QED
      BY <2>1, <3>1, <3>2
  <2> QED
    BY <2>3, <2>4
<1>4. P = Nat
  <2>1. P \in SUBSET Nat
    OBVIOUS
  <2> HIDE DEF P
  <2> QED
    BY <1>2, <1>3, <2>1, NatSetInduction
<1>5. f[n] \in X /\ (turn[f[n]] = f[n] \/ size[f[n]] + n <= n)
  BY <1>4
<1>6. size[f[n]] \in Nat /\ turn[f[n]] \in X /\ size[turn[f[n]]] \in Nat
  BY <1>5 DEF Keeps
<1> QED
  BY <1>1, <1>5, <1>6

-----------------------------------------------------------------------------
(* Erasing an element leaves the others, in their order. *)
LEMMA RemoveAtProperties ==
  ASSUME NEW S, NEW s \in Seq(S), NEW i \in 1 .. Len(s)
  PROVE  /\ RemoveAt(s, i) \in Seq(S)
         /\ Len(RemoveAt(s, i)) = Len(s) - 1
         /\ \A j \in 1 .. Len(s) - 1 : RemoveAt(s, i)[j] = IF j < i THEN s[j] ELSE s[j + 1]
<1> DEFINE front == SubSeq(s, 1, i - 1)
           back == SubSeq(s, i + 1, Len(s))
<1>1. Len(s) \in Nat /\ i \in Nat /\ \A j \in 1 .. Len(s) : s[j] \in S
  BY LenProperties, ElementOfSeq
<1>2. front \in Seq(S) /\ Len(front) = i - 1 /\ \A j \in 1 .. i - 1 : front[j] = s[j]
  <2>1. \A j \in 1 .. i - 1 : s[j] \in S
    BY <1>1
  <2>2. /\ front \in Seq(S) /\ Len(front) = IF 1 <= i - 1 THEN (i - 1) - 1 + 1 ELSE 0
        /\ \A j \in 1 .. (i - 1) - 1 + 1 : front[j] = s[1 + j - 1]
    BY <1>1, <2>1, SubSeqProperties
  <2> QED
    BY <1>1, <2>2
<1>3. /\ back \in Seq(S) /\ Len(back) = Len(s) - i
      /\ \A j \in 1 .. Len(s) - i : back[j] = s[i + j]
  <2>1. \A j \in i + 1 .. Len(s) : s[j] \in S
    BY <1>1
  <2>2. /\ back \in Seq(S) /\ Len(back) = IF i + 1 <= Len(s) THEN Len(s) - (i + 1) + 1 ELSE 0
        /\ \A j \in 1 .. Len(s) - (i + 1) + 1 : back[j] = s[(i + 1) + j - 1]
    BY <1>1, <2>1, SubSeqProperties
  <2> QED
    BY <1>1, <2>2
<1>4. RemoveAt(s, i) = front \o back
  BY DEF RemoveAt
<1> HIDE DEF front, back
<1>5. /\ front \o back \in Seq(S)
      /\ Len(front \o back) = Len(front) + Len(back)
      /\ \A j \in 1 .. Len(front) + Len(back) :
           (front \o back)[j] = IF j <= Len(front) THEN front[j] ELSE back[j - Len(front)]
  BY <1>2, <1>3, ConcatProperties
<1>6. ASSUME NEW j \in 1 .. Len(s) - 1
      PROVE  RemoveAt(s, i)[j] = IF j < i THEN s[j] ELSE s[j + 1]
  <2>1. j \in 1 .. Len(front) + Len(back)
    BY <1>1, <1>2, <1>3
  <2>2. CASE j < i
    <3>1. j <= Len(front) /\ j \in 1 .. i - 1
      BY <1>1, <1>2, <2>2
    <3> QED
      BY <1>2, <1>4, <1>5, <2>1, <2>2, <3>1
  <2>3. CASE ~(j < i)
    <3>1. ~(j <= Len(front)) /\ j - Len(front) \in 1 .. Len(s) - i /\ i + (j - Len(front)) = j + 1
      BY <1>1, <1>2, <2>3
    <3> QED
      BY <1>3, <1>4, <1>5, <2>1, <2>3, <3>1
  <2> QED
    BY <2>2, <2>3
<1> QED
  BY <1>1, <1>2, <1>3, <1>4, <1>5, <1>6

(* The elements of a list. *)
LEMMA ToSetOfSeq ==
  ASSUME NEW S, NEW s \in Seq(S)
  PROVE  /\ ToSet(s) = {s[i] : i \in 1 .. Len(s)}
         /\ ToSet(s) \subseteq S
         /\ s \in Seq(ToSet(s))
<1>1. DOMAIN s = 1 .. Len(s) /\ Len(s) \in Nat /\ s \in [1 .. Len(s) -> S]
  BY LenProperties
<1>2. ToSet(s) = {s[i] : i \in 1 .. Len(s)}
  BY <1>1 DEF ToSet
<1>3. s \in [1 .. Len(s) -> ToSet(s)]
  BY <1>1, <1>2
<1>4. s \in Seq(ToSet(s))
  BY <1>1, <1>3, SeqDef
<1> QED
  BY <1>1, <1>2, <1>4

(* An element joins them. *)
LEMMA ToSetOfAppend ==
  ASSUME NEW S, NEW s \in Seq(S), NEW e \in S
  PROVE  ToSet(Append(s, e)) = ToSet(s) \cup {e}
<1>1. /\ Append(s, e) \in Seq(S) /\ Len(Append(s, e)) = Len(s) + 1
      /\ \A i \in 1 .. Len(s) : Append(s, e)[i] = s[i]
      /\ Append(s, e)[Len(s) + 1] = e
  BY AppendProperties
<1>2. Len(s) \in Nat
  BY LenProperties
<1>3. /\ ToSet(s) = {s[i] : i \in 1 .. Len(s)}
      /\ ToSet(Append(s, e)) = {Append(s, e)[i] : i \in 1 .. Len(s) + 1}
  BY <1>1, ToSetOfSeq
<1> QED
  BY <1>1, <1>2, <1>3

OnlyAt(s, i) == \A j \in 1 .. Len(s) : j # i => s[j] # s[i]

(* One is erased of which there is no other. *)
LEMMA ToSetOfRemoveAt ==
  ASSUME NEW S, NEW s \in Seq(S), NEW i \in 1 .. Len(s), OnlyAt(s, i)
  PROVE  ToSet(RemoveAt(s, i)) = ToSet(s) \ {s[i]}
<1> DEFINE rest == RemoveAt(s, i)
<1>1. /\ rest \in Seq(S) /\ Len(rest) = Len(s) - 1
      /\ \A j \in 1 .. Len(s) - 1 : rest[j] = IF j < i THEN s[j] ELSE s[j + 1]
  BY RemoveAtProperties
<1>2. Len(s) \in Nat
  BY LenProperties
<1> HIDE DEF rest
<1>3. /\ ToSet(s) = {s[j] : j \in 1 .. Len(s)}
      /\ ToSet(rest) = {rest[j] : j \in 1 .. Len(s) - 1}
  BY <1>1, ToSetOfSeq
<1>4. ASSUME NEW j \in 1 .. Len(s) - 1
      PROVE  \E k \in 1 .. Len(s) : k # i /\ rest[j] = s[k]
  <2>1. j \in 1 .. Len(s) /\ j + 1 \in 1 .. Len(s)
    BY <1>2
  <2>2. CASE j < i
    BY <1>1, <2>1, <2>2
  <2>3. CASE ~(j < i)
    <3>1. j + 1 # i
      BY <2>3
    <3> QED
      BY <1>1, <2>1, <2>3, <3>1
  <2> QED
    BY <2>2, <2>3
<1>5. ASSUME NEW k \in 1 .. Len(s), k # i
      PROVE  \E j \in 1 .. Len(s) - 1 : rest[j] = s[k]
  <2>1. CASE k < i
    <3>1. k \in 1 .. Len(s) - 1
      BY <1>2, <2>1
    <3> QED
      BY <1>1, <2>1, <3>1
  <2>2. CASE k > i
    <3>1. k - 1 \in 1 .. Len(s) - 1 /\ ~(k - 1 < i) /\ (k - 1) + 1 = k
      BY <1>2, <2>2
    <3> QED
      BY <1>1, <3>1
  <2> QED
    BY <1>5, <2>1, <2>2
<1>6. ToSet(rest) \subseteq ToSet(s) \ {s[i]}
  BY <1>3, <1>4 DEF OnlyAt
<1>7. ToSet(s) \ {s[i]} \subseteq ToSet(rest)
  BY <1>3, <1>5
<1> QED
  BY <1>6, <1>7 DEF rest

(* One of which there is no other becomes e. *)
LEMMA ToSetOfReplaced ==
  ASSUME NEW S, NEW s \in Seq(S), NEW i \in 1 .. Len(s), NEW e \in S, OnlyAt(s, i)
  PROVE  /\ [s EXCEPT ![i] = e] \in Seq(S) /\ Len([s EXCEPT ![i] = e]) = Len(s)
         /\ ToSet([s EXCEPT ![i] = e]) = (ToSet(s) \ {s[i]}) \cup {e}
<1> DEFINE new == [s EXCEPT ![i] = e]
<1>1. Len(s) \in Nat
  BY LenProperties
<1>2. /\ new \in Seq(S) /\ Len(new) = Len(s) /\ new[i] = e
      /\ \A j \in 1 .. Len(s) : j # i => new[j] = s[j]
  BY ExceptSeq
<1> HIDE DEF new
<1>3. /\ ToSet(s) = {s[j] : j \in 1 .. Len(s)}
      /\ ToSet(new) = {new[j] : j \in 1 .. Len(s)}
  BY <1>2, ToSetOfSeq
<1>4. ToSet(new) \subseteq (ToSet(s) \ {s[i]}) \cup {e}
  BY <1>2, <1>3 DEF OnlyAt
<1>5. (ToSet(s) \ {s[i]}) \cup {e} \subseteq ToSet(new)
  BY <1>2, <1>3
<1>6. ToSet(new) = (ToSet(s) \ {s[i]}) \cup {e}
  BY <1>4, <1>5
<1> QED
  BY <1>2, <1>6 DEF new

(* The elements selected. *)
LEMMA ToSetOfSelected ==
  ASSUME NEW S, NEW s \in Seq(S), NEW K
  PROVE  ToSet(Selected(s, K)) = {s[i] : i \in K \cap 1 .. Len(s)}
<1> DEFINE sel == Selected(s, K)
<1>1. /\ sel \in Seq(S)
      /\ \A j \in 1 .. Len(sel) : \E i \in K \cap 1 .. Len(s) : sel[j] = s[i]
      /\ \A i \in K \cap 1 .. Len(s) : \E j \in 1 .. Len(sel) : sel[j] = s[i]
  BY SelectedElements
<1> HIDE DEF sel
<1>2. ToSet(sel) = {sel[j] : j \in 1 .. Len(sel)}
  BY <1>1, ToSetOfSeq
<1>3. ToSet(sel) \subseteq {s[i] : i \in K \cap 1 .. Len(s)}
  BY <1>1, <1>2
<1>4. {s[i] : i \in K \cap 1 .. Len(s)} \subseteq ToSet(sel)
  BY <1>1, <1>2
<1> QED
  BY <1>3, <1>4 DEF sel

-----------------------------------------------------------------------------
(* The numbers of the elements of s rise. *)
Rising(s, number) ==
  \A i, j \in 1 .. Len(s) : i < j => number[s[i]] < number[s[j]]

LEMMA RisingDistinct ==
  ASSUME NEW S, NEW s \in Seq(S), NEW number \in [S -> Nat], Rising(s, number),
         NEW i \in 1 .. Len(s), NEW j \in 1 .. Len(s), i # j
  PROVE  s[i] # s[j] /\ number[s[i]] # number[s[j]]
<1>1. Len(s) \in Nat /\ s[i] \in S /\ s[j] \in S
  BY LenProperties, ElementOfSeq
<1>2. number[s[i]] \in Nat /\ number[s[j]] \in Nat
  BY <1>1
<1>3. i < j \/ j < i
  BY <1>1
<1> QED
  BY <1>2, <1>3 DEF Rising

LEMMA RisingAppend ==
  ASSUME NEW S, NEW s \in Seq(S), NEW number \in [S -> Nat], Rising(s, number), NEW e \in S,
         \A i \in 1 .. Len(s) : number[s[i]] < number[e]
  PROVE  Rising(Append(s, e), number)
<1> DEFINE longer == Append(s, e)
<1>1. /\ Len(longer) = Len(s) + 1 /\ longer[Len(s) + 1] = e
      /\ \A i \in 1 .. Len(s) : longer[i] = s[i]
      /\ Len(s) \in Nat
  BY AppendProperties, LenProperties
<1> HIDE DEF longer
<1>2. ASSUME NEW i \in 1 .. Len(longer), NEW j \in 1 .. Len(longer), i < j
      PROVE  number[longer[i]] < number[longer[j]]
  <2>1. i \in 1 .. Len(s)
    BY <1>1, <1>2
  <2>2. CASE j = Len(s) + 1
    BY <1>1, <2>1, <2>2
  <2>3. CASE j \in 1 .. Len(s)
    BY <1>1, <1>2, <2>1, <2>3 DEF Rising
  <2> QED
    BY <1>1, <2>2, <2>3
<1>3. Rising(longer, number)
  BY <1>2 DEF Rising
<1> QED
  BY <1>3 DEF longer

LEMMA RisingRemoveAt ==
  ASSUME NEW S, NEW s \in Seq(S), NEW number, Rising(s, number), NEW i \in 1 .. Len(s)
  PROVE  Rising(RemoveAt(s, i), number)
<1> DEFINE rest == RemoveAt(s, i)
           was(j) == IF j < i THEN j ELSE j + 1
<1>1. /\ Len(rest) = Len(s) - 1 /\ Len(s) \in Nat
      /\ \A j \in 1 .. Len(s) - 1 : rest[j] = IF j < i THEN s[j] ELSE s[j + 1]
  BY RemoveAtProperties, LenProperties
<1> HIDE DEF rest
<1>2. ASSUME NEW j \in 1 .. Len(rest), NEW k \in 1 .. Len(rest), j < k
      PROVE  number[rest[j]] < number[rest[k]]
  <2>1. rest[j] = s[was(j)] /\ rest[k] = s[was(k)]
    BY <1>1
  <2>2. was(j) \in 1 .. Len(s) /\ was(k) \in 1 .. Len(s) /\ was(j) < was(k)
    BY <1>1, <1>2
  <2> HIDE DEF was
  <2> QED
    BY <2>1, <2>2 DEF Rising
<1>3. Rising(rest, number)
  BY <1>2 DEF Rising
<1> QED
  BY <1>3 DEF rest

LEMMA RisingReplaced ==
  ASSUME NEW S, NEW s \in Seq(S), NEW number, Rising(s, number), NEW i \in 1 .. Len(s),
         NEW e \in S, number[e] = number[s[i]]
  PROVE  Rising([s EXCEPT ![i] = e], number)
<1> DEFINE new == [s EXCEPT ![i] = e]
<1>1. /\ Len(new) = Len(s) /\ new[i] = e
      /\ \A j \in 1 .. Len(s) : j # i => new[j] = s[j]
  BY ExceptSeq
<1> HIDE DEF new
<1>2. \A j \in 1 .. Len(s) : number[new[j]] = number[s[j]]
  BY <1>1
<1>3. Rising(new, number)
  BY <1>1, <1>2 DEF Rising
<1> QED
  BY <1>3 DEF new

LEMMA RisingSelected ==
  ASSUME NEW S, NEW s \in Seq(S), NEW number, Rising(s, number), NEW K
  PROVE  Rising(Selected(s, K), number)
<1> DEFINE sel == Selected(s, K)
<1>1. sel \in Seq(S) /\ \E pos : Picks(s, K, Len(s), sel, pos)
  BY SelectedPicks
<1> HIDE DEF sel
<1>2. PICK pos : Picks(s, K, Len(s), sel, pos)
  BY <1>1
<1>3. ASSUME NEW i \in 1 .. Len(sel), NEW j \in 1 .. Len(sel), i < j
      PROVE  number[sel[i]] < number[sel[j]]
  <2>1. /\ pos[i] \in 1 .. Len(s) /\ pos[j] \in 1 .. Len(s) /\ pos[i] < pos[j]
        /\ sel[i] = s[pos[i]] /\ sel[j] = s[pos[j]]
    BY <1>2, <1>3 DEF Picks
  <2> QED
    BY <2>1 DEF Rising
<1>4. Rising(sel, number)
  BY <1>3 DEF Rising
<1> QED
  BY <1>4 DEF sel

-----------------------------------------------------------------------------
(* A list of n equal elements. *)
LEMMA CopiesTyped ==
  ASSUME NEW S, NEW e \in S, NEW n \in Nat
  PROVE  [i \in 1 .. n |-> e] \in Seq(S) /\ Len([i \in 1 .. n |-> e]) = n
<1> DEFINE copies == [i \in 1 .. n |-> e]
<1>1. copies \in [1 .. n -> S] /\ DOMAIN copies = 1 .. n
  OBVIOUS
<1> HIDE DEF copies
<1>2. copies \in Seq(S)
  BY <1>1, SeqDef
<1>3. Len(copies) \in Nat /\ 1 .. Len(copies) = 1 .. n
  BY <1>1, <1>2, LenProperties
<1> QED
  BY <1>2, <1>3 DEF copies

(* DataQueue::remove leaves elements that were there. *)
LEMMA RemovedTyped ==
  ASSUME NEW S, NEW q \in Seq(S), NEW fd
  PROVE  Removed(q, fd) \in Seq(S)
<1> DEFINE T == ToSet(q)
           X == {scan \in RemoveState(q) : scan.at \in Nat \ {0}}
           turn == [scan \in RemoveState(q) |-> RemoveTurn(scan, fd)]
           start == [queue |-> q, at |-> 1]
<1>1. T \subseteq S /\ q \in Seq(T)
  BY ToSetOfSeq
<1>2. start \in X
  BY <1>1 DEF RemoveState
<1>3. ASSUME NEW scan \in X PROVE turn[scan] \in X
  <2>1. /\ scan.queue \in Seq(T) /\ scan.at \in Nat \ {0}
        /\ turn[scan] = RemoveTurn(scan, fd) /\ Len(scan.queue) \in Nat
    BY <1>3, LenProperties DEF RemoveState
  <2>2. CASE scan.at > Len(scan.queue)
    BY <2>1, <2>2 DEF RemoveTurn
  <2>3. CASE ~(scan.at > Len(scan.queue))
    <3> DEFINE rest == RemoveAt(scan.queue, scan.at)
    <3>1. rest \in Seq(T) /\ Len(rest) \in Nat
      BY <2>1, <2>3, RemoveAtProperties, LenProperties
    <3>2. AfterErase(rest, scan.at) \in Nat \ {0}
      BY <2>1, <3>1 DEF AfterErase
    <3>3. [queue |-> rest, at |-> AfterErase(rest, scan.at)] \in X
      BY <3>1, <3>2 DEF RemoveState
    <3>4. [scan EXCEPT !.at = @ + 1] \in X
      BY <2>1 DEF RemoveState
    <3> QED
      BY <2>1, <2>3, <3>3, <3>4 DEF RemoveTurn
  <2> QED
    BY <2>2, <2>3
<1>4. Keeps(turn, X)
  BY <1>3 DEF Keeps
<1>5. Turns(q) \in Nat
  <2>1. Len(q) \in Nat
    BY LenProperties
  <2> DEFINE m == Len(q) + 1
  <2>2. m \in Nat
    BY <2>1
  <2> HIDE DEF m
  <2>3. m * m \in Nat
    BY <2>2
  <2> QED
    BY <2>3 DEF Turns, m
<1>6. Removed(q, fd) = Repeated(turn, Turns(q), start).queue
  BY DEF Removed
<1> HIDE DEF turn, start, X
<1>7. Repeated(turn, Turns(q), start) \in X
  BY <1>2, <1>4, <1>5, RepeatedKeeps
<1>8. Removed(q, fd) \in Seq(T)
  BY <1>6, <1>7 DEF X, RemoveState
<1> QED
  BY <1>1, <1>8, SeqMonotonic

=============================================================================
