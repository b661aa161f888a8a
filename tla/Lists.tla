---------------------------------- MODULE Lists ----------------------------------
(***************************************************************************)
(* Sorting, filtering and adding up of lists.  A list is arranged by a     *)
(* function that gives a number to some of its positions: they come by     *)
(* their numbers, and those of one number in their order, as               *)
(* Array.prototype.sort leaves them.  The other positions are left out.    *)
(***************************************************************************)
EXTENDS Integers, Sequences, FiniteSets

Earlier(i, j, key) == key[i] < key[j] \/ (key[i] = key[j] /\ i < j)

Arranged(s, key) ==
  LET place == [i \in DOMAIN key |-> Cardinality({j \in DOMAIN key : Earlier(j, i, key)})]
  IN [n \in 1 .. Cardinality(DOMAIN key) |-> s[CHOOSE i \in DOMAIN key : place[i] = n - 1]]

\* The list itself.  TLC works its elements out once and for all here, and those
\* of a function each time it looks at one.
Listed(s) == s \o <<>>

\* The elements at some positions, in their order.
Kept(s, positions) ==
  LET upTo[n \in 0 .. Len(s)] ==
        IF n = 0 THEN <<>>
        ELSE IF n \in positions THEN Append(upTo[n - 1], s[n]) ELSE upTo[n - 1]
  IN upTo[Len(s)]

Summed(s) ==
  LET upTo[n \in 0 .. Len(s)] == IF n = 0 THEN 0 ELSE upTo[n - 1] + s[n]
  IN upTo[Len(s)]

\* A sum that has come down from its peak, which is zero to begin with, and the
\* deepest it has been below one.
Level0 == [total |-> 0, peak |-> 0, fall |-> 0]
Greater(a, b) == IF a >= b THEN a ELSE b
AfterStep(level, step) ==
  LET total == level.total + step
      peak == Greater(level.peak, total)
  IN [total |-> total, peak |-> peak, fall |-> Greater(level.fall, peak - total)]

MaxDrawdown(steps) ==
  LET after[n \in 0 .. Len(steps)] ==
        IF n = 0 THEN Level0 ELSE AfterStep(after[n - 1], steps[n])
  IN after[Len(steps)].fall
=============================================================================
