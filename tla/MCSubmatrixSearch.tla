-------------------------- MODULE MCSubmatrixSearch --------------------------
(* Five variables in windows of two, so that a pass takes two windows or    *)
(* three, the last of a backbone of five overlapping the one before it; a   *)
(* backbone of one is shorter than a window.                                *)
EXTENDS SubmatrixSearch

(* Distinct entries, so that a wrong entry or a wrong bit shows, some of    *)
(* them equal in their flip costs.                                          *)
Weights(a, b) == [p \in UpperPair |-> IF p[1] = p[2] THEN a * (p[1] \div 2) - 3
                                      ELSE ((b * (7 * p[1] + p[2])) % 13) - 6]
MCQubos == {Weights(2, 3)}

FromBits(b) == [i \in Var |-> b[i + 1]]
Row(k) == FromBits(<<<<0, 0, 0, 0, 0>>, <<1, 0, 1, 1, 0>>, <<1, 1, 0, 1, 1>>,
                     <<0, 1, 1, 1, 0>>, <<1, 0, 1, 0, 0>>>>[k])
(* One solution, two that differ in one bit and in three, and three.        *)
MCLists == {<<Row(1)>>, <<Row(2), Row(5)>>, <<Row(3), Row(4)>>, <<Row(2), Row(3), Row(4)>>}

(* Two variables and a number that is none.                                 *)
MCMemory == {0, 3, -7}
==============================================================================
