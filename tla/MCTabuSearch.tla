---------------------------- MODULE MCTabuSearch ----------------------------
(* Matrices with several local optima that a tabu search moves between.     *)
EXTENDS TabuSearch

CONSTANT none

(* Rows of the upper triangle of a matrix over three variables.            *)
Upper3(r0, r1, r2) ==
  [p \in {<<0, 0>>, <<0, 1>>, <<0, 2>>, <<1, 1>>, <<1, 2>>, <<2, 2>>} |->
     CASE p[1] = 0 -> r0[p[2] + 1] [] p[1] = 1 -> r1[p[2]] [] OTHER -> r2[1]]

(* Those, and every matrix over a few linear and quadratic weights.         *)
MCQubos ==
  {Upper3(<<-1, -4, 2>>, <<-1, 4>>, <<0>>),
   Upper3(<<-1, 1, -4>>, <<-1, 2>>, <<0>>),
   Upper3(<<1, -4, 3>>, <<4, 2>>, <<-4>>),
   Upper3(<<-1, -4, 3>>, <<-1, 2>>, <<0>>),
   Upper3(<<1, -3, 2>>, <<-2, 2>>, <<1>>)}
  \cup {Upper3(<<a, u, v>>, <<b, w>>, <<c>>) : a, b \in {-1, 1}, c \in {1}, u, v, w \in {-2, 0, 3}}
MCTargets == {none, 2}
=============================================================================
