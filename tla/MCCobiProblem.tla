---------------------------- MODULE MCCobiProblem ----------------------------
(* Three variables, the smallest problem with SHIL rows between its spins;  *)
(* one coefficient is too large for the int of the scaled normalisation;    *)
(* the library's caller and --shilVal may name what the chip does not have. *)
EXTENDS CobiProblem

MCQubos == {q \in [UpperPair -> {-9, 0, 4, 5, 40}] :
              /\ q[<<0, 0>>] \in {-9, 5} /\ q[<<1, 1>>] \in {0, 4} /\ q[<<2, 2>>] \in {5, 40}
              /\ q[<<1, 2>>] \in {-9, 0, 4} /\ q[<<0, 1>>] # 40 /\ q[<<0, 2>>] # 40}
MCWeights == {[c \in Spin \X Spin |-> ((c[1] * 4 + c[2] * 7) % w) - 7] : w \in {9, 13, 15, 17}}
MCSettings == <<7965>>
MCAnswers ==
  [problem_id : {11}, core_id : {4}, energy : {-16384, -3, 16383},
   spins : {s \in [Spin -> {-1, 1}] : s[0] = 1 \/ s[1] # s[3]}]
==============================================================================
