---------------------------- MODULE MCKsatEncoding ----------------------------
(* Seven variables, ten spins: all formulas of three clauses from a pool    *)
(* whose longer ones are split, with and without the variable whose number  *)
(* the first new one gets, and a formula with weights to cut off.  Sets are *)
(* listed upwards or downwards.                                             *)
EXTENDS KsatEncoding, SequencesExt

Pool == {<<1, -2, 3, -4, 5, -6>>, <<-1, 3, 4, 5, 7>>, <<1, 2, -5, -6>>, <<2, 5, 6, -7>>,
         <<-1, -2, -4>>, <<-3, 6, 7>>, <<1, -6>>, <<-2, -3>>, <<4>>}

MCListed(order, S) ==
  LET up == SelectSeq([i \in 1 .. 2 * maxvar + 1 |-> i - maxvar - 1], LAMBDA lit : lit \in S)
  IN  IF order = "up" THEN up ELSE Reverse(up)

MCCnfs == {SetToSeq(S) \o <<e>> : S \in kSubset(2, Pool), e \in {<<2, -5, 6, -7>>, <<-1, -3, 2>>, <<1, 4>>}}
            \cup {[k \in 1 .. 10 |-> <<1, IF k % 2 = 0 THEN -(k \div 2 + 1) ELSE k \div 2 + 2>>]}
===============================================================================
