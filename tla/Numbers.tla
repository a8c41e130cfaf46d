------------------------------- MODULE Numbers --------------------------------
(* What the proofs need of numbers: there is a least of them.  The searches   *)
(* of the code take the first entry that fits.                                *)
EXTENDS Naturals, WellFoundedInduction, TLAPS

LEMMA LeastOf ==
    ASSUME NEW S, S \subseteq Nat, S # {}
    PROVE  \E m \in S : \A n \in S : m <= n
<1> DEFINE R == {ss \in Nat \X Nat : ss[1] < ss[2]}
<1>1. IsWellFoundedOn(R, Nat)
  BY NatLessThanWellFounded DEF OpToRel
<1>2. PICK m \in S : \A n \in S : <<n, m>> \notin R
  <2> HIDE DEF R
  <2> QED BY <1>1, WFMin
<1>3. ASSUME NEW n \in S PROVE m <= n
  <2>1. m \in Nat /\ n \in Nat /\ <<n, m>> \notin R
    BY <1>2
  <2>2. ~(n < m)
    BY <2>1
  <2> QED BY <2>1, <2>2
<1> QED BY <1>3
=============================================================================
