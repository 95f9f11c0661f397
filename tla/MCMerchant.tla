----------------------------- MODULE MCMerchant -----------------------------
(* Instances of Merchant for TLC. *)
EXTENDS Merchant, TLC

CONSTANTS owner, guest, x, r1, r2, m1, m2

MCBundles == [l \in Lots |-> IF l = x THEN 2 ELSE 1]
MCPrice == [l \in Lots |-> 1]

\* EntrustedStoreTax on a scale TLC can enumerate: nothing below 2, then 1.
MCTax(m) == IF m >= 2 THEN 1 ELSE 0

\* The goods stay with players, shops and the package (merchant_till).
NothingDropped == ground = Empty

MCSymmetry == Permutations(Shops) \cup Permutations(Restricted)
=============================================================================
