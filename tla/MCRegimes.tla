------------------------------ MODULE MCRegimes ------------------------------
(* Small values for Regimes: two seeded regimes, two uploads.              *)
EXTENDS Regimes

SeedList == << <<"s", 501>> >>
OneOrTwo == {<<1>>, <<2>>, <<2, 1>>, <<0>>, <<1, 1>>}
Upload(n, d, p) == [name |-> n, start |-> d, periods |-> p]
Uploads == {<<Upload("s", 1001, {1}), Upload("w", 1001, {1, 2})>>, <<Upload("w", 501, {2})>>}
==============================================================================
