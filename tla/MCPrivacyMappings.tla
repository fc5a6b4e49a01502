------------------------- MODULE MCPrivacyMappings -------------------------
(* Small instances of PrivacyMappings.                                      *)
EXTENDS PrivacyMappings, TLC

Symmetry ==
    Permutations(Originals) \cup Permutations(Placeholders) \cup Permutations(Requests)
=============================================================================
