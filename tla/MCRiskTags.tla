----------------------------- MODULE MCRiskTags -----------------------------
EXTENDS RiskTags, TLC

CONSTANTS e1, e2, e3, e4, k1, l1, l2

MCSymmetry == Permutations(Editor)
=============================================================================
