----------------------------- MODULE MCApplyFlow -----------------------------
EXTENDS ApplyFlow

\* Two workers on one browser and a form with one required field.
CONSTANTS w1, w2, j1, f1

=============================================================================
