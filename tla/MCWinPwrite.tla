----------------------------- MODULE MCWinPwrite -----------------------------
EXTENDS WinPwrite, TLC

CONSTANTS w1, w2

\* Two extents that touch.
TwoFirst == (w1 :> 0 @@ w2 :> 4)
TwoLength == (w1 :> 4 @@ w2 :> 2)
=============================================================================
