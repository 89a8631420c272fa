----------------------------- MODULE MCControls -----------------------------
EXTENDS Controls
CONSTANTS esc, f11, kd, pu
MCBound == [b \in Button |-> CASE b \in {"up", "a"} -> {pu}
                               [] b \in {"down", "mode"} -> {kd}
                               [] OTHER -> {}]
=============================================================================
