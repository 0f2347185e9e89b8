--------------------------- MODULE MCControlLoop ---------------------------
(***************************************************************************)
(* Instances of ControlLoop for TLC.  Contents are interchangeable.        *)
(***************************************************************************)
EXTENDS ControlLoop, TLC

ContentSymmetry == Permutations(Contents)

\* Two reductions of FairSpec for the liveness run, where TLC's symmetry is not
\* sound: one initial content stands for all of them, and the last stream, which
\* within the bound never breaks, gets no bump; the agent's timer has to do.
LivenessSpec ==
    /\ Init /\ live = CHOOSE c \in Contents : TRUE
    /\ [][Next /\ MaxStreams \notin bump']_vars
    /\ Fairness
=============================================================================
