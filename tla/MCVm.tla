------------------------------- MODULE MCVm -------------------------------
EXTENDS Vm, TLC
CONSTANTS F, G, K, d

\* A program with a global variable, a routine F that holds a routine G, and
\* a routine K whose record is larger than F's.
MCParent == (F :> Main) @@ (G :> F) @@ (K :> Main)
MCArity  == (Main :> 0) @@ (F :> 0) @@ (G :> 0) @@ (K :> 1)
MCLocals == (Main :> 1) @@ (F :> 0) @@ (G :> 0) @@ (K :> 0)

\* Nothing is asked of a machine in which a scope has been lost.
Sound == sound
=============================================================================
