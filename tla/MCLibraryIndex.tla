--------------------------- MODULE MCLibraryIndex ---------------------------
EXTENDS LibraryIndex, TLC
CONSTANTS r1, r2, f1, x1, q1
MCRootOf == f1 :> r1
MCConfigured == {{r1, r2}}
=============================================================================
