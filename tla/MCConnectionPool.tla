-------------------------- MODULE MCConnectionPool --------------------------
(***************************************************************************)
(* ConnectionPool for TLC.  Enough connections that a thread that creates  *)
(* one always finds a free identity.                                       *)
(***************************************************************************)
EXTENDS ConnectionPool

ASSUME MCAssumption ==
  Cardinality(Connections) >=
    Cardinality(Threads) + IF InitialSize > MaxPoolSize THEN InitialSize ELSE MaxPoolSize
=============================================================================
