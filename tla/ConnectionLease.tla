--------------------------- MODULE ConnectionLease ---------------------------
(***************************************************************************)
(* What a connection pool promises to the code that leases from it, with   *)
(* no queue, lock, clock or counter: a connection is leased by one client  *)
(* at a time, and one that failed in a client's hands is never leased      *)
(* again.  ConnectionPool implements this specification.                   *)
(***************************************************************************)
CONSTANTS Clients,       \* the threads that lease
          Connections,   \* identities of connections; that of a closed one may be reused
          None           \* what a client without a lease holds

VARIABLES lease,         \* lease[c]: the connection client c holds, or None
          idle,          \* the open connections nobody holds
          broken         \* the open connections that failed in use

leaseVars == <<lease, idle, broken>>

Leased == {lease[c] : c \in Clients} \ {None}
-----------------------------------------------------------------------------
LeaseInit ==
  /\ lease = [c \in Clients |-> None]
  /\ idle \in SUBSET Connections
  /\ broken = {}

\* A client without a lease gets an idle connection.
Reuse(c) ==
  /\ lease[c] = None
  /\ \E r \in idle :
       /\ lease' = [lease EXCEPT ![c] = r]
       /\ idle' = idle \ {r}
  /\ UNCHANGED broken

\* A client without a lease gets a new connection.
Open(c) ==
  /\ lease[c] = None
  /\ \E r \in Connections \ (idle \union Leased) :
       lease' = [lease EXCEPT ![c] = r]
  /\ UNCHANGED <<idle, broken>>

\* The connection a client holds fails.
Fail(c) ==
  /\ lease[c] # None
  /\ broken' = broken \union {lease[c]}
  /\ UNCHANGED <<lease, idle>>

\* A client returns its connection; it is kept only when it did not fail.
Return(c) ==
  /\ lease[c] # None
  /\ lease' = [lease EXCEPT ![c] = None]
  /\ \/ idle' = idle
     \/ /\ lease[c] \notin broken
        /\ idle' = idle \union {lease[c]}
  /\ broken' = broken \ {lease[c]}

\* Idle connections are closed.
Close ==
  /\ idle' \in SUBSET idle
  /\ UNCHANGED <<lease, broken>>

LeaseNext ==
  \/ \E c \in Clients : Reuse(c) \/ Open(c) \/ Fail(c) \/ Return(c)
  \/ Close

LeaseSpec == LeaseInit /\ [][LeaseNext]_leaseVars
-----------------------------------------------------------------------------
\* No connection is held by two clients, none is both held and idle, and no
\* idle connection is a failed one.
ExclusiveLease ==
  /\ \A c, d \in Clients : lease[c] = lease[d] /\ lease[c] # None => c = d
  /\ Leased \intersect idle = {}
  /\ broken \subseteq Leased
=============================================================================
