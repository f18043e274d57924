------------------------------ MODULE MCAccess ------------------------------
(* Instances of Access for TLC.                                            *)
EXTENDS Access

CONSTANTS alice, bob, carol, dave, key1, a, b, c

\* Two administrators; the other rows are free for registrations.
TwoAdmins == [u \in UserIds |->
    CASE u = alice -> [email |-> a, role |-> "ADMIN", active |-> TRUE]
      [] u = bob   -> [email |-> b, role |-> "ADMIN", active |-> TRUE]
      [] OTHER     -> NULL]

\* Both disable and demote; one enables again; the keys of one; one address
\* that may be registered twice; a login.
AllRequests ==
    {[kind |-> "status", target |-> alice, value |-> FALSE],
     [kind |-> "status", target |-> bob, value |-> FALSE],
     [kind |-> "role", target |-> bob, value |-> "USER"],
     [kind |-> "issue"], [kind |-> "revoke", target |-> key1],
     [kind |-> "ingest", target |-> key1],
     [kind |-> "register", email |-> c],
     [kind |-> "login", target |-> alice],
     [kind |-> "refresh"]}
=============================================================================
