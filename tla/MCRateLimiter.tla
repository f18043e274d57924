--------------------------- MODULE MCRateLimiter ---------------------------
(* Instances of RateLimiter for TLC.                                       *)
EXTENDS RateLimiter

Person(user, host) == [user |-> user, apiKey |-> NULL, host |-> host]
Device(key, host) == [user |-> NULL, apiKey |-> key, host |-> host]

\* One user and one device behind one address.
Pair == {Person("u1", "h1"), Device("d1", "h1")}

\* Two users and a device at one address.
Household == {Person("u1", "h1"), Person("u2", "h1"), Device("d1", "h1")}
=============================================================================
