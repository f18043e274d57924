---------------------------- MODULE MCIngestion ----------------------------
(* Instances of Ingestion for TLC.                                         *)
EXTENDS Ingestion, TLC

Row(digits, type, status) ==
    [bank |-> "HDFC", digits |-> digits, type |-> type, status |-> status,
     opening |-> 0, balance |-> 0]

First == CHOOSE a \in AccountIds : TRUE

NoAccounts == [id \in AccountIds |-> NULL]
OtherCase == [id \in AccountIds |->
    IF id = First THEN [Row("1111", "BANK", "ARCHIVED") EXCEPT !.bank = "Hdfc"] ELSE NULL]

\* What a parser makes of a message.
Read(digits, amount, key) ==
    [outcome |-> "ok", bank |-> "HDFC", digits |-> digits, type |-> NULL,
     amount |-> amount, direction |-> "DEBIT", key |-> key]
Unread(outcome) == [Read(NULL, 0, "k1") EXCEPT !.outcome = outcome]

SameBank == [b \in Banks |-> b]
BothHdfc == [b \in Banks |-> "HDFC"]

\* Two wordings of one payment on one account, a purchase on it, and a payment that
\* overflows its balance if another came before; one that only a later release
\* reads, and an OTP.
OneRelease == {"r1"}
TwoReleases == {"r1", "r2"}
Readings == [r \in Releases |-> [m \in RawEventIds |->
    CASE m = "m1" -> Read("1111", 1, "k1")
      [] m = "m2" -> Read("1111", 1, "k1")
      [] m = "m3" -> Read("1111", 2, "k2")
      [] m = "m4" -> Read("1111", 7, "k1")
      [] m = "m6" -> IF r = "r1" THEN Unread("unknown") ELSE Read("1111", 4, "k1")
      [] m = "m7" -> Unread("ignored")]]

PaymentsByHand == {[raw |-> NULL, amount |-> 1, direction |-> "DEBIT", key |-> "k1"]}

\* One window, all dates.
AllDates == {RawEventIds}

\* The order of arrival, and bodies of a batch.
Arrival == [m \in RawEventIds |->
    CHOOSE n \in 1 .. 7 : <<"m1", "m2", "m3", "m4", "m5", "m6", "m7">>[n] = m]
ImportBatch == {<<"m1", "m4", "m3">>}
StubBatch == {<<"m1", "m3">>}
NoBatches == {}

\* These messages are what OnePostingPerMessage is about.
ASSUME MessagesAreNamed == MessagesNameTheirAccount

\* Handlers and account ids are interchangeable.
Symmetry == Permutations(Threads) \cup Permutations(AccountIds)
=============================================================================
