----------------------------- MODULE MCAccounts -----------------------------
(* A small instance of Accounts: scenarios of two tabs.                    *)
EXTENDS Accounts

CONSTANTS c1, c2, e1, e2

OneAdmin == [u \in {1} |-> [email |-> e1, admin |-> TRUE, active |-> TRUE,
                            attempts |-> 0, lock |-> "open"]]

Of(first, second, number, lapses) ==
    [calls |-> [c \in Client |-> IF c = c1 THEN first ELSE second],
     tickets |-> number, lapses |-> lapses]

\* Rotation against everything that ends sessions; logins against each other and
\* against resets and updates; reset links; accounts coming and going.
Scenarios == {
    Of({"login", "refresh", "logout"}, {"refresh", "change"}, 3, FALSE),
    Of({"login", "refresh", "logout"}, {"refresh", "change"}, 2, TRUE),
    Of({"login", "refresh"}, {"refresh", "update"}, 3, FALSE),
    Of({"login", "mistype"}, {"mistype", "update"}, 2, TRUE),
    Of({"mistype", "forgot", "reset"}, {"login", "mistype", "reset"}, 2, TRUE),
    Of({"login", "forgot", "refresh"}, {"forgot", "reset"}, 3, FALSE),
    Of({"login", "create", "update"}, {"login", "register", "profile", "delete"}, 2, FALSE)}
=============================================================================
