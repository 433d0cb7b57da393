---------------------------- MODULE AccountsProofs ----------------------------
(***************************************************************************)
(* Theorems about Accounts, for any number of tabs, accounts and tickets,  *)
(* any scenario and any lockout threshold: every property its run checks.  *)
(*                                                                         *)
(* The argument goes in layers.  ShapeInv types the state, says what a     *)
(* request has in memory in each phase and what the foreign keys and the   *)
(* histories keep; BoundInv, that the bounds leave room for the requests   *)
(* under way.  The four others rest on these two and not on each other:    *)
(* SpendInv on the exchange of a ticket, LinkInv on reset links,           *)
(* AttemptInv on the counter of failed logins, EndInv on what a request    *)
(* that ends sessions has seen of them.                                    *)
(***************************************************************************)
EXTENDS Accounts, FiniteSetTheorems, TLAPS

Presenters == {"refresh", "reset"}
Newcomers == {"register", "create"}

\* What a request has in memory: what it was decided to do, and how far it is.
JobShape(j) ==
    /\ j.loaded = None <=> j.call \in Newcomers
    /\ j.now = None <=> j.call = "delete"
    /\ j.ticket # None <=> j.call \in Presenters
    /\ j.call \notin Newcomers \cup {"login", "reset", "delete"} =>
          j.now.attempts = j.loaded.attempts /\ j.now.lock = j.loaded.lock
    /\ j.call = "login" =>
          /\ j.loaded.lock # "locked"
          /\ j.now = IF j.issue = "none" THEN RegisterFailedAttempt(j.loaded)
                     ELSE ClearLockout(j.loaded)
    /\ j.call = "reset" => j.now = ClearLockout(j.loaded) /\ j.bulk = "session"
    /\ j.call \in Newcomers => j.now.attempts = 0
    /\ j.issue = "session" => j.call \in {"login", "refresh"}
    /\ j.issue = "link" => j.call = "forgot"
    /\ j.call = "forgot" <=> j.bulk = "link"
    /\ j.call = "refresh" => j.bulk = "none" /\ j.phase # "scan" /\ j.seen = {j.ticket}
    /\ j.call = "refresh" /\ j.phase = "commit" => j.taken = {j.ticket}
    /\ j.phase = "scan" => j.bulk # "none"
    /\ j.phase # "commit" => j.taken = {}

JobsOK ==
    /\ job \in [Client -> Job \cup {None}]
    /\ \A c \in Client : Running(c) => JobShape(job[c])

\* What the foreign keys keep, and what the histories say of the tables.
TicketsOK ==
    /\ \E n \in 0..MaxTickets : Issued = 1..n
    /\ \A t \in Ticket : tickets[t] # None =>
          /\ origin[t] # None /\ origin[t].user = tickets[t].user
          /\ Exists(tickets[t].user)
    /\ \A c \in Client : held[c] # None => origin[held[c]] # None

\* What a request that is under way can rely on.
RequestsOK ==
    \A c \in Client : Running(c) =>
        LET j == job[c] IN
        /\ j.call \in Newcomers =>
              /\ ~Exists(j.user)
              /\ \A d \in Client \ {c} : Running(d) => job[d].user # j.user
              /\ \A t \in Issued : origin[t].user # j.user
        /\ j.ticket # None =>
              /\ origin[j.ticket] # None /\ origin[j.ticket].user = j.user
              /\ tickets[j.ticket] # None =>
                    tickets[j.ticket].sort = IF j.call = "refresh" THEN "session" ELSE "link"
        /\ j.call = "reset" => tickets[j.ticket] # None \/ ~Exists(j.user)
        /\ \A t \in j.taken : tickets[t] # None

Enders(u) == {c \in Client : Running(c) /\ Ends(job[c]) /\ job[c].user = u}
Presenting(t) == {c \in Client : Running(c) /\ job[c].call \in Presenters /\ job[c].ticket = t}

\* The bounds leave room for what is under way.
BoundInv ==
    /\ Cardinality(Issued) + Cardinality(Issuing) <= MaxTickets
    /\ \A u \in User : epoch[u] + Cardinality(Enders(u)) <= MaxEpoch
    /\ \A t \in Ticket : spends[t] + Cardinality(Presenting(t)) <= Cardinality(Client)

ShapeInv == TypeOK /\ JobsOK /\ TicketsOK /\ RequestsOK

\* A ticket that was exchanged is good no more; and one at a time presents it.
SpendInv ==
    \A t \in Ticket :
        /\ spends[t] > 0 => tickets[t] = None \/ tickets[t].spent
        /\ tickets[t] # None => origin[t] # None
        /\ origin[t] = None => spends[t] = 0
        /\ <<"ticket", t>> \notin overlaps =>
              /\ \A c, d \in Presenting(t) : c = d
              /\ spends[t] <= 1
              /\ spends[t] = 1 => Presenting(t) = {}

Linking(u) == {c \in Client : Running(c) /\ job[c].bulk = "link" /\ job[c].user = u}
LinkInv ==
    \A u \in User : <<"links", u>> \notin overlaps =>
        /\ \A c, d \in Linking(u) : c = d
        /\ \A s, t \in Unspent(u, "link") : s = t
        /\ \A c \in Linking(u) :
              /\ job[c].phase = "take" => Unspent(u, "link") \subseteq job[c].seen
              /\ job[c].phase = "commit" => Unspent(u, "link") \subseteq job[c].taken

Attempting(u) ==
    {c \in Client : Running(c) /\ job[c].call \in {"login", "reset"} /\ job[c].user = u}
AttemptInv ==
    \A u \in User :
        /\ ~Exists(u) => failures[u] = 0
        /\ Exists(u) /\ <<"attempts", u>> \notin overlaps =>
              /\ \A c, d \in Attempting(u) : c = d
              /\ users[u].attempts = failures[u]
              /\ \A c \in Attempting(u) : job[c].loaded.attempts = failures[u]

EndInv ==
    /\ \A t \in Ticket :
          Good(t, "session") /\ t \notin survivors => origin[t].epoch = epoch[origin[t].user]
    /\ \A c \in Client : Running(c) =>
          LET j == job[c] IN
          /\ j.call = "refresh" /\ j.ticket \notin survivors => origin[j.ticket].epoch = j.since
          /\ Ends(j) /\ j.phase # "scan" =>
                Unspent(j.user, "session") \ survivors
                    \subseteq IF j.phase = "take" THEN j.seen ELSE j.taken

-----------------------------------------------------------------------------
(* Rows.                                                                   *)

LEMMA Given ==
    /\ MaxUsers \in Nat \ {0} /\ MaxTickets \in Nat \ {0} /\ MaxFailures \in Nat \ {0}
    /\ MaxEpoch \in Nat /\ IsFiniteSet(Client)
    /\ None \notin User /\ None \notin Ticket /\ None \notin UserRow /\ None \notin TicketRow
    /\ None \notin Job /\ None \notin Origin
  BY AccountConstants

LEMMA ClearLockoutRow ==
    ASSUME NEW row \in UserRow
    PROVE  /\ ClearLockout(row) \in UserRow
           /\ ClearLockout(row).attempts = 0 /\ ClearLockout(row).lock = "open"
<1>1. 0 \in 0..(MaxFailures - 1)
  BY Given
<1> QED
  BY <1>1 DEF ClearLockout, UserRow

LEMMA FailedAttemptRow ==
    ASSUME NEW row \in UserRow
    PROVE  /\ RegisterFailedAttempt(row) \in UserRow
           /\ RegisterFailedAttempt(row).attempts = (row.attempts + 1) % MaxFailures
           /\ RegisterFailedAttempt(row).lock \in {row.lock, "locked"}
<1>1. /\ row.attempts \in 0..(MaxFailures - 1)
      /\ MaxFailures \in Nat \ {0}
  BY Given DEF UserRow
<1>2. CASE row.attempts + 1 >= MaxFailures
  <2>1. row.attempts + 1 = MaxFailures
    BY <1>1, <1>2
  <2>2. (row.attempts + 1) % MaxFailures = 0
    BY <1>1, <2>1
  <2>3. RegisterFailedAttempt(row) = [row EXCEPT !.attempts = 0, !.lock = "locked"]
    BY <1>2 DEF RegisterFailedAttempt
  <2>4. 0 \in 0..(MaxFailures - 1)
    BY <1>1
  <2> QED
    BY <2>1, <2>2, <2>3, <2>4 DEF UserRow
<1>3. CASE ~(row.attempts + 1 >= MaxFailures)
  <2>1. row.attempts + 1 \in 0..(MaxFailures - 1)
    BY <1>1, <1>3
  <2>2. (row.attempts + 1) % MaxFailures = row.attempts + 1
    BY <1>1, <2>1
  <2>3. RegisterFailedAttempt(row) = [row EXCEPT !.attempts = row.attempts + 1]
    BY <1>3 DEF RegisterFailedAttempt
  <2> QED
    BY <2>1, <2>2, <2>3 DEF UserRow
<1> QED
  BY <1>2, <1>3

LEMMA NewAccountRow ==
    ASSUME NEW e \in Email
    PROVE  /\ NewAccount(e) \in UserRow /\ NewAccount(e).attempts = 0
           /\ \A admin, active \in BOOLEAN :
                 LET row == [NewAccount(e) EXCEPT !.admin = admin, !.active = active]
                 IN  row \in UserRow /\ row.attempts = 0
<1>1. 0 \in 0..(MaxFailures - 1)
  BY Given
<1> QED
  BY <1>1 DEF NewAccount, UserRow

\* What the last flush makes of the row of a request.
LEMMA SavedRow ==
    ASSUME NEW j \in Job,
           j.loaded # None /\ j.now # None => users[j.user] \in UserRow
    PROVE  /\ j.now = None => Saved(j) = None
           /\ j.loaded = None => Saved(j) = j.now
           /\ j.now # None => Saved(j) \in UserRow
           /\ j.loaded # None /\ j.now # None =>
                 /\ Saved(j).attempts = IF j.now.attempts # j.loaded.attempts
                                        THEN j.now.attempts ELSE users[j.user].attempts
                 /\ Saved(j).lock = IF j.now.lock # j.loaded.lock
                                    THEN j.now.lock ELSE users[j.user].lock
<1>1. j.loaded \in UserRow \cup {None} /\ j.now \in UserRow \cup {None}
  BY DEF Job
<1>2. CASE j.loaded = None \/ j.now = None
  BY <1>1, <1>2 DEF Saved
<1>3. CASE j.loaded # None /\ j.now # None
  <2> DEFINE old == j.loaded
             new == j.now
             row == users[j.user]
             Pick(f) == IF new[f] # old[f] THEN new[f] ELSE row[f]
  <2>1. old \in UserRow /\ new \in UserRow /\ row \in UserRow
    BY <1>1, <1>3
  <2>2. DOMAIN new = {"email", "admin", "active", "attempts", "lock"}
    BY <2>1 DEF UserRow
  <2>3. Saved(j) = [f \in DOMAIN new |-> Pick(f)]
    BY <1>3 DEF Saved
  <2> HIDE DEF old, new, row
  <2>4. Saved(j) = [email |-> Pick("email"), admin |-> Pick("admin"), active |-> Pick("active"),
                    attempts |-> Pick("attempts"), lock |-> Pick("lock")]
    BY <2>2, <2>3
  <2>5. /\ Pick("email") \in Email /\ Pick("admin") \in BOOLEAN /\ Pick("active") \in BOOLEAN
        /\ Pick("attempts") \in 0..(MaxFailures - 1) /\ Pick("lock") \in {"open", "locked", "lapsed"}
    BY <2>1 DEF UserRow
  <2>6. Saved(j) \in UserRow
    BY <2>4, <2>5 DEF UserRow
  <2>7. Saved(j).attempts = Pick("attempts") /\ Saved(j).lock = Pick("lock")
    BY <2>4
  <2>8. /\ Pick("attempts") = IF new.attempts # old.attempts THEN new.attempts ELSE row.attempts
        /\ Pick("lock") = IF new.lock # old.lock THEN new.lock ELSE row.lock
    OBVIOUS
  <2> QED
    BY <1>3, <2>6, <2>7, <2>8 DEF old, new, row
<1> QED
  BY <1>2, <1>3

-----------------------------------------------------------------------------
(* Every request begins with a decision on what is there.                  *)

Admitted(j) ==
    /\ j \in Job /\ JobShape(j)
    /\ j.loaded = users[j.user] /\ j.since = epoch[j.user]
    /\ j.call \in Newcomers => j.user \in NewUsers
    /\ j.ticket # None =>
          /\ Good(j.ticket, IF j.call = "refresh" THEN "session" ELSE "link")
          /\ tickets[j.ticket].user = j.user
    /\ j.taken = {} /\ (j.bulk # "none" => j.phase = "scan")
    /\ j.issue # "none" => CanIssue
    /\ Ends(j) => CanEnd(j.user)

LEMMA RequestFields ==
    ASSUME NEW call \in Call, NEW u
    PROVE  LET r == Request(call, u)
           IN  /\ r.call = call /\ r.user = u /\ r.loaded = users[u] /\ r.now = users[u]
               /\ r.bulk = "none" /\ r.seen = {} /\ r.taken = {} /\ r.ticket = None
               /\ r.issue = "none" /\ r.phase = "commit" /\ r.since = epoch[u]
               /\ ShapeInv /\ u \in User => r \in Job
<1>1. ASSUME ShapeInv, u \in User
      PROVE  users[u] \in UserRow \cup {None} /\ epoch[u] \in 0..MaxEpoch
  BY <1>1 DEF ShapeInv, TypeOK
<1> QED
  BY <1>1 DEF Request, Job, Sort

LEMMA RequestRow ==
    ASSUME ShapeInv, NEW u \in User, Exists(u) PROVE users[u] \in UserRow
  BY DEF ShapeInv, TypeOK, Exists

\* An account in use is one there is.
LEMMA CurrentIsThere ==
    ASSUME ShapeInv, NEW c \in Client, NEW u \in CurrentUser(c)
    PROVE  u \in User /\ Exists(u) /\ held[c] \in Ticket /\ origin[held[c]].user = u
  BY DEF ShapeInv, TypeOK, CurrentUser

LEMMA GoodTicket ==
    ASSUME ShapeInv, NEW t, t \in Ticket \cup {None}, NEW sort, Good(t, sort), t # None
    PROVE  /\ t \in Ticket /\ tickets[t] \in TicketRow /\ tickets[t].user \in User
           /\ Exists(tickets[t].user) /\ origin[t] # None /\ origin[t].user = tickets[t].user
           /\ t \in Unspent(tickets[t].user, sort)
<1>1. tickets[t] \in TicketRow
  BY DEF ShapeInv, TypeOK, Good
<1> QED
  BY <1>1 DEF ShapeInv, TicketsOK, Good, Unspent, TicketRow

LEMMA Newcomer ==
    ASSUME ShapeInv, NEW u \in NewUsers, NEW row \in UserRow, row.attempts = 0,
           NEW call \in Newcomers
    PROVE  Admitted([Request(call, u) EXCEPT !.now = row])
<1>1. u \in User /\ users[u] = None
  BY DEF NewUsers, Exists
<1>2. call \in Call
  BY DEF Newcomers, Call
<1> PICK j : j = [Request(call, u) EXCEPT !.now = row]
  OBVIOUS
<1>3. /\ j.call = call /\ j.user = u /\ j.loaded = None /\ j.now = row
      /\ j.bulk = "none" /\ j.seen = {} /\ j.taken = {} /\ j.ticket = None
      /\ j.issue = "none" /\ j.phase = "commit" /\ j.since = epoch[u] /\ j \in Job
  BY <1>1, <1>2, RequestFields DEF Request, Job
<1>4. JobShape(j)
  BY <1>3, Given DEF JobShape, Newcomers, Presenters
<1> QED
  BY <1>1, <1>3, <1>4 DEF Admitted, Ends

LEMMA RegisterAdmitted ==
    ASSUME ShapeInv, NEW c \in Client, NEW e \in Email, Register(c, e)
    PROVE  ~Running(c) /\ \E j : Admitted(j) /\ Begin(c, j)
  BY NewAccountRow, Newcomer DEF Register, Ready, Newcomers

LEMMA CreateAdmitted ==
    ASSUME ShapeInv, NEW c \in Client, NEW e \in Email, NEW admin \in BOOLEAN,
           NEW active \in BOOLEAN, Create(c, e, admin, active)
    PROVE  ~Running(c) /\ \E j : Admitted(j) /\ Begin(c, j)
  BY NewAccountRow, Newcomer DEF Create, Ready, Newcomers

LEMMA LoginAdmitted ==
    ASSUME ShapeInv, NEW c \in Client, NEW u \in User, NEW good \in BOOLEAN, Login(c, u, good)
    PROVE  ~Running(c) /\ \E j : Admitted(j) /\ Begin(c, j)
<1> PICK j : j = [Request("login", u) EXCEPT
                    !.now = IF good THEN ClearLockout(@) ELSE RegisterFailedAttempt(@),
                    !.issue = IF good THEN "session" ELSE "none"]
  OBVIOUS
<1>1. ~Running(c) /\ Begin(c, j) /\ Exists(u) /\ ~IsLocked(users[u]) /\ (good => CanIssue)
  BY DEF Login, Ready
<1>2. users[u] \in UserRow
  BY <1>1, RequestRow
<1>3. /\ j.call = "login" /\ j.user = u /\ j.loaded = users[u]
      /\ j.now = (IF good THEN ClearLockout(users[u]) ELSE RegisterFailedAttempt(users[u]))
      /\ j.bulk = "none" /\ j.seen = {} /\ j.taken = {} /\ j.ticket = None
      /\ j.issue = (IF good THEN "session" ELSE "none") /\ j.phase = "commit"
      /\ j.since = epoch[u]
  BY RequestFields DEF Request
<1>4. j.now \in UserRow
  BY <1>2, <1>3, ClearLockoutRow, FailedAttemptRow
<1>5. j = [Request("login", u) EXCEPT !.now = j.now, !.issue = j.issue]
  BY <1>3 DEF Request
<1>6. Request("login", u) \in Job
  BY RequestFields DEF Call
<1>7. j \in Job
  BY <1>3, <1>4, <1>5, <1>6 DEF Job, Sort
<1>8. JobShape(j)
  BY <1>1, <1>2, <1>3, <1>4, Given DEF JobShape, Newcomers, Presenters, IsLocked
<1>9. Admitted(j)
  BY <1>1, <1>3, <1>7, <1>8 DEF Admitted, Ends, Newcomers
<1> QED
  BY <1>1, <1>9

LEMMA RefreshAdmitted ==
    ASSUME ShapeInv, NEW c \in Client, Refresh(c)
    PROVE  ~Running(c) /\ \E j : Admitted(j) /\ Begin(c, j)
<1> DEFINE t == held[c]
           u == tickets[t].user
<1> PICK j : j = [Request("refresh", u) EXCEPT
                    !.ticket = t, !.seen = {t}, !.phase = "take",
                    !.issue = IF users[u].active THEN "session" ELSE "none"]
  OBVIOUS
<1>1. ~Running(c) /\ Begin(c, j) /\ t # None /\ Good(t, "session") /\ CanIssue
  BY DEF Refresh, Ready
<1>2. t \in Ticket /\ u \in User /\ Exists(u)
  BY <1>1, GoodTicket DEF ShapeInv, TypeOK
<1>3. users[u] \in UserRow
  BY <1>2, RequestRow
<1> HIDE DEF t, u
<1>4. /\ j.call = "refresh" /\ j.user = u /\ j.loaded = users[u] /\ j.now = users[u]
      /\ j.bulk = "none" /\ j.seen = {t} /\ j.taken = {} /\ j.ticket = t
      /\ j.issue = (IF users[u].active THEN "session" ELSE "none") /\ j.phase = "take"
      /\ j.since = epoch[u]
  BY RequestFields DEF Request
<1>5. Request("refresh", u) \in Job
  BY <1>2, RequestFields DEF Call
<1>6. j \in Job
  BY <1>2, <1>4, <1>5 DEF Job, Sort
<1>7. JobShape(j)
  <2>1. j.loaded # None /\ j.now # None /\ j.ticket # None /\ j.issue # "link"
    BY <1>1, <1>2, <1>3, <1>4, Given DEF t
  <2>2. j.call \notin Newcomers /\ j.call \in Presenters
    BY <1>4 DEF Newcomers, Presenters
  <2> QED
    BY <1>4, <2>1, <2>2 DEF JobShape
<1>8. Admitted(j)
  BY <1>1, <1>4, <1>6, <1>7 DEF Admitted, Ends, Newcomers, t, u
<1> QED
  BY <1>1, <1>8

LEMMA LogoutAdmitted ==
    ASSUME ShapeInv, NEW c \in Client, NEW everywhere \in BOOLEAN, NEW sent \in BOOLEAN,
           Logout(c, everywhere, sent)
    PROVE  ~Running(c) /\ \E j : Admitted(j) /\ Begin(c, j)
<1> DEFINE mine == IF sent /\ Good(held[c], "session") THEN {held[c]} ELSE {}
<1> PICK u \in CurrentUser(c) :
       Begin(c, [Request("logout", u) EXCEPT
                   !.bulk = IF everywhere THEN "session" ELSE "none",
                   !.seen = IF everywhere THEN {} ELSE mine,
                   !.phase = IF everywhere THEN "scan" ELSE "take"])
  BY DEF Logout
<1> PICK j : j = [Request("logout", u) EXCEPT
                    !.bulk = IF everywhere THEN "session" ELSE "none",
                    !.seen = IF everywhere THEN {} ELSE mine,
                    !.phase = IF everywhere THEN "scan" ELSE "take"]
  OBVIOUS
<1>1. ~Running(c) /\ Begin(c, j)
  BY DEF Logout, Ready
<1>2. u \in User /\ Exists(u) /\ mine \subseteq Ticket
  BY CurrentIsThere
<1>3. users[u] \in UserRow
  BY <1>2, RequestRow
<1> HIDE DEF mine
<1>4. /\ j.call = "logout" /\ j.user = u /\ j.loaded = users[u] /\ j.now = users[u]
      /\ j.bulk = (IF everywhere THEN "session" ELSE "none")
      /\ j.seen = (IF everywhere THEN {} ELSE mine) /\ j.taken = {} /\ j.ticket = None
      /\ j.issue = "none" /\ j.phase = (IF everywhere THEN "scan" ELSE "take")
      /\ j.since = epoch[u]
  BY RequestFields DEF Request
<1>5. Request("logout", u) \in Job
  BY <1>2, RequestFields DEF Call
<1>6. j \in Job
  BY <1>2, <1>4, <1>5, ZenonT(60) DEF Job, Sort
<1>7. JobShape(j)
  BY <1>3, <1>4, Given DEF JobShape, Newcomers, Presenters
<1>8. Admitted(j)
  BY <1>1, <1>4, <1>6, <1>7 DEF Admitted, Ends, Newcomers
<1> QED
  BY <1>1, <1>8

LEMMA ForgotAdmitted ==
    ASSUME ShapeInv, NEW c \in Client, NEW u \in User, RequestPasswordReset(c, u)
    PROVE  ~Running(c) /\ \E j : Admitted(j) /\ Begin(c, j)
<1> PICK j : j = [Request("forgot", u) EXCEPT !.bulk = "link", !.phase = "scan", !.issue = "link"]
  OBVIOUS
<1>1. ~Running(c) /\ Begin(c, j) /\ Exists(u) /\ CanIssue
  BY DEF RequestPasswordReset, Ready
<1>3. users[u] \in UserRow
  BY <1>1, RequestRow
<1>4. /\ j.call = "forgot" /\ j.user = u /\ j.loaded = users[u] /\ j.now = users[u]
      /\ j.bulk = "link" /\ j.seen = {} /\ j.taken = {} /\ j.ticket = None
      /\ j.issue = "link" /\ j.phase = "scan" /\ j.since = epoch[u]
  BY RequestFields DEF Request
<1>5. Request("forgot", u) \in Job
  BY RequestFields DEF Call
<1>6. j \in Job
  BY <1>4, <1>5 DEF Job, Sort
<1>7. JobShape(j)
  BY <1>3, <1>4, Given DEF JobShape, Newcomers, Presenters
<1>8. Admitted(j)
  BY <1>1, <1>4, <1>6, <1>7 DEF Admitted, Ends, Newcomers
<1> QED
  BY <1>1, <1>8

LEMMA ResetAdmitted ==
    ASSUME ShapeInv, NEW c \in Client, NEW t \in Ticket, ResetPassword(c, t)
    PROVE  ~Running(c) /\ \E j : Admitted(j) /\ Begin(c, j)
<1> DEFINE u == tickets[t].user
<1> PICK j : j = [Request("reset", u) EXCEPT
                    !.now = ClearLockout(@), !.ticket = t, !.bulk = "session", !.phase = "scan"]
  OBVIOUS
<1>1. ~Running(c) /\ Begin(c, j) /\ Good(t, "link") /\ CanEnd(u)
  BY DEF ResetPassword, Ready
<1>2. u \in User /\ Exists(u)
  BY <1>1, GoodTicket, Given
<1>3. users[u] \in UserRow
  BY <1>2, RequestRow
<1> HIDE DEF u
<1>4. /\ j.call = "reset" /\ j.user = u /\ j.loaded = users[u] /\ j.now = ClearLockout(users[u])
      /\ j.bulk = "session" /\ j.seen = {} /\ j.taken = {} /\ j.ticket = t
      /\ j.issue = "none" /\ j.phase = "scan" /\ j.since = epoch[u]
  BY RequestFields DEF Request
<1>5. Request("reset", u) \in Job
  BY <1>2, RequestFields DEF Call
<1>6. j.now \in UserRow
  BY <1>3, <1>4, ClearLockoutRow
<1>7. j = [Request("reset", u) EXCEPT !.now = j.now, !.ticket = t, !.bulk = "session",
              !.phase = "scan"]
  BY <1>4 DEF Request
<1>8. j \in Job
  BY <1>4, <1>5, <1>6, <1>7 DEF Job, Sort
<1>9. JobShape(j)
  BY <1>3, <1>4, <1>6, Given DEF JobShape, Newcomers, Presenters
<1>10. Admitted(j)
  BY <1>1, <1>4, <1>8, <1>9 DEF Admitted, Ends, Newcomers, u
<1> QED
  BY <1>1, <1>10

LEMMA ChangeAdmitted ==
    ASSUME ShapeInv, NEW c \in Client, ChangePassword(c)
    PROVE  ~Running(c) /\ \E j : Admitted(j) /\ Begin(c, j)
<1> PICK u \in CurrentUser(c) :
       CanEnd(u) /\ Begin(c, [Request("change", u) EXCEPT !.bulk = "session", !.phase = "scan"])
  BY DEF ChangePassword
<1> PICK j : j = [Request("change", u) EXCEPT !.bulk = "session", !.phase = "scan"]
  OBVIOUS
<1>1. ~Running(c) /\ Begin(c, j)
  BY DEF ChangePassword, Ready
<1>2. u \in User /\ users[u] \in UserRow
  BY CurrentIsThere, RequestRow
<1>4. /\ j.call = "change" /\ j.user = u /\ j.loaded = users[u] /\ j.now = users[u]
      /\ j.bulk = "session" /\ j.seen = {} /\ j.taken = {} /\ j.ticket = None
      /\ j.issue = "none" /\ j.phase = "scan" /\ j.since = epoch[u]
  BY RequestFields DEF Request
<1>5. Request("change", u) \in Job
  BY <1>2, RequestFields DEF Call
<1>6. j \in Job
  BY <1>4, <1>5 DEF Job, Sort
<1>7. JobShape(j)
  BY <1>2, <1>4, Given DEF JobShape, Newcomers, Presenters
<1>8. Admitted(j)
  BY <1>4, <1>6, <1>7 DEF Admitted, Ends, Newcomers
<1> QED
  BY <1>1, <1>8

LEMMA UpdateAdmitted ==
    ASSUME ShapeInv, NEW c \in Client, NEW u \in User, NEW e \in Email,
           NEW admin \in BOOLEAN, NEW active \in BOOLEAN, Update(c, u, e, admin, active)
    PROVE  ~Running(c) /\ \E j : Admitted(j) /\ Begin(c, j)
<1> DEFINE ends == users[u].active /\ ~active
           row == [users[u] EXCEPT !.email = e, !.admin = admin, !.active = active]
<1>1. ~Running(c) /\ Exists(u) /\ (ends => CanEnd(u))
  BY DEF Update, Ready
<1>2. users[u] \in UserRow
  BY <1>1, RequestRow
<1>3. row \in UserRow /\ row.attempts = users[u].attempts /\ row.lock = users[u].lock
  BY <1>2 DEF UserRow
<1>4. ends \in BOOLEAN
  BY <1>2 DEF UserRow
<1> PICK j : j = [Request("update", u) EXCEPT
                    !.now = [@ EXCEPT !.email = e, !.admin = admin, !.active = active],
                    !.bulk = IF ends THEN "session" ELSE "none",
                    !.phase = IF ends THEN "scan" ELSE "commit"]
  OBVIOUS
<1>5. Begin(c, j)
  BY DEF Update
<1>6. /\ j.call = "update" /\ j.user = u /\ j.loaded = users[u] /\ j.now = row
      /\ j.bulk = (IF ends THEN "session" ELSE "none") /\ j.seen = {} /\ j.taken = {}
      /\ j.ticket = None /\ j.issue = "none" /\ j.phase = (IF ends THEN "scan" ELSE "commit")
      /\ j.since = epoch[u]
  BY RequestFields DEF Request
<1>7. Request("update", u) \in Job
  BY RequestFields DEF Call
<1>8. j = [Request("update", u) EXCEPT !.now = j.now, !.bulk = j.bulk, !.phase = j.phase]
  BY <1>6 DEF Request
<1> HIDE DEF ends, row
<1>9. j \in Job
  BY <1>3, <1>4, <1>6, <1>7, <1>8, ZenonT(60) DEF Job, Sort
<1>10. JobShape(j)
  BY <1>2, <1>3, <1>4, <1>6, Given DEF JobShape, Newcomers, Presenters
<1>11. Admitted(j)
  BY <1>1, <1>4, <1>6, <1>9, <1>10 DEF Admitted, Ends, Newcomers
<1> QED
  BY <1>1, <1>5, <1>11

LEMMA ProfileAdmitted ==
    ASSUME ShapeInv, NEW c \in Client, NEW e \in Email, UpdateOwnProfile(c, e)
    PROVE  ~Running(c) /\ \E j : Admitted(j) /\ Begin(c, j)
<1> PICK u \in CurrentUser(c) : Begin(c, [Request("profile", u) EXCEPT !.now.email = e])
  BY DEF UpdateOwnProfile
<1> DEFINE row == [users[u] EXCEPT !.email = e]
<1> PICK j : j = [Request("profile", u) EXCEPT !.now.email = e]
  OBVIOUS
<1>1. ~Running(c) /\ Begin(c, j)
  BY DEF UpdateOwnProfile, Ready
<1>2. u \in User /\ users[u] \in UserRow
  BY CurrentIsThere, RequestRow
<1>3. row \in UserRow /\ row.attempts = users[u].attempts /\ row.lock = users[u].lock
  BY <1>2 DEF UserRow
<1>4. /\ j.call = "profile" /\ j.user = u /\ j.loaded = users[u] /\ j.now = row
      /\ j.bulk = "none" /\ j.seen = {} /\ j.taken = {} /\ j.ticket = None
      /\ j.issue = "none" /\ j.phase = "commit" /\ j.since = epoch[u]
  BY RequestFields DEF Request
<1>5. Request("profile", u) \in Job
  BY <1>2, RequestFields DEF Call
<1>6. j = [Request("profile", u) EXCEPT !.now = j.now]
  BY <1>4 DEF Request
<1> HIDE DEF row
<1>7. j \in Job
  BY <1>3, <1>4, <1>5, <1>6 DEF Job
<1>8. JobShape(j)
  BY <1>2, <1>3, <1>4, Given DEF JobShape, Newcomers, Presenters
<1>9. Admitted(j)
  BY <1>4, <1>7, <1>8 DEF Admitted, Ends, Newcomers
<1> QED
  BY <1>1, <1>9

LEMMA DeleteAdmitted ==
    ASSUME ShapeInv, NEW c \in Client, NEW u \in User, Delete(c, u)
    PROVE  ~Running(c) /\ \E j : Admitted(j) /\ Begin(c, j)
<1> PICK j : j = [Request("delete", u) EXCEPT !.now = None]
  OBVIOUS
<1>1. ~Running(c) /\ Begin(c, j) /\ Exists(u)
  BY DEF Delete, Ready
<1>2. users[u] \in UserRow
  BY <1>1, RequestRow
<1>4. /\ j.call = "delete" /\ j.user = u /\ j.loaded = users[u] /\ j.now = None
      /\ j.bulk = "none" /\ j.seen = {} /\ j.taken = {} /\ j.ticket = None
      /\ j.issue = "none" /\ j.phase = "commit" /\ j.since = epoch[u]
  BY RequestFields DEF Request
<1>5. Request("delete", u) \in Job
  BY RequestFields DEF Call
<1>7. j \in Job
  BY <1>4, <1>5 DEF Job
<1>8. JobShape(j)
  BY <1>2, <1>4, Given DEF JobShape, Newcomers, Presenters
<1>9. Admitted(j)
  BY <1>4, <1>7, <1>8 DEF Admitted, Ends, Newcomers
<1> QED
  BY <1>1, <1>9

\* The requests of a tab come down to one case.
LEMMA CallAdmitted ==
    ASSUME ShapeInv, NEW c \in Client, AuthRouter(c) \/ UserRouter(c)
    PROVE  RefreshRejected(c) \/ (~Running(c) /\ \E j : Admitted(j) /\ Begin(c, j))
<1>1. ASSUME AuthRouter(c)
      PROVE  RefreshRejected(c) \/ (~Running(c) /\ \E j : Admitted(j) /\ Begin(c, j))
  BY <1>1, RegisterAdmitted, LoginAdmitted, ForgotAdmitted, RefreshAdmitted, LogoutAdmitted,
     ResetAdmitted, ChangeAdmitted DEF AuthRouter
<1>2. ASSUME UserRouter(c)
      PROVE  ~Running(c) /\ \E j : Admitted(j) /\ Begin(c, j)
  BY <1>2, CreateAdmitted, UpdateAdmitted, ProfileAdmitted, DeleteAdmitted DEF UserRouter
<1> QED
  BY <1>1, <1>2

-----------------------------------------------------------------------------
(* What each step does: a request begins, advances, commits, or leaves no   *)
(* trace in the tables, or time passes.                                     *)

SameRequest(k, j) ==
    /\ k.call = j.call /\ k.user = j.user /\ k.loaded = j.loaded /\ k.now = j.now
    /\ k.bulk = j.bulk /\ k.ticket = j.ticket /\ k.issue = j.issue /\ k.since = j.since

\* A request scans or takes.
Advance(c, k) ==
    /\ Running(c) /\ k \in Job /\ JobShape(k) /\ SameRequest(k, job[c])
    /\ job' = [job EXCEPT ![c] = k]
    /\ \/ /\ k.phase = "take" /\ k.taken = {}
          /\ k.seen = Unspent(k.user, k.bulk)
       \/ /\ job[c].phase = "take" /\ k.phase = "commit"
          /\ k.seen = job[c].seen
          /\ k.bulk # "none" => k.taken = k.seen \cap Unspent(k.user, k.bulk)
          /\ \A t \in k.taken : tickets[t] # None
    /\ UNCHANGED <<may, tables, held, histories>>

\* A request is turned away or rolled back, a tab reads what another one stored, or
\* nothing happens.
Leave ==
    /\ job' = job \/ \E c \in Client : Running(c) /\ job' = [job EXCEPT ![c] = None]
    /\ held' \in [Client -> Ticket \cup {None}]
    /\ \A c \in Client : held'[c] # None => origin[held'[c]] # None
    /\ UNCHANGED <<may, tables, histories>>

\* Locks and tickets run out, and sessions that did are purged.
Elapse ==
    /\ users' \in [User -> UserRow \cup {None}]
    /\ \A u \in User :
          /\ users'[u] = None <=> users[u] = None
          /\ users[u] # None => users'[u].attempts = users[u].attempts
          /\ users'[u] # users[u] => users'[u].lock = "lapsed"
    /\ tickets' \in [Ticket -> TicketRow \cup {None}]
    /\ \A t \in Ticket :
          /\ tickets[t] = None => tickets'[t] = None
          /\ tickets'[t] # None => /\ tickets'[t].user = tickets[t].user
                                   /\ tickets'[t].sort = tickets[t].sort
                                   /\ tickets'[t].spent <=> tickets[t].spent
                                   /\ tickets[t].lapsed => tickets'[t].lapsed
          /\ tickets[t] # None /\ tickets'[t] = None =>
                /\ tickets[t].sort = "session"
                /\ \A c \in Client : Running(c) => t \notin job[c].taken
    /\ UNCHANGED <<may, held, job, histories>>

LEMMA RunningJob ==
    ASSUME ShapeInv, NEW c \in Client, Running(c)
    PROVE  job[c] \in Job /\ JobShape(job[c])
  BY DEF ShapeInv, JobsOK, Running

LEMMA ScanAdvances ==
    ASSUME ShapeInv, NEW c \in Client, Scan(c)
    PROVE  \E k : Advance(c, k)
<1> DEFINE rows == Unspent(job[c].user, job[c].bulk)
<1> PICK k : k = [job[c] EXCEPT !.phase = "take", !.seen = rows]
  OBVIOUS
<1>1. Running(c) /\ job[c].phase = "scan"
  BY DEF Scan
<1>2. job[c] \in Job /\ JobShape(job[c])
  BY <1>1, RunningJob
<1>3. job' = [job EXCEPT ![c] = k]
  BY DEF Scan
<1>4. rows \subseteq Ticket
  BY DEF Unspent
<1> HIDE DEF rows
<1>5. /\ k \in Job /\ SameRequest(k, job[c]) /\ k.phase = "take" /\ k.taken = job[c].taken
      /\ k.seen = rows
  BY <1>2, <1>4 DEF Job, SameRequest
<1>6. k.taken = {}
  BY <1>1, <1>2, <1>5 DEF JobShape
<1>7. k.bulk # "none" /\ k.call # "refresh"
  BY <1>1, <1>2, <1>5 DEF JobShape, SameRequest
<1>8. JobShape(k)
  BY <1>2, <1>5, <1>6, <1>7 DEF JobShape, SameRequest
<1>9. k.seen = Unspent(k.user, k.bulk)
  BY <1>5 DEF rows, SameRequest
<1> QED
  BY <1>1, <1>3, <1>5, <1>6, <1>8, <1>9 DEF Advance, Scan

LEMMA TakeAdvances ==
    ASSUME ShapeInv, NEW c \in Client, Take(c)
    PROVE  \E k : Advance(c, k)
<1> DEFINE rows == IF job[c].bulk = "none" THEN job[c].seen
                   ELSE job[c].seen \cap Unspent(job[c].user, job[c].bulk)
<1> PICK k : k = [job[c] EXCEPT !.phase = "commit", !.taken = rows]
  OBVIOUS
<1>1. Running(c) /\ job[c].phase = "take"
  BY DEF Take
<1>2. job[c] \in Job /\ JobShape(job[c])
  BY <1>1, RunningJob
<1>3. job' = [job EXCEPT ![c] = k]
  BY DEF Take
<1>4. rows \subseteq Ticket /\ \A t \in rows : tickets[t] # None
  BY <1>2 DEF Unspent, Take, Job
<1>5. job[c].bulk # "none" => rows = job[c].seen \cap Unspent(job[c].user, job[c].bulk)
  OBVIOUS
<1>6. job[c].bulk = "none" => rows = job[c].seen
  OBVIOUS
<1> HIDE DEF rows
<1>7. /\ k \in Job /\ SameRequest(k, job[c]) /\ k.phase = "commit" /\ k.taken = rows
      /\ k.seen = job[c].seen
  BY <1>2, <1>4 DEF Job, SameRequest
<1>8. k.call = "refresh" => k.taken = {k.ticket}
  BY <1>2, <1>6, <1>7 DEF JobShape, SameRequest
<1>9. JobShape(k)
  BY <1>2, <1>7, <1>8 DEF JobShape, SameRequest
<1>10. k.bulk # "none" => k.taken = k.seen \cap Unspent(k.user, k.bulk)
  BY <1>5, <1>7 DEF SameRequest
<1>11. \A t \in k.taken : tickets[t] # None
  BY <1>4, <1>7
<1> QED
  BY <1>1, <1>3, <1>7, <1>9, <1>10, <1>11 DEF Advance, Take

LEMMA LeavingCases ==
    ASSUME ShapeInv,
           \/ UNCHANGED vars
           \/ \E c \in Client : \/ RefreshRejected(c) \/ Abort(c)
                                \/ \E d \in Client : OpenTab(c, d)
    PROVE  Leave
<1>1. /\ held \in [Client -> Ticket \cup {None}]
      /\ \A c \in Client : held[c] # None => origin[held[c]] # None
  BY DEF ShapeInv, TypeOK, TicketsOK
<1>2. CASE UNCHANGED vars
  BY <1>1, <1>2 DEF Leave, vars, tables, histories
<1>3. ASSUME NEW c \in Client, RefreshRejected(c) PROVE Leave
  BY <1>1, <1>3 DEF Leave, RefreshRejected, tables, histories
<1>4. ASSUME NEW c \in Client, Abort(c) PROVE Leave
  <2>1. Unanswered(c, job[c]) \in {None, held[c]}
    BY DEF Unanswered
  <2> QED
    BY <1>1, <1>4, <2>1 DEF Leave, Abort, tables, histories
<1>5. ASSUME NEW c \in Client, NEW d \in Client, OpenTab(c, d) PROVE Leave
  BY <1>1, <1>5 DEF Leave, OpenTab, tables, histories
<1> QED
  BY <1>2, <1>3, <1>4, <1>5

LEMMA ElapseCases ==
    ASSUME ShapeInv,
           \/ \E t \in Ticket : Lapse(t)
           \/ \E u \in User : LapseLock(u)
           \/ PurgeExpiredTokens
    PROVE  Elapse
<1>1. users \in [User -> UserRow \cup {None}] /\ tickets \in [Ticket -> TicketRow \cup {None}]
  BY DEF ShapeInv, TypeOK
<1>2. ASSUME NEW t \in Ticket, Lapse(t) PROVE Elapse
  <2> PICK row : row = [tickets[t] EXCEPT !.lapsed = TRUE]
    OBVIOUS
  <2>1. tickets[t] \in TicketRow /\ tickets' = [tickets EXCEPT ![t] = row]
    BY <1>1, <1>2 DEF Lapse
  <2>2. /\ row \in TicketRow /\ row.user = tickets[t].user /\ row.sort = tickets[t].sort
        /\ row.spent = tickets[t].spent /\ row.lapsed
    BY <2>1 DEF TicketRow
  <2> QED
    BY <1>1, <1>2, <2>1, <2>2, Given DEF Elapse, Lapse
<1>3. ASSUME NEW u \in User, LapseLock(u) PROVE Elapse
  <2> PICK row : row = [users[u] EXCEPT !.lock = "lapsed"]
    OBVIOUS
  <2>1. users[u] \in UserRow /\ users' = [users EXCEPT ![u] = row]
    BY <1>1, <1>3 DEF LapseLock, Exists
  <2>2. row \in UserRow /\ row.attempts = users[u].attempts /\ row.lock = "lapsed"
    BY <2>1 DEF UserRow
  <2> QED
    BY <1>1, <1>3, <2>1, <2>2, Given DEF Elapse, LapseLock
<1>4. ASSUME PurgeExpiredTokens PROVE Elapse
  BY <1>1, <1>4 DEF Elapse, PurgeExpiredTokens, Expired
<1> QED
  BY <1>2, <1>3, <1>4

\* Every step is one of five.
LEMMA StepCases ==
    ASSUME ShapeInv, [Next]_vars
    PROVE  \/ Leave
           \/ Elapse
           \/ \E c \in Client : \/ ~Running(c) /\ \E j : Admitted(j) /\ Begin(c, j)
                                \/ \E k : Advance(c, k)
                                \/ Finish(c)
<1>1. ASSUME NEW c \in Client, AuthRouter(c) \/ UserRouter(c) \/ Step(c)
      PROVE  \/ Leave
             \/ ~Running(c) /\ \E j : Admitted(j) /\ Begin(c, j)
             \/ \E k : Advance(c, k)
             \/ Finish(c)
  BY <1>1, CallAdmitted, LeavingCases, ScanAdvances, TakeAdvances DEF Step
<1>2. CASE \E c \in Client : AuthRouter(c) \/ UserRouter(c) \/ Step(c)
  BY <1>1, <1>2
<1>3. CASE \E c, d \in Client : OpenTab(c, d)
  BY <1>3, LeavingCases
<1>4. CASE UNCHANGED vars
  BY <1>4, LeavingCases
<1>5. CASE \/ \E t \in Ticket : Lapse(t)
           \/ \E u \in User : LapseLock(u)
           \/ PurgeExpiredTokens
  BY <1>5, ElapseCases
<1> QED
  BY <1>2, <1>3, <1>4, <1>5 DEF Next

-----------------------------------------------------------------------------
(* What a commit does.                                                      *)

\* Tickets are issued in order, so that the next number is free.
LEMMA NextIsFree ==
    ASSUME ShapeInv, BoundInv, NEW c \in Client, Running(c)
    PROVE  LET new == NextTicket(job[c]) IN
           /\ new = None <=> job[c].issue = "none"
           /\ new # None => /\ new \in Ticket /\ origin[new] = None
                            /\ Issued \cup {new} = 1..new
<1> PICK n \in 0..MaxTickets : Issued = 1..n
  BY DEF ShapeInv, TicketsOK
<1>1. n \in Nat /\ Cardinality(Issued) = n
  BY FS_Interval, Given
<1>2. CASE job[c].issue = "none"
  BY <1>2 DEF NextTicket
<1>3. CASE job[c].issue # "none"
  <2>1. NextTicket(job[c]) = n + 1
    BY <1>1, <1>3 DEF NextTicket
  <2>2. IsFiniteSet(Issuing) /\ c \in Issuing
    BY <1>3, FS_Subset, Given DEF Issuing
  <2>3. Cardinality(Issuing) \in Nat /\ Cardinality(Issuing) # 0
    BY <2>2, FS_EmptySet, FS_CardinalityType
  <2>4. n + 1 <= MaxTickets
    BY <1>1, <2>3, Given DEF BoundInv
  <2>5. n + 1 \in Ticket /\ n + 1 \notin Issued /\ Issued \cup {n + 1} = 1..(n + 1)
    BY <1>1, <2>4, Given DEF Ticket
  <2>6. n + 1 # None
    BY <2>5, Given
  <2> QED
    BY <1>3, <2>1, <2>5, <2>6 DEF Issued
<1> QED
  BY <1>2, <1>3

\* The row of every ticket after a commit.
After(t, j, new) ==
    \/ t = new /\ tickets'[t] = NewTicket(j)
    \/ /\ t # new /\ tickets'[t] = None
       /\ tickets[t] = None \/ (j.call = "delete" /\ tickets[t].user = j.user)
    \/ /\ t # new /\ tickets[t] # None /\ ~(j.call = "delete" /\ tickets[t].user = j.user)
       /\ tickets'[t] \in TicketRow
       /\ tickets'[t].user = tickets[t].user /\ tickets'[t].sort = tickets[t].sort
       /\ tickets'[t].lapsed = tickets[t].lapsed
       /\ tickets'[t].spent <=> (tickets[t].spent \/ t \in SpentBy(j))

LEMMA SpentIsThere ==
    ASSUME ShapeInv, NEW c \in Client, Finish(c), NEW t \in SpentBy(job[c])
    PROVE  t \in Ticket /\ tickets[t] # None
<1>1. Running(c) /\ (job[c].loaded # None => Exists(job[c].user))
  BY DEF Finish
<1>2. job[c] \in Job /\ JobShape(job[c])
  BY <1>1, RunningJob
<1>3. CASE t \in job[c].taken
  BY <1>1, <1>2, <1>3 DEF ShapeInv, RequestsOK, Job
<1>4. CASE job[c].call = "reset" /\ t = job[c].ticket
  <2>1. job[c].ticket \in Ticket /\ job[c].loaded # None
    BY <1>2, <1>4 DEF JobShape, Job, Presenters, Newcomers
  <2> QED
    BY <1>1, <1>4, <2>1 DEF ShapeInv, RequestsOK
<1> QED
  BY <1>3, <1>4 DEF SpentBy

LEMMA FinishTickets ==
    ASSUME ShapeInv, NEW c \in Client, Finish(c), NEW t \in Ticket
    PROVE  After(t, job[c], NextTicket(job[c]))
<1> DEFINE j == job[c]
           new == NextTicket(j)
<1>1. tickets'[t] = IF t = new THEN NewTicket(j)
                    ELSE IF tickets[t] # None /\ tickets[t].user = j.user /\ j.call = "delete"
                    THEN None
                    ELSE IF t \in SpentBy(j) THEN [tickets[t] EXCEPT !.spent = TRUE]
                    ELSE tickets[t]
  BY DEF Finish, Tickets
<1>2. tickets[t] \in TicketRow \cup {None}
  BY DEF ShapeInv, TypeOK
<1>3. t \in SpentBy(j) => tickets[t] # None
  BY SpentIsThere
<1> HIDE DEF j, new
<1>4. CASE t = new
  BY <1>1, <1>4 DEF After, j, new
<1>5. CASE t # new /\ tickets[t] # None /\ tickets[t].user = j.user /\ j.call = "delete"
  BY <1>1, <1>5 DEF After, j, new
<1>6. CASE t # new /\ ~(tickets[t] # None /\ tickets[t].user = j.user /\ j.call = "delete")
  <2>1. CASE t \in SpentBy(j)
    <3>1. tickets'[t] = [tickets[t] EXCEPT !.spent = TRUE] /\ tickets[t] \in TicketRow
      BY <1>1, <1>2, <1>3, <1>6, <2>1
    <3>2. /\ tickets'[t] \in TicketRow
          /\ tickets'[t].user = tickets[t].user /\ tickets'[t].sort = tickets[t].sort
          /\ tickets'[t].lapsed = tickets[t].lapsed /\ tickets'[t].spent = TRUE
      BY <3>1 DEF TicketRow
    <3> QED
      BY <1>3, <1>6, <2>1, <3>2 DEF After, j, new
  <2>2. CASE t \notin SpentBy(j)
    <3>1. tickets'[t] = tickets[t]
      BY <1>1, <1>6, <2>2
    <3> QED
      BY <1>2, <1>6, <2>2, <3>1 DEF After, j, new
  <2> QED
    BY <2>1, <2>2
<1> QED
  BY <1>4, <1>5, <1>6 DEF j, new

\* The account of a request after its commit.
LEMMA FinishUsers ==
    ASSUME ShapeInv, NEW c \in Client, Finish(c)
    PROVE  LET j == job[c] IN
           /\ j \in Job /\ JobShape(j) /\ j.phase = "commit" /\ Running(c)
           /\ j.user \in User
           /\ users' = [users EXCEPT ![j.user] = Saved(j)]
           /\ users' \in [User -> UserRow \cup {None}]
           /\ j.call \in Newcomers <=> ~Exists(j.user)
           /\ j.call = "delete" <=> users'[j.user] = None
           /\ j.call \notin Newcomers \cup {"delete"} =>
                 /\ users[j.user] \in UserRow
                 /\ users'[j.user].attempts = IF j.now.attempts # j.loaded.attempts
                                        THEN j.now.attempts ELSE users[j.user].attempts
                 /\ users'[j.user].lock = IF j.now.lock # j.loaded.lock
                                    THEN j.now.lock ELSE users[j.user].lock
           /\ j.call \in Newcomers => users'[j.user].attempts = 0
<1> DEFINE j == job[c]
<1>1. /\ Running(c) /\ j.phase = "commit" /\ (j.loaded # None => Exists(j.user))
      /\ users' = [users EXCEPT ![j.user] = Saved(j)]
  BY DEF Finish
<1>2. j \in Job /\ JobShape(j)
  BY <1>1, RunningJob
<1>3. j.user \in User /\ users \in [User -> UserRow \cup {None}]
  BY <1>2 DEF Job, ShapeInv, TypeOK
<1>4. j.call \in Newcomers => ~Exists(j.user)
  BY <1>1 DEF ShapeInv, RequestsOK
<1>5. j.loaded = None <=> j.call \in Newcomers
  BY <1>2 DEF JobShape
<1>6. j.now = None <=> j.call = "delete"
  BY <1>2 DEF JobShape
<1>7. j.call \in Newcomers => j.now.attempts = 0 /\ j.call # "delete"
  BY <1>2 DEF JobShape, Newcomers
<1> HIDE DEF j
<1>8. j.loaded # None /\ j.now # None => users[j.user] \in UserRow
  BY <1>1, <1>3 DEF Exists
<1>9. /\ j.now = None => Saved(j) = None
      /\ j.loaded = None => Saved(j) = j.now
      /\ j.now # None => Saved(j) \in UserRow
      /\ j.loaded # None /\ j.now # None =>
            /\ Saved(j).attempts = IF j.now.attempts # j.loaded.attempts
                                   THEN j.now.attempts ELSE users[j.user].attempts
            /\ Saved(j).lock = IF j.now.lock # j.loaded.lock
                               THEN j.now.lock ELSE users[j.user].lock
  BY <1>2, <1>8, SavedRow
<1>10. users'[j.user] = Saved(j)
  BY <1>1, <1>3
<1>11. users' \in [User -> UserRow \cup {None}]
  BY <1>1, <1>3, <1>9
<1>12. j.call = "delete" <=> users'[j.user] = None
  BY <1>6, <1>9, <1>10, Given
<1>13. j.call \notin Newcomers \cup {"delete"} =>
                 /\ users[j.user] \in UserRow
                 /\ users'[j.user].attempts = IF j.now.attempts # j.loaded.attempts
                                        THEN j.now.attempts ELSE users[j.user].attempts
                 /\ users'[j.user].lock = IF j.now.lock # j.loaded.lock
                                    THEN j.now.lock ELSE users[j.user].lock
  BY <1>5, <1>6, <1>8, <1>9, <1>10
<1> QED
  BY <1>1, <1>2, <1>3, <1>4, <1>5, <1>7, <1>9, <1>10, <1>11, <1>12, <1>13 DEF j

\* The histories after a commit.
LEMMA FinishHistory ==
    ASSUME ShapeInv, BoundInv, NEW c \in Client, Finish(c)
    PROVE  LET j == job[c]
               new == NextTicket(j) IN
           /\ job' = [job EXCEPT ![c] = None] /\ UNCHANGED <<may, overlaps>>
           /\ \A t \in Ticket : t # new => origin'[t] = origin[t]
           /\ new # None => /\ origin'[new] \in Origin
                            /\ origin'[new].user = j.user
                            /\ j.ticket = None => origin'[new].epoch = j.since
                            /\ j.ticket # None => origin'[new].epoch = origin[j.ticket].epoch
           /\ origin' \in [Ticket -> Origin \cup {None}]
           /\ survivors' = IF new # None /\ j.issue = "session" /\ IssuedInRace(c, j)
                           THEN survivors \cup {new} ELSE survivors
           /\ \A t \in Ticket : spends'[t] = IF j.call \in Presenters /\ t = j.ticket
                                             THEN spends[t] + 1 ELSE spends[t]
           /\ spends' = [t \in Ticket |-> spends'[t]]
<1> DEFINE j == job[c]
           new == NextTicket(j)
<1>1. /\ Running(c) /\ job' = [job EXCEPT ![c] = None] /\ may' = may
      /\ RememberTicket(c, j, new) /\ RememberAccount(j)
  BY DEF Finish
<1>2. j \in Job /\ JobShape(j)
  BY <1>1, RunningJob
<1>3. origin \in [Ticket -> Origin \cup {None}]
  BY DEF ShapeInv, TypeOK
<1>4. j.ticket # None => j.ticket \in Ticket /\ origin[j.ticket] \in Origin
  BY <1>1, <1>2, <1>3 DEF ShapeInv, RequestsOK, Job
<1>5. new # None => new \in Ticket
  BY <1>1, NextIsFree
<1> DEFINE row == [user |-> j.user, parent |-> j.ticket,
                   epoch |-> IF j.ticket = None THEN j.since ELSE origin[j.ticket].epoch]
<1>6. row \in Origin /\ row.user = j.user
      /\ row.epoch = IF j.ticket = None THEN j.since ELSE origin[j.ticket].epoch
  BY <1>2, <1>4 DEF Job, Origin
<1>7. origin' = [t \in Ticket |-> IF t # new THEN origin[t] ELSE row]
  BY <1>1 DEF RememberTicket
<1>8. overlaps' = overlaps
  BY <1>1 DEF RememberAccount
<1>9. survivors' = IF new # None /\ j.issue = "session" /\ IssuedInRace(c, j)
                   THEN survivors \cup {new} ELSE survivors
  BY <1>1 DEF RememberTicket
<1>10. spends' = [t \in Ticket |-> IF j.call \in Presenters /\ t = j.ticket
                                   THEN spends[t] + 1 ELSE spends[t]]
  BY <1>1 DEF RememberTicket, Presenters
<1> HIDE DEF j, new, row
<1>11. /\ \A t \in Ticket : t # new => origin'[t] = origin[t]
       /\ origin' \in [Ticket -> Origin \cup {None}]
       /\ new # None => origin'[new] = row
  BY <1>3, <1>5, <1>6, <1>7
<1> QED
  BY <1>1, <1>6, <1>8, <1>9, <1>10, <1>11 DEF j, new

-----------------------------------------------------------------------------
(* Every step keeps the shapes.                                            *)

LEMMA PutJob ==
    ASSUME JobsOK, NEW c \in Client, NEW k, k = None \/ (k \in Job /\ JobShape(k)),
           job' = [job EXCEPT ![c] = k]
    PROVE  JobsOK'
  BY DEF JobsOK, Running

LEMMA ShapeInit == Init => ShapeInv
<1> SUFFICES ASSUME Init PROVE ShapeInv
  OBVIOUS
<1>1. \A u \in DOMAIN First : First[u] \in UserRow /\ First[u].attempts \in 0..(MaxFailures - 1)
  BY AccountConstants DEF UserRow
<1>2. 0 \in 0..(MaxFailures - 1) /\ 0 \in 0..MaxEpoch /\ 0 \in 0..Cardinality(Client)
  BY Given, FS_CardinalityType
<1>3. users \in [User -> UserRow \cup {None}] /\ failures \in [User -> 0..(MaxFailures - 1)]
  BY <1>1, <1>2 DEF Init
<1>4. TypeOK
  BY <1>2, <1>3 DEF Init, TypeOK
<1>5. JobsOK /\ RequestsOK
  BY DEF Init, JobsOK, RequestsOK, Running
<1>6. Issued = 1..0 /\ 0 \in 0..MaxTickets
  BY Given DEF Init, Issued
<1>7. TicketsOK
  BY <1>6 DEF Init, TicketsOK
<1> QED
  BY <1>4, <1>5, <1>7 DEF ShapeInv

LEMMA WorksType ==
    ASSUME NEW j \in Job, JobShape(j)
    PROVE  Works(j) \subseteq {"attempts", "links", "ticket"} \X (User \cup Ticket)
<1>1. j.user \in User /\ (j.call \in {"refresh", "reset"} => j.ticket \in Ticket)
  BY DEF Job, JobShape, Presenters
<1> QED
  BY <1>1 DEF Works

LEMMA BeginShape ==
    ASSUME ShapeInv, NEW c \in Client, ~Running(c), NEW j, Admitted(j), Begin(c, j)
    PROVE  ShapeInv'
<1>1. /\ job' = [job EXCEPT ![c] = j] /\ j \in Job /\ JobShape(j)
      /\ UNCHANGED <<may, users, tickets, held, origin, epoch, survivors, spends, failures>>
      /\ overlaps' = overlaps \cup (Works(j) \cap UNION {Works(k) : k \in Others(c)})
  BY DEF Begin, Admitted, tables
<1>2. JobsOK'
  BY <1>1, PutJob DEF ShapeInv
<1>3. TypeOK'
  BY <1>1, <1>2, WorksType DEF ShapeInv, TypeOK, JobsOK
<1>4. TicketsOK'
  BY <1>1 DEF ShapeInv, TicketsOK, Issued, Exists
<1>5. job \in [Client -> Job \cup {None}] /\ job'[c] = j /\ \A d \in Client : d # c => job'[d] = job[d]
  BY <1>1 DEF ShapeInv, JobsOK
<1>6. /\ j.call \in Newcomers => j.user \in NewUsers
      /\ j.call \notin Newcomers => Exists(j.user)
      /\ j.ticket # None => /\ j.ticket \in Ticket
                            /\ Good(j.ticket, IF j.call = "refresh" THEN "session" ELSE "link")
                            /\ tickets[j.ticket].user = j.user
      /\ j.taken = {}
      /\ j.call = "reset" => j.ticket # None
  BY <1>1 DEF Admitted, JobShape, Exists, Job, Presenters
<1>7. RequestsOK'
  <2> SUFFICES ASSUME NEW d \in Client, Running(d)'
               PROVE  LET k == job'[d] IN
        /\ k.call \in Newcomers =>
              /\ ~Exists(k.user)
              /\ \A e \in Client \ {d} : Running(e)' => job'[e].user # k.user
              /\ \A t \in Issued : origin[t].user # k.user
        /\ k.ticket # None =>
              /\ origin[k.ticket] # None /\ origin[k.ticket].user = k.user
              /\ tickets[k.ticket] # None =>
                    tickets[k.ticket].sort = IF k.call = "refresh" THEN "session" ELSE "link"
        /\ k.call = "reset" => tickets[k.ticket] # None \/ ~Exists(k.user)
        /\ \A t \in k.taken : tickets[t] # None
    BY <1>1 DEF RequestsOK, Running, Issued, Exists
  <2>1. CASE d = c
    <3>1. j.call \in Newcomers =>
              /\ ~Exists(j.user)
              /\ \A e \in Client \ {c} : Running(e) => job[e].user # j.user
              /\ \A t \in Issued : origin[t].user # j.user
      BY <1>6 DEF NewUsers
    <3>2. j.ticket # None =>
              /\ origin[j.ticket] # None /\ origin[j.ticket].user = j.user
              /\ tickets[j.ticket] # None
              /\ tickets[j.ticket].sort = IF j.call = "refresh" THEN "session" ELSE "link"
      BY <1>6, GoodTicket DEF Good
    <3> QED
      BY <1>5, <1>6, <2>1, <3>1, <3>2 DEF Running
  <2>2. CASE d # c
    <3>1. job'[d] = job[d] /\ Running(d)
      BY <1>5, <2>2 DEF Running
    <3>2. job[d].call \in Newcomers => ~Exists(job[d].user)
      BY <3>1 DEF ShapeInv, RequestsOK
    <3>3. job[d].call \in Newcomers => j.user # job[d].user
      BY <1>6, <3>1, <3>2 DEF NewUsers
    <3> QED
      BY <1>5, <2>2, <3>1, <3>3 DEF ShapeInv, RequestsOK, Running
  <2> QED
    BY <2>1, <2>2
<1> QED
  BY <1>2, <1>3, <1>4, <1>7 DEF ShapeInv

LEMMA AdvanceShape ==
    ASSUME ShapeInv, NEW c \in Client, NEW k, Advance(c, k)
    PROVE  ShapeInv'
<1>1. /\ job' = [job EXCEPT ![c] = k] /\ k \in Job /\ JobShape(k) /\ Running(c)
      /\ UNCHANGED <<may, users, tickets, held, origin, epoch, survivors, spends, failures, overlaps>>
      /\ SameRequest(k, job[c]) /\ (\A t \in k.taken : tickets[t] # None)
  BY DEF Advance, tables, histories
<1>2. JobsOK'
  BY <1>1, PutJob DEF ShapeInv
<1>3. TypeOK'
  BY <1>1, <1>2 DEF ShapeInv, TypeOK, JobsOK
<1>4. TicketsOK'
  BY <1>1 DEF ShapeInv, TicketsOK, Issued, Exists
<1>5. job \in [Client -> Job \cup {None}] /\ job'[c] = k /\ \A d \in Client : d # c => job'[d] = job[d]
  BY <1>1 DEF ShapeInv, JobsOK
<1>6. \A d \in Client : Running(d)' => Running(d) /\ SameRequest(job'[d], job[d])
                           /\ (job'[d].taken = job[d].taken \/ \A t \in job'[d].taken : tickets[t] # None)
  BY <1>1, <1>5 DEF Running, SameRequest
<1>7. RequestsOK'
  BY <1>1, <1>6 DEF ShapeInv, RequestsOK, Issued, Exists, SameRequest
<1> QED
  BY <1>2, <1>3, <1>4, <1>7 DEF ShapeInv

LEMMA LeaveShape ==
    ASSUME ShapeInv, Leave
    PROVE  ShapeInv'
<1>1. /\ UNCHANGED <<may, users, tickets, origin, epoch, survivors, spends, failures, overlaps>>
      /\ held' \in [Client -> Ticket \cup {None}]
      /\ \A c \in Client : held'[c] # None => origin[held'[c]] # None
      /\ job' = job \/ \E c \in Client : Running(c) /\ job' = [job EXCEPT ![c] = None]
  BY DEF Leave, tables, histories
<1>2. JobsOK'
  BY <1>1, PutJob DEF ShapeInv, JobsOK, Running
<1>3. TypeOK'
  BY <1>1, <1>2 DEF ShapeInv, TypeOK, JobsOK
<1>4. TicketsOK'
  BY <1>1 DEF ShapeInv, TicketsOK, Issued, Exists
<1>5. \A d \in Client : Running(d)' => Running(d) /\ job'[d] = job[d]
  BY <1>1 DEF Running, ShapeInv, JobsOK
<1>6. RequestsOK'
  BY <1>1, <1>5 DEF ShapeInv, RequestsOK, Issued, Exists
<1> QED
  BY <1>2, <1>3, <1>4, <1>6 DEF ShapeInv

LEMMA ElapseShape ==
    ASSUME ShapeInv, Elapse
    PROVE  ShapeInv'
<1>1. UNCHANGED <<may, held, job, origin, epoch, survivors, spends, failures, overlaps>>
  BY DEF Elapse, histories
<1>2. JobsOK'
  BY <1>1 DEF ShapeInv, JobsOK, Running
<1>3. TypeOK'
  BY <1>1, <1>2 DEF ShapeInv, TypeOK, JobsOK, Elapse
<1>4. \A u \in User : users'[u] # None <=> users[u] # None
  BY DEF Elapse
<1>5. \A t \in Ticket : /\ tickets[t] # None => tickets[t].user \in User
                        /\ tickets'[t] # None =>
                              /\ tickets[t] # None /\ tickets'[t].user = tickets[t].user
                              /\ tickets'[t].sort = tickets[t].sort
                        /\ tickets[t] # None /\ tickets'[t] = None =>
                              /\ tickets[t].sort = "session"
                              /\ \A c \in Client : Running(c) => t \notin job[c].taken
  BY DEF Elapse, ShapeInv, TypeOK, TicketRow
<1>6. TicketsOK'
  <2>1. Issued' = Issued
    BY <1>1 DEF Issued
  <2>2. \A t \in Ticket : tickets'[t] # None =>
          /\ origin[t] # None /\ origin[t].user = tickets'[t].user
          /\ users'[tickets'[t].user] # None
    BY <1>4, <1>5 DEF ShapeInv, TicketsOK, Exists
  <2> QED
    BY <1>1, <2>1, <2>2 DEF ShapeInv, TicketsOK, Exists
<1>7. ASSUME NEW c \in Client, Running(c)
      PROVE  LET j == job[c] IN
        /\ j.call \in Newcomers =>
              /\ users'[j.user] = None
              /\ \A d \in Client \ {c} : Running(d) => job[d].user # j.user
              /\ \A t \in Issued : origin[t].user # j.user
        /\ j.ticket # None =>
              /\ origin[j.ticket] # None /\ origin[j.ticket].user = j.user
              /\ tickets'[j.ticket] # None =>
                    tickets'[j.ticket].sort = IF j.call = "refresh" THEN "session" ELSE "link"
        /\ j.call = "reset" => tickets'[j.ticket] # None \/ users'[j.user] = None
        /\ \A t \in j.taken : tickets'[t] # None
  <2>1. job[c] \in Job /\ JobShape(job[c])
    BY <1>7, RunningJob
  <2>2. /\ job[c].user \in User /\ job[c].taken \subseteq Ticket
        /\ job[c].ticket # None => job[c].ticket \in Ticket
        /\ job[c].call = "reset" => job[c].ticket # None
    BY <2>1 DEF Job, JobShape, Presenters
  <2> QED
    BY <1>4, <1>5, <1>7, <2>2 DEF ShapeInv, RequestsOK, Exists
<1>8. RequestsOK'
  BY <1>1, <1>7 DEF RequestsOK, Running, Issued, Exists
<1> QED
  BY <1>2, <1>3, <1>6, <1>8 DEF ShapeInv

LEMMA RoomToFinish ==
    ASSUME ShapeInv, BoundInv, NEW c \in Client, Running(c)
    PROVE  /\ Ends(job[c]) => epoch[job[c].user] + 1 \in 0..MaxEpoch
           /\ job[c].call \in Presenters =>
                 spends[job[c].ticket] + 1 \in 0..Cardinality(Client)
<1> DEFINE j == job[c]
<1>1. j \in Job /\ JobShape(j)
  BY RunningJob
<1>2. ASSUME NEW S \in SUBSET Client, c \in S
      PROVE  Cardinality(S) \in Nat /\ Cardinality(S) # 0
  BY <1>2, FS_Subset, FS_EmptySet, FS_CardinalityType, Given
<1>3. ASSUME Ends(j) PROVE epoch[j.user] + 1 \in 0..MaxEpoch
  <2>1. j.user \in User /\ epoch[j.user] \in 0..MaxEpoch
    BY <1>1 DEF Job, ShapeInv, TypeOK
  <2>2. Enders(j.user) \subseteq Client /\ c \in Enders(j.user)
    BY <1>3 DEF Enders
  <2>3. Cardinality(Enders(j.user)) \in Nat /\ Cardinality(Enders(j.user)) # 0
    BY <1>2, <2>2
  <2>4. epoch[j.user] + Cardinality(Enders(j.user)) <= MaxEpoch
    BY <2>1 DEF BoundInv
  <2> QED
    BY <2>1, <2>3, <2>4, Given
<1>4. ASSUME j.call \in Presenters PROVE spends[j.ticket] + 1 \in 0..Cardinality(Client)
  <2>1. j.ticket \in Ticket
    BY <1>1, <1>4 DEF Job, JobShape
  <2>2. Presenting(j.ticket) \subseteq Client /\ c \in Presenting(j.ticket)
    BY <1>4 DEF Presenting
  <2>3. Cardinality(Presenting(j.ticket)) \in Nat /\ Cardinality(Presenting(j.ticket)) # 0
    BY <1>2, <2>2
  <2>4. spends[j.ticket] + Cardinality(Presenting(j.ticket)) <= Cardinality(Client)
    BY <2>1 DEF BoundInv
  <2>5. spends[j.ticket] \in 0..Cardinality(Client) /\ Cardinality(Client) \in Nat
    BY <2>1, FS_CardinalityType, Given DEF ShapeInv, TypeOK
  <2> QED
    BY <2>3, <2>4, <2>5
<1> QED
  BY <1>3, <1>4

LEMMA FinishType ==
    ASSUME ShapeInv, BoundInv, NEW c \in Client, Finish(c)
    PROVE  TypeOK'
<1> DEFINE j == job[c]
           new == NextTicket(j)
<1>1. /\ j \in Job /\ JobShape(j) /\ Running(c) /\ j.user \in User
      /\ users' \in [User -> UserRow \cup {None}]
  BY FinishUsers
<1>2. new # None => new \in Ticket
  BY <1>1, NextIsFree
<1>3. tickets' \in [Ticket -> TicketRow \cup {None}]
  <2>1. tickets' = [t \in Ticket |-> tickets'[t]]
    BY DEF Finish, Tickets
  <2>2. \A t \in Ticket : t = new => NewTicket(j) \in TicketRow
    <3>1. \A t \in Ticket : t = new => j.issue \in {"session", "link"}
      BY <1>1, <1>2, NextIsFree, Given DEF Job, Sort
    <3> QED
      BY <1>1, <3>1 DEF NewTicket, TicketRow
  <2>3. \A t \in Ticket : tickets'[t] \in TicketRow \cup {None}
    BY <2>2, FinishTickets DEF After
  <2> QED
    BY <2>1, <2>3
<1>4. held' \in [Client -> Ticket \cup {None}]
  <2>1. held \in [Client -> Ticket \cup {None}]
    BY DEF ShapeInv, TypeOK
  <2>2. Answered(c, j, new) \in Ticket \cup {None} /\ Unanswered(c, j) \in Ticket \cup {None}
    BY <1>2, <2>1 DEF Answered, Unanswered
  <2>3. PICK after \in {Answered(c, j, new), Unanswered(c, j)} : held' = [held EXCEPT ![c] = after]
    BY DEF Finish
  <2> QED
    BY <2>1, <2>2, <2>3
<1>5. job' \in [Client -> Job \cup {None}]
  BY FinishHistory DEF ShapeInv, TypeOK
<1>6. epoch' \in [User -> 0..MaxEpoch]
  <2>1. epoch \in [User -> 0..MaxEpoch]
    BY DEF ShapeInv, TypeOK
  <2>2. epoch' = IF Ends(j) THEN [epoch EXCEPT ![j.user] = epoch[j.user] + 1] ELSE epoch
    BY DEF Finish, RememberAccount
  <2>3. Ends(j) => epoch[j.user] + 1 \in 0..MaxEpoch
    BY <1>1, RoomToFinish
  <2> QED
    BY <1>1, <2>1, <2>2, <2>3
<1>7. spends' \in [Ticket -> 0..Cardinality(Client)]
  <2>1. spends \in [Ticket -> 0..Cardinality(Client)]
    BY DEF ShapeInv, TypeOK
  <2>2. \A t \in Ticket : spends'[t] = IF j.call \in Presenters /\ t = j.ticket
                                       THEN spends[t] + 1 ELSE spends[t]
    BY FinishHistory
  <2>3. j.call \in Presenters => spends[j.ticket] + 1 \in 0..Cardinality(Client)
    BY <1>1, RoomToFinish
  <2>4. \A t \in Ticket : spends'[t] \in 0..Cardinality(Client)
    BY <2>1, <2>2, <2>3
  <2> QED
    BY <2>4, FinishHistory
<1>8. failures' \in [User -> 0..(MaxFailures - 1)]
  <2>1. failures \in [User -> 0..(MaxFailures - 1)]
    BY DEF ShapeInv, TypeOK
  <2>2. \A n \in 0..(MaxFailures - 1) : (n + 1) % MaxFailures \in 0..(MaxFailures - 1)
    BY Given
  <2>3. 0 \in 0..(MaxFailures - 1)
    BY Given
  <2>4. failures' = IF j.call = "login" /\ j.issue = "none"
           THEN [failures EXCEPT ![j.user] = (failures[j.user] + 1) % MaxFailures]
           ELSE IF j.call \in {"login", "reset", "delete"}
           THEN [failures EXCEPT ![j.user] = 0]
           ELSE failures
    BY DEF Finish, RememberAccount
  <2> QED
    BY <1>1, <2>1, <2>2, <2>3, <2>4
<1>9. survivors' \subseteq Ticket
  BY <1>2, FinishHistory DEF ShapeInv, TypeOK
<1> QED
  BY <1>1, <1>3, <1>4, <1>5, <1>6, <1>7, <1>8, <1>9, FinishHistory DEF ShapeInv, TypeOK

LEMMA FinishTicketsOK ==
    ASSUME ShapeInv, BoundInv, NEW c \in Client, Finish(c)
    PROVE  TicketsOK'
<1> DEFINE j == job[c]
           new == NextTicket(j)
<1>1. /\ j \in Job /\ JobShape(j) /\ Running(c) /\ j.user \in User
      /\ users' = [users EXCEPT ![j.user] = Saved(j)]
      /\ j.call = "delete" <=> users'[j.user] = None
      /\ users \in [User -> UserRow \cup {None}]
  BY FinishUsers DEF ShapeInv, TypeOK
<1>2. /\ new = None <=> j.issue = "none"
      /\ new # None => /\ new \in Ticket /\ origin[new] = None
                       /\ Issued \cup {new} = 1..new
  BY <1>1, NextIsFree
<1>3. /\ \A t \in Ticket : t # new => origin'[t] = origin[t]
      /\ new # None => origin'[new] \in Origin /\ origin'[new].user = j.user
  BY FinishHistory
<1>4. \A t \in Ticket : After(t, j, new)
  BY FinishTickets
<1>5. new # None => j.call # "delete"
  BY <1>1, <1>2 DEF JobShape, Job, Sort
<1>6. j.issue # "none" => new \in Ticket
  BY <1>2
<1>7. \A t \in Ticket : t = new => new # None
  BY Given
<1> PICK after \in {Answered(c, j, new), Unanswered(c, j)} : held' = [held EXCEPT ![c] = after]
  BY DEF Finish
<1>8. after \in {None, new, held[c]}
  BY DEF Answered, Unanswered
<1>9. new # None => origin'[new] # None
  BY <1>3, Given
<1> HIDE DEF j, new
<1>10. \E n \in 0..MaxTickets : Issued' = 1..n
  <2> PICK n \in 0..MaxTickets : Issued = 1..n
    BY DEF ShapeInv, TicketsOK
  <2>1. CASE new = None
    <3>1. \A t \in Ticket : origin'[t] = origin[t]
      BY <1>3, <1>7, <2>1
    <3>2. Issued' = Issued
      BY <3>1 DEF Issued
    <3> QED
      BY <3>2
  <2>2. CASE new # None
    <3>1. Issued' = Issued \cup {new}
      BY <1>2, <1>3, <1>9, <2>2 DEF Issued
    <3>2. new \in 0..MaxTickets
      BY <1>2, <2>2, Given DEF Ticket
    <3> QED
      BY <1>2, <2>2, <3>1, <3>2
  <2> QED
    BY <2>1, <2>2
<1>11. ASSUME NEW t \in Ticket, tickets'[t] # None
       PROVE  origin'[t] # None /\ origin'[t].user = tickets'[t].user
              /\ users'[tickets'[t].user] # None
  <2>1. CASE t = new
    <3>1. tickets'[t].user = j.user
      BY <1>4, <2>1 DEF After, NewTicket
    <3> QED
      BY <1>1, <1>3, <1>5, <1>7, <1>9, <2>1, <3>1
  <2>2. CASE t # new
    <3>1. /\ tickets[t] # None /\ tickets'[t].user = tickets[t].user
          /\ ~(j.call = "delete" /\ tickets[t].user = j.user)
      BY <1>4, <1>11, <2>2 DEF After
    <3>2. /\ origin[t] # None /\ origin[t].user = tickets[t].user
          /\ users[tickets[t].user] # None
      BY <3>1 DEF ShapeInv, TicketsOK, Exists
    <3> QED
      BY <1>1, <1>3, <2>2, <3>1, <3>2
  <2> QED
    BY <2>1, <2>2
<1>12. \A d \in Client : held'[d] # None => origin'[held'[d]] # None
  <2>1. \A d \in Client : held[d] # None => held[d] \in Ticket /\ origin[held[d]] # None
    BY DEF ShapeInv, TypeOK, TicketsOK
  <2>2. \A d \in Client : held[d] # None => held[d] \in Ticket /\ origin'[held[d]] # None
    BY <1>2, <1>3, <1>9, <2>1
  <2>3. held \in [Client -> Ticket \cup {None}]
    BY DEF ShapeInv, TypeOK
  <2> QED
    BY <1>8, <1>9, <2>2, <2>3
<1> QED
  BY <1>10, <1>11, <1>12 DEF TicketsOK, Exists

LEMMA FinishRequests ==
    ASSUME ShapeInv, BoundInv, NEW c \in Client, Finish(c)
    PROVE  RequestsOK'
<1> DEFINE j == job[c]
           new == NextTicket(j)
<1>1. /\ j \in Job /\ JobShape(j) /\ Running(c) /\ j.user \in User
      /\ users' = [users EXCEPT ![j.user] = Saved(j)]
      /\ j.call = "delete" <=> users'[j.user] = None
      /\ users \in [User -> UserRow \cup {None}]
      /\ j.call \in Newcomers <=> users[j.user] = None
  BY FinishUsers DEF ShapeInv, TypeOK, Exists
<1>2. /\ new = None <=> j.issue = "none"
      /\ new # None => /\ new \in Ticket /\ origin[new] = None
  BY <1>1, NextIsFree
<1>3. /\ \A t \in Ticket : t # new => origin'[t] = origin[t]
      /\ new # None => origin'[new].user = j.user
      /\ job' = [job EXCEPT ![c] = None]
  BY FinishHistory
<1>4. \A t \in Ticket : After(t, j, new)
  BY FinishTickets
<1>5. j.call = "delete" => \A t \in TakenByOthers(c) : tickets[t] = None \/ tickets[t].user # j.user
  BY DEF Finish
<1>6. \A d \in Client : Running(d)' => Running(d) /\ job'[d] = job[d] /\ d # c
  BY <1>3 DEF Running, ShapeInv, JobsOK
<1>7. \A t \in Ticket : t = new => new # None
  BY Given
<1> HIDE DEF j, new
<1>8. ASSUME NEW d \in Client, Running(d), d # c
      PROVE  LET k == job[d] IN
        /\ k.call \in Newcomers =>
              /\ users'[k.user] = None
              /\ \A e \in Client \ {d} : Running(e) => job[e].user # k.user
              /\ \A t \in Issued' : origin'[t].user # k.user
        /\ k.ticket # None =>
              /\ origin'[k.ticket] # None /\ origin'[k.ticket].user = k.user
              /\ tickets'[k.ticket] # None =>
                    tickets'[k.ticket].sort = IF k.call = "refresh" THEN "session" ELSE "link"
        /\ k.call = "reset" => tickets'[k.ticket] # None \/ users'[k.user] = None
        /\ \A t \in k.taken : tickets'[t] # None
  <2> DEFINE k == job[d]
  <2>1. k \in Job /\ JobShape(k)
    BY <1>8, RunningJob
  <2>2. /\ k.user \in User /\ k.taken \subseteq Ticket
        /\ k.ticket # None => k.ticket \in Ticket
        /\ k.call = "reset" => k.ticket # None
    BY <2>1 DEF Job, JobShape, Presenters
  <2>3. /\ k.call \in Newcomers =>
              /\ users[k.user] = None
              /\ \A e \in Client \ {d} : Running(e) => job[e].user # k.user
              /\ \A t \in Issued : origin[t].user # k.user
        /\ k.ticket # None =>
              /\ origin[k.ticket] # None /\ origin[k.ticket].user = k.user
              /\ tickets[k.ticket] # None =>
                    tickets[k.ticket].sort = IF k.call = "refresh" THEN "session" ELSE "link"
        /\ k.call = "reset" => tickets[k.ticket] # None \/ users[k.user] = None
        /\ \A t \in k.taken : tickets[t] # None
    BY <1>8 DEF ShapeInv, RequestsOK, Exists
  <2>4. k.taken \subseteq TakenByOthers(c)
    BY <1>8 DEF TakenByOthers, Others
  <2> HIDE DEF k
  <2>5. j.call \in Newcomers => k.user # j.user
    BY <1>1, <1>8 DEF ShapeInv, RequestsOK, j, k
  <2>6. k.call \in Newcomers => k.user # j.user
    BY <1>1, <1>8, <2>3 DEF j
  <2>7. k.call \in Newcomers => \A t \in Issued' : origin'[t].user # k.user
    <3>1. \A t \in Issued' : t = new \/ (t \in Issued /\ origin'[t] = origin[t])
      BY <1>3 DEF Issued
    <3>2. Issued' \subseteq Ticket
      BY DEF Issued
    <3> QED
      BY <1>3, <1>7, <2>3, <2>6, <3>1, <3>2
  <2>8. k.call \in Newcomers => users'[k.user] = None
    BY <1>1, <2>2, <2>3, <2>6
  <2>9. k.ticket # None => k.ticket # new /\ origin'[k.ticket] = origin[k.ticket]
    BY <1>2, <1>3, <2>2, <2>3
  <2>10. k.ticket # None /\ tickets'[k.ticket] # None =>
            tickets[k.ticket] # None /\ tickets'[k.ticket].sort = tickets[k.ticket].sort
    BY <1>4, <2>2, <2>9 DEF After
  <2>11. k.call = "reset" => tickets'[k.ticket] # None \/ users'[k.user] = None
    <3>1. CASE k.call = "reset" /\ tickets[k.ticket] # None
      <4>1. origin[k.ticket].user = tickets[k.ticket].user
        BY <2>2, <3>1 DEF ShapeInv, TicketsOK
      <4>2. tickets[k.ticket].user = k.user
        BY <2>2, <2>3, <3>1, <4>1
      <4>3. tickets'[k.ticket] = None => j.call = "delete" /\ j.user = k.user
        BY <1>4, <2>2, <2>9, <3>1, <4>2, Given DEF After
      <4> QED
        BY <1>1, <4>3
    <3>2. CASE k.call = "reset" /\ users[k.user] = None
      BY <1>1, <2>2, <2>5, <3>2
    <3> QED
      BY <2>3, <3>1, <3>2
  <2>12. \A t \in k.taken : tickets'[t] # None
    <3> TAKE t \in k.taken
    <3>1. t \in Ticket /\ tickets[t] # None /\ origin[t] # None
      BY <2>2, <2>3 DEF ShapeInv, TicketsOK
    <3>2. t # new
      BY <1>2, <1>7, <3>1
    <3>3. ~(j.call = "delete" /\ tickets[t].user = j.user)
      BY <1>5, <2>4, <3>1
    <3> QED
      BY <1>4, <3>1, <3>2, <3>3, Given DEF After
  <2> QED
    BY <2>3, <2>7, <2>8, <2>9, <2>10, <2>11, <2>12 DEF k
<1> QED
  BY <1>6, <1>8 DEF RequestsOK, Exists

LEMMA FinishShape ==
    ASSUME ShapeInv, BoundInv, NEW c \in Client, Finish(c)
    PROVE  ShapeInv'
<1>1. JobsOK'
  BY FinishHistory, PutJob DEF ShapeInv
<1> QED
  BY <1>1, FinishType, FinishTicketsOK, FinishRequests DEF ShapeInv

LEMMA ShapeStep ==
    ASSUME ShapeInv, BoundInv, [Next]_vars
    PROVE  ShapeInv'
  BY StepCases, BeginShape, AdvanceShape, LeaveShape, ElapseShape, FinishShape

-----------------------------------------------------------------------------
(* The bounds leave room for what is under way.                            *)

LEMMA Counts ==
    ASSUME NEW S \in SUBSET Client
    PROVE  /\ Cardinality(S) \in Nat
           /\ \A T \in SUBSET S : Cardinality(T) <= Cardinality(S)
           /\ \A c : Cardinality(S \cup {c}) <= Cardinality(S) + 1
           /\ \A c \in S : Cardinality(S \ {c}) = Cardinality(S) - 1
<1>1. IsFiniteSet(S)
  BY FS_Subset, Given
<1> QED
  BY <1>1, FS_CardinalityType, FS_Subset, FS_AddElement, FS_RemoveElement

LEMMA CountsNow ==
    ASSUME ShapeInv
    PROVE  /\ Cardinality(Issued) \in Nat
           /\ Issuing \in SUBSET Client
           /\ \A u \in User : Enders(u) \in SUBSET Client /\ epoch[u] \in Nat
           /\ \A t \in Ticket : Presenting(t) \in SUBSET Client /\ spends[t] \in Nat
<1> PICK n \in 0..MaxTickets : Issued = 1..n
  BY DEF ShapeInv, TicketsOK
<1>1. Cardinality(Issued) \in Nat
  BY FS_Interval, Given, SMTT(30)
<1>2. \A u \in User : epoch[u] \in Nat
  BY Given DEF ShapeInv, TypeOK
<1>3. Cardinality(Client) \in Nat
  BY Given, FS_CardinalityType
<1>4. \A t \in Ticket : spends[t] \in Nat
  BY <1>3 DEF ShapeInv, TypeOK
<1> QED
  BY <1>1, <1>2, <1>4 DEF Issuing, Enders, Presenting

LEMMA BoundInit == Init => BoundInv
<1> SUFFICES ASSUME Init PROVE BoundInv
  OBVIOUS
<1>1. Issued = {} /\ Issuing = {} /\ \A x : Enders(x) = {} /\ Presenting(x) = {}
  BY DEF Init, Issued, Issuing, Enders, Presenting, Running
<1>2. Cardinality({}) = 0 /\ Cardinality(Client) \in Nat
  BY FS_EmptySet, FS_CardinalityType, Given
<1>3. (\A u \in User : epoch[u] = 0) /\ \A t \in Ticket : spends[t] = 0
  BY DEF Init
<1>4. MaxTickets \in Nat /\ MaxEpoch \in Nat
  BY Given
<1>5. Cardinality(Issued) + Cardinality(Issuing) <= MaxTickets
  BY <1>1, <1>2, <1>4
<1>6. \A u \in User : epoch[u] + Cardinality(Enders(u)) <= MaxEpoch
  BY <1>1, <1>2, <1>3, <1>4
<1>7. \A t \in Ticket : spends[t] + Cardinality(Presenting(t)) <= Cardinality(Client)
  BY <1>1, <1>2, <1>3
<1> QED
  BY <1>5, <1>6, <1>7 DEF BoundInv

\* A step under which nothing is issued, no epoch begins, and no request with it.
LEMMA FewerBound ==
    ASSUME ShapeInv, BoundInv, UNCHANGED <<origin, epoch, spends>>,
           Issuing' \subseteq Issuing,
           \A u \in User : Enders(u)' \subseteq Enders(u),
           \A t \in Ticket : Presenting(t)' \subseteq Presenting(t)
    PROVE  BoundInv'
<1>1. Issued' = Issued
  BY DEF Issued
<1>2. Cardinality(Issuing') <= Cardinality(Issuing) /\ Cardinality(Issuing') \in Nat
      /\ Cardinality(Issuing) \in Nat
  BY Counts, CountsNow
<1>3. ASSUME NEW u \in User PROVE epoch'[u] + Cardinality(Enders(u)') <= MaxEpoch
  <2>1. /\ Enders(u) \in SUBSET Client /\ epoch[u] \in Nat
        /\ Enders(u)' \in SUBSET Enders(u) /\ Enders(u)' \in SUBSET Client
    BY CountsNow
  <2>2. Cardinality(Enders(u)') <= Cardinality(Enders(u)) /\ Cardinality(Enders(u)') \in Nat
        /\ Cardinality(Enders(u)) \in Nat
    BY <2>1, Counts
  <2> QED
    BY <2>1, <2>2, Given DEF BoundInv
<1>4. ASSUME NEW t \in Ticket PROVE spends'[t] + Cardinality(Presenting(t)') <= Cardinality(Client)
  <2>1. /\ Presenting(t) \in SUBSET Client /\ spends[t] \in Nat
        /\ Presenting(t)' \in SUBSET Presenting(t) /\ Presenting(t)' \in SUBSET Client
    BY CountsNow
  <2>2. Cardinality(Presenting(t)') <= Cardinality(Presenting(t))
        /\ Cardinality(Presenting(t)') \in Nat /\ Cardinality(Presenting(t)) \in Nat
        /\ Cardinality(Client) \in Nat
    BY <2>1, Counts
  <2> QED
    BY <2>1, <2>2 DEF BoundInv
<1>5. Cardinality(Issued') + Cardinality(Issuing') <= MaxTickets
  BY <1>1, <1>2, CountsNow, Given DEF BoundInv
<1> QED
  BY <1>3, <1>4, <1>5 DEF BoundInv

LEMMA BeginBound ==
    ASSUME ShapeInv, BoundInv, SpendInv, NEW c \in Client, ~Running(c), NEW j, Admitted(j),
           Begin(c, j)
    PROVE  BoundInv'
<1>1. /\ j \in Job /\ JobShape(j) /\ job'[c] = j
      /\ \A d \in Client : d # c => job'[d] = job[d]
      /\ UNCHANGED <<may, origin, epoch, spends>>
  BY DEF Begin, Admitted, ShapeInv, JobsOK
<1>2. Issued' = Issued
  BY <1>1 DEF Issued
<1>3. c \notin Issuing /\ (\A u \in User : c \notin Enders(u)) /\ \A t \in Ticket : c \notin Presenting(t)
  BY DEF Issuing, Enders, Presenting
<1>4. Cardinality(Issued') + Cardinality(Issuing') <= MaxTickets
  <2>1. Cardinality(Issuing) \in Nat /\ Cardinality(Issued) \in Nat
    BY Counts, CountsNow
  <2>2. CASE j.issue = "none"
    <3>1. Issuing' = Issuing
      BY <1>1, <1>3, <2>2 DEF Issuing, Running
    <3> QED
      BY <1>2, <3>1 DEF BoundInv
  <2>3. CASE j.issue # "none"
    <3>1. Issuing' \subseteq Issuing \cup {c} /\ Issuing \cup {c} \in SUBSET Client
      BY <1>1, CountsNow DEF Issuing, Running
    <3>2. Cardinality(Issuing') <= Cardinality(Issuing) + 1
      <4>1. Cardinality(Issuing') <= Cardinality(Issuing \cup {c})
        BY <3>1, Counts
      <4>2. Cardinality(Issuing \cup {c}) <= Cardinality(Issuing) + 1
        BY Counts, CountsNow
      <4>3. Cardinality(Issuing') \in Nat /\ Cardinality(Issuing \cup {c}) \in Nat
        <5>1. Issuing' \in SUBSET Client
          BY <3>1
        <5> QED
          BY <3>1, <5>1, Counts
      <4> QED
        BY <2>1, <4>1, <4>2, <4>3
    <3>3. Cardinality(Issued) + Cardinality(Issuing) < may.tickets
      BY <2>3 DEF Admitted, CanIssue
    <3>4. may.tickets \in 0..MaxTickets
      BY AccountConstants DEF ShapeInv, TypeOK
    <3>5. Cardinality(Issuing') \in Nat
      <4>1. Issuing' \in SUBSET Client
        BY <3>1
      <4> QED
        BY <4>1, Counts
    <3> QED
      BY <1>2, <2>1, <3>2, <3>3, <3>4, <3>5, Given
  <2> QED
    BY <2>2, <2>3
<1>5. ASSUME NEW u \in User PROVE epoch'[u] + Cardinality(Enders(u)') <= MaxEpoch
  <2>1. Enders(u) \in SUBSET Client /\ epoch[u] \in Nat /\ Cardinality(Enders(u)) \in Nat
    BY CountsNow, Counts
  <2>2. CASE ~(Ends(j) /\ j.user = u)
    <3>1. Enders(u)' = Enders(u)
      BY <1>1, <1>3, <2>2 DEF Enders, Running, Ends
    <3> QED
      BY <1>1, <3>1 DEF BoundInv
  <2>3. CASE Ends(j) /\ j.user = u
    <3>1. Enders(u)' \subseteq Enders(u) \cup {c} /\ Enders(u) \cup {c} \in SUBSET Client
          /\ Enders(u)' \in SUBSET Client
      BY <1>1, <2>1 DEF Enders, Running, Ends
    <3>2. /\ Cardinality(Enders(u)') <= Cardinality(Enders(u) \cup {c})
          /\ Cardinality(Enders(u)') \in Nat /\ Cardinality(Enders(u) \cup {c}) \in Nat
      BY <3>1, Counts
    <3>3. Cardinality(Enders(u) \cup {c}) <= Cardinality(Enders(u)) + 1
      BY <2>1, Counts
    <3>4. epoch[u] + Cardinality(Enders(u)) < MaxEpoch
      BY <2>3 DEF Admitted, CanEnd, Enders
    <3> QED
      BY <1>1, <2>1, <3>2, <3>3, <3>4, Given
  <2> QED
    BY <2>2, <2>3
<1>6. ASSUME NEW t \in Ticket PROVE spends'[t] + Cardinality(Presenting(t)') <= Cardinality(Client)
  <2>1. CASE ~(j.call \in Presenters /\ j.ticket = t)
    <3>1. Presenting(t)' = Presenting(t)
      BY <1>1, <1>3, <2>1 DEF Presenting, Running
    <3> QED
      BY <1>1, <3>1 DEF BoundInv
  <2>2. CASE j.call \in Presenters /\ j.ticket = t
    <3>1. spends[t] = 0
      <4>1. Good(t, IF j.call = "refresh" THEN "session" ELSE "link")
        BY <2>2, Given DEF Admitted
      <4>2. ~(spends[t] > 0)
        BY <4>1 DEF SpendInv, Good
      <4> QED
        BY <4>2, CountsNow
    <3>2. Presenting(t)' \in SUBSET Client
      BY DEF Presenting
    <3>3. Cardinality(Presenting(t)') <= Cardinality(Client) /\ Cardinality(Presenting(t)') \in Nat
      BY <3>2, Counts
    <3> QED
      BY <1>1, <3>1, <3>3
  <2> QED
    BY <2>1, <2>2
<1> QED
  BY <1>4, <1>5, <1>6 DEF BoundInv

LEMMA AdvanceBound ==
    ASSUME ShapeInv, BoundInv, NEW c \in Client, NEW k, Advance(c, k)
    PROVE  BoundInv'
<1>1. /\ job'[c] = k /\ SameRequest(k, job[c]) /\ Running(c)
      /\ \A d \in Client : d # c => job'[d] = job[d]
      /\ UNCHANGED <<origin, epoch, spends>>
  BY DEF Advance, histories, ShapeInv, JobsOK
<1>2. Issuing' \subseteq Issuing
  BY <1>1 DEF Issuing, Running, SameRequest
<1>3. \A u \in User : Enders(u)' \subseteq Enders(u)
  BY <1>1 DEF Enders, Running, SameRequest, Ends
<1>4. \A t \in Ticket : Presenting(t)' \subseteq Presenting(t)
  BY <1>1 DEF Presenting, Running, SameRequest
<1> QED
  BY <1>1, <1>2, <1>3, <1>4, FewerBound

LEMMA LeaveBound ==
    ASSUME ShapeInv, BoundInv, Leave \/ Elapse
    PROVE  BoundInv'
<1>1. /\ \A d \in Client : Running(d)' => Running(d) /\ job'[d] = job[d]
      /\ UNCHANGED <<origin, epoch, spends>>
  BY DEF Leave, Elapse, histories, ShapeInv, JobsOK, Running
<1>2. Issuing' \subseteq Issuing
  BY <1>1 DEF Issuing
<1>3. \A u \in User : Enders(u)' \subseteq Enders(u)
  BY <1>1 DEF Enders
<1>4. \A t \in Ticket : Presenting(t)' \subseteq Presenting(t)
  BY <1>1 DEF Presenting
<1> QED
  BY <1>1, <1>2, <1>3, <1>4, FewerBound

LEMMA FinishBound ==
    ASSUME ShapeInv, BoundInv, NEW c \in Client, Finish(c)
    PROVE  BoundInv'
<1> DEFINE j == job[c]
           new == NextTicket(j)
<1>1. /\ j \in Job /\ JobShape(j) /\ Running(c) /\ j.user \in User
  BY FinishUsers
<1>2. \A d \in Client : Running(d)' <=> Running(d) /\ d # c
  BY FinishHistory DEF Running, ShapeInv, JobsOK
<1>3. \A d \in Client : d # c => job'[d] = job[d]
  BY FinishHistory DEF ShapeInv, JobsOK
<1>4. Cardinality(Issued') + Cardinality(Issuing') <= MaxTickets
  <2>1. Issuing' = Issuing \ {c}
    BY <1>2, <1>3 DEF Issuing
  <2>2. Cardinality(Issuing) \in Nat /\ Cardinality(Issued) \in Nat
    BY Counts, CountsNow
  <2>3. CASE j.issue = "none"
    <3>1. new = None
      BY <1>1, <2>3, NextIsFree
    <3>2. \A t \in Ticket : origin'[t] = origin[t]
      BY <3>1, FinishHistory, Given
    <3>3. Issued' = Issued /\ Issuing' \in SUBSET Issuing /\ Issuing' \in SUBSET Client
      BY <2>1, <3>2, CountsNow DEF Issued
    <3>4. Cardinality(Issuing') <= Cardinality(Issuing) /\ Cardinality(Issuing') \in Nat
      BY <3>3, Counts, CountsNow
    <3> QED
      BY <2>2, <3>3, <3>4, Given DEF BoundInv
  <2>4. CASE j.issue # "none"
    <3>1. new \in Ticket /\ origin[new] = None /\ Issued \cup {new} = 1..new /\ new # None
      BY <1>1, <2>4, NextIsFree
    <3>2. origin'[new] # None /\ \A t \in Ticket : t # new => origin'[t] = origin[t]
      BY <3>1, FinishHistory, Given
    <3>3. Issued' = Issued \cup {new} /\ new \notin Issued
      BY <3>1, <3>2 DEF Issued
    <3>4. IsFiniteSet(Issued)
      <4>1. PICK n \in 0..MaxTickets : Issued = 1..n
        BY DEF ShapeInv, TicketsOK
      <4> QED
        BY <4>1, FS_Interval, Given
    <3>5. Cardinality(Issued') = Cardinality(Issued) + 1
      BY <3>3, <3>4, FS_AddElement
    <3>6. c \in Issuing
      BY <1>1, <2>4 DEF Issuing
    <3>7. Cardinality(Issuing') = Cardinality(Issuing) - 1
      BY <2>1, <3>6, Counts, CountsNow
    <3> QED
      BY <2>2, <3>5, <3>7, Given DEF BoundInv
  <2> QED
    BY <2>3, <2>4
<1>5. ASSUME NEW u \in User PROVE epoch'[u] + Cardinality(Enders(u)') <= MaxEpoch
  <2>1. Enders(u) \in SUBSET Client /\ epoch[u] \in Nat /\ Cardinality(Enders(u)) \in Nat
    BY CountsNow, Counts
  <2>2. Enders(u)' = Enders(u) \ {c}
    BY <1>2, <1>3 DEF Enders
  <2>3. epoch'[u] = IF Ends(j) /\ u = j.user THEN epoch[u] + 1 ELSE epoch[u]
    BY DEF Finish, RememberAccount, ShapeInv, TypeOK
  <2>4. CASE Ends(j) /\ u = j.user
    <3>1. c \in Enders(u)
      BY <1>1, <2>4 DEF Enders
    <3>2. Cardinality(Enders(u)') = Cardinality(Enders(u)) - 1
      BY <2>1, <2>2, <3>1, Counts
    <3> QED
      BY <2>1, <2>3, <2>4, <3>2, Given DEF BoundInv
  <2>5. CASE ~(Ends(j) /\ u = j.user)
    <3>1. Enders(u)' \in SUBSET Enders(u) /\ Enders(u)' \in SUBSET Client
      BY <2>1, <2>2
    <3>2. Cardinality(Enders(u)') <= Cardinality(Enders(u)) /\ Cardinality(Enders(u)') \in Nat
      BY <2>1, <3>1, Counts
    <3> QED
      BY <2>1, <2>3, <2>5, <3>2, Given DEF BoundInv
  <2> QED
    BY <2>4, <2>5
<1>6. ASSUME NEW t \in Ticket PROVE spends'[t] + Cardinality(Presenting(t)') <= Cardinality(Client)
  <2>1. Presenting(t) \in SUBSET Client /\ spends[t] \in Nat /\ Cardinality(Presenting(t)) \in Nat
        /\ Cardinality(Client) \in Nat
    BY CountsNow, Counts
  <2>2. Presenting(t)' = Presenting(t) \ {c}
    BY <1>2, <1>3 DEF Presenting
  <2>3. spends'[t] = IF j.call \in Presenters /\ t = j.ticket THEN spends[t] + 1 ELSE spends[t]
    BY FinishHistory
  <2>4. CASE j.call \in Presenters /\ t = j.ticket
    <3>1. c \in Presenting(t)
      BY <1>1, <2>4 DEF Presenting
    <3>2. Cardinality(Presenting(t)') = Cardinality(Presenting(t)) - 1
      BY <2>1, <2>2, <3>1, Counts
    <3> QED
      BY <2>1, <2>3, <2>4, <3>2 DEF BoundInv
  <2>5. CASE ~(j.call \in Presenters /\ t = j.ticket)
    <3>1. Presenting(t)' \in SUBSET Presenting(t) /\ Presenting(t)' \in SUBSET Client
      BY <2>1, <2>2
    <3>2. Cardinality(Presenting(t)') <= Cardinality(Presenting(t))
          /\ Cardinality(Presenting(t)') \in Nat
      BY <2>1, <3>1, Counts
    <3> QED
      BY <2>1, <2>3, <2>5, <3>2 DEF BoundInv
  <2> QED
    BY <2>4, <2>5
<1> QED
  BY <1>4, <1>5, <1>6 DEF BoundInv

LEMMA BoundStep ==
    ASSUME ShapeInv, BoundInv, SpendInv, [Next]_vars
    PROVE  BoundInv'
  BY StepCases, BeginBound, AdvanceBound, LeaveBound, FinishBound

-----------------------------------------------------------------------------
(* A ticket is exchanged once.                                             *)

\* Other requests work on nothing a new one works on, unless that is remembered.
LEMMA OverlapSeen ==
    ASSUME NEW c \in Client, NEW j, Begin(c, j), NEW d \in Client, d # c, Running(d),
           NEW x \in Works(j), x \in Works(job[d])
    PROVE  x \in overlaps'
<1>1. job[d] \in Others(c)
  BY DEF Others
<1> QED
  BY <1>1 DEF Begin

LEMMA PresentsIt ==
    ASSUME NEW j
    PROVE  <<"ticket", j.ticket>> \in Works(j) <=> j.call \in Presenters
  BY DEF Works, Presenters

LEMMA SpendInit == Init => SpendInv
  BY DEF Init, SpendInv, Presenting, Running

LEMMA BeginSpend ==
    ASSUME ShapeInv, SpendInv, NEW c \in Client, ~Running(c), NEW j, Admitted(j), Begin(c, j)
    PROVE  SpendInv'
<1>1. /\ j \in Job /\ JobShape(j) /\ job'[c] = j
      /\ \A d \in Client : d # c => job'[d] = job[d]
      /\ UNCHANGED <<tickets, origin, spends>> /\ overlaps \subseteq overlaps'
  BY DEF Begin, Admitted, ShapeInv, JobsOK, tables
<1> SUFFICES ASSUME NEW t \in Ticket, <<"ticket", t>> \notin overlaps'
             PROVE  /\ \A d, e \in Presenting(t)' : d = e
                    /\ spends[t] = 1 => Presenting(t)' = {}
  BY <1>1 DEF SpendInv
<1>2. /\ \A d, e \in Presenting(t) : d = e
      /\ spends[t] = 1 => Presenting(t) = {}
  BY <1>1 DEF SpendInv
<1>3. CASE ~(j.call \in Presenters /\ j.ticket = t)
  <2>1. Presenting(t)' = Presenting(t)
    BY <1>1, <1>3 DEF Presenting, Running
  <2> QED
    BY <1>2, <2>1
<1>4. CASE j.call \in Presenters /\ j.ticket = t
  <2>1. ~(spends[t] > 0)
    <3>1. Good(t, IF j.call = "refresh" THEN "session" ELSE "link")
      BY <1>4, Given DEF Admitted
    <3> QED
      BY <3>1 DEF SpendInv, Good
  <2>2. <<"ticket", t>> \in Works(j)
    BY <1>4, PresentsIt
  <2>3. ASSUME NEW d \in Presenting(t) PROVE FALSE
    <3>1. d \in Client /\ Running(d) /\ d # c
      BY <2>3 DEF Presenting
    <3>2. <<"ticket", t>> \in Works(job[d])
      BY <2>3, PresentsIt DEF Presenting
    <3> QED
      BY <2>2, <3>1, <3>2, OverlapSeen
  <2>4. Presenting(t)' \subseteq {c}
    BY <1>1, <2>3 DEF Presenting, Running
  <2> QED
    BY <2>1, <2>4
<1> QED
  BY <1>3, <1>4

LEMMA AdvanceSpend ==
    ASSUME ShapeInv, SpendInv, NEW c \in Client, NEW k, Advance(c, k)
    PROVE  SpendInv'
<1>1. /\ job'[c] = k /\ SameRequest(k, job[c]) /\ Running(c)
      /\ \A d \in Client : d # c => job'[d] = job[d]
      /\ UNCHANGED <<tickets, origin, spends, overlaps>>
  BY DEF Advance, histories, tables, ShapeInv, JobsOK
<1>2. \A t \in Ticket : Presenting(t)' \subseteq Presenting(t)
  BY <1>1 DEF Presenting, Running, SameRequest
<1> QED
  BY <1>1, <1>2 DEF SpendInv

LEMMA LeaveSpend ==
    ASSUME ShapeInv, SpendInv, Leave \/ Elapse
    PROVE  SpendInv'
<1>1. /\ \A d \in Client : Running(d)' => Running(d) /\ job'[d] = job[d]
      /\ UNCHANGED <<origin, spends, overlaps>>
  BY DEF Leave, Elapse, histories, ShapeInv, JobsOK, Running
<1>2. \A t \in Ticket : Presenting(t)' \subseteq Presenting(t)
  BY <1>1 DEF Presenting
<1>3. \A t \in Ticket : tickets[t] = None => tickets'[t] = None
  BY DEF Leave, Elapse, tables
<1>4. \A t \in Ticket : tickets'[t] = None \/ (tickets'[t].spent <=> tickets[t].spent)
  BY DEF Leave, Elapse, tables
<1> QED
  BY <1>1, <1>2, <1>3, <1>4 DEF SpendInv

LEMMA FinishSpend ==
    ASSUME ShapeInv, BoundInv, SpendInv, NEW c \in Client, Finish(c)
    PROVE  SpendInv'
<1> DEFINE j == job[c]
           new == NextTicket(j)
<1>1. /\ j \in Job /\ JobShape(j) /\ Running(c) /\ j.phase = "commit"
  BY FinishUsers
<1>2. /\ \A d \in Client : Running(d)' <=> Running(d) /\ d # c
      /\ \A d \in Client : d # c => job'[d] = job[d]
      /\ overlaps' = overlaps
  BY FinishHistory DEF Running, ShapeInv, JobsOK
<1>3. new # None => new \in Ticket /\ origin[new] = None
  BY <1>1, NextIsFree
<1>4. TicketsOK'
  BY FinishTicketsOK
<1>5. ASSUME NEW t \in Ticket PROVE After(t, j, new)
  BY FinishTickets
<1>6. \A t \in Ticket : spends'[t] = IF j.call \in Presenters /\ t = j.ticket THEN spends[t] + 1
                                     ELSE spends[t]
  BY FinishHistory
<1>7. j.call \in Presenters => /\ j.ticket \in Ticket /\ origin[j.ticket] # None
                               /\ j.ticket \in SpentBy(j)
  <2>1. j.call \in Presenters => j.ticket \in Ticket /\ j.ticket \in SpentBy(j)
    BY <1>1 DEF JobShape, Job, SpentBy, Presenters
  <2> QED
    BY <1>1, <2>1, Given DEF ShapeInv, RequestsOK
<1>8. \A t \in Ticket : t = new => new # None
  BY Given
<1>9. \A t \in Ticket : Presenting(t)' = Presenting(t) \ {c}
  BY <1>2 DEF Presenting
<1>10. \A t \in Ticket : origin'[t] = None => origin[t] = None
  BY FinishHistory, Given
<1>11. \A t \in Ticket : spends[t] \in Nat
  BY CountsNow
<1> HIDE DEF j, new
<1>12. ASSUME NEW t \in Ticket
       PROVE  /\ spends'[t] > 0 => tickets'[t] = None \/ tickets'[t].spent
              /\ tickets'[t] # None => origin'[t] # None
              /\ origin'[t] = None => spends'[t] = 0
              /\ <<"ticket", t>> \notin overlaps' =>
                    /\ \A d, e \in Presenting(t)' : d = e
                    /\ spends'[t] <= 1
                    /\ spends'[t] = 1 => Presenting(t)' = {}
  <2>1. /\ spends[t] > 0 => tickets[t] = None \/ tickets[t].spent
        /\ origin[t] = None => spends[t] = 0
        /\ <<"ticket", t>> \notin overlaps =>
              /\ \A d, e \in Presenting(t) : d = e
              /\ spends[t] <= 1
              /\ spends[t] = 1 => Presenting(t) = {}
    BY DEF SpendInv
  <2>2. tickets'[t] # None => origin'[t] # None
    BY <1>4 DEF TicketsOK
  <2>3. CASE j.call \in Presenters /\ t = j.ticket
    <3>1. spends'[t] = spends[t] + 1 /\ t # new
      BY <1>3, <1>6, <1>7, <1>8, <2>3
    <3>2. tickets'[t] = None \/ tickets'[t].spent
      BY <1>5, <1>7, <2>3, <3>1 DEF After
    <3>3. c \in Presenting(t)
      BY <1>1, <2>3 DEF Presenting, j
    <3>4. <<"ticket", t>> \notin overlaps => Presenting(t)' = {} /\ spends[t] = 0
      BY <1>9, <1>11, <2>1, <3>3
    <3> QED
      BY <1>2, <1>7, <1>10, <2>2, <2>3, <3>1, <3>2, <3>4
  <2>4. CASE ~(j.call \in Presenters /\ t = j.ticket)
    <3>1. spends'[t] = spends[t]
      BY <1>6, <2>4
    <3>2. spends'[t] > 0 => t # new
      BY <1>3, <1>8, <2>1, <3>1
    <3>3. spends'[t] > 0 => tickets'[t] = None \/ tickets'[t].spent
      BY <1>5, <2>1, <3>1, <3>2 DEF After
    <3> QED
      BY <1>2, <1>9, <1>10, <2>1, <2>2, <3>1, <3>3
  <2> QED
    BY <2>3, <2>4
<1> QED
  BY <1>12 DEF SpendInv

LEMMA SpendStep ==
    ASSUME ShapeInv, BoundInv, SpendInv, [Next]_vars
    PROVE  SpendInv'
  BY StepCases, BeginSpend, AdvanceSpend, LeaveSpend, FinishSpend

-----------------------------------------------------------------------------
(* Only the newest reset link works.                                       *)

LEMMA LinksIt ==
    ASSUME NEW j
    PROVE  <<"links", j.user>> \in Works(j) <=> j.bulk = "link"
  BY DEF Works

LEMMA LinkInit == Init => LinkInv
  BY Given DEF Init, LinkInv, Linking, Running, Unspent

LEMMA BeginLink ==
    ASSUME ShapeInv, LinkInv, NEW c \in Client, ~Running(c), NEW j, Admitted(j), Begin(c, j)
    PROVE  LinkInv'
<1>1. /\ j \in Job /\ JobShape(j) /\ job'[c] = j
      /\ \A d \in Client : d # c => job'[d] = job[d]
      /\ UNCHANGED tickets /\ overlaps \subseteq overlaps'
      /\ j.bulk # "none" => j.phase = "scan"
  BY DEF Begin, Admitted, ShapeInv, JobsOK, tables
<1>2. \A u : Unspent(u, "link")' = Unspent(u, "link")
  BY <1>1 DEF Unspent
<1> SUFFICES ASSUME NEW u \in User, <<"links", u>> \notin overlaps'
             PROVE  /\ \A d, e \in Linking(u)' : d = e
                    /\ \A d \in Linking(u)' :
                         /\ job'[d].phase = "take" => Unspent(u, "link") \subseteq job'[d].seen
                         /\ job'[d].phase = "commit" => Unspent(u, "link") \subseteq job'[d].taken
  BY <1>1, <1>2 DEF LinkInv
<1>3. CASE ~(j.bulk = "link" /\ j.user = u)
  <2>1. Linking(u)' = Linking(u) /\ c \notin Linking(u)
    BY <1>1, <1>3 DEF Linking, Running
  <2>2. \A d \in Linking(u) : job'[d] = job[d]
    BY <1>1, <2>1 DEF Linking
  <2> QED
    BY <1>1, <2>1, <2>2 DEF LinkInv
<1>4. CASE j.bulk = "link" /\ j.user = u
  <2>1. <<"links", u>> \in Works(j)
    BY <1>4, LinksIt
  <2>2. ASSUME NEW d \in Linking(u) PROVE FALSE
    <3>1. d \in Client /\ Running(d) /\ d # c
      BY <2>2 DEF Linking
    <3>2. <<"links", u>> \in Works(job[d])
      BY <2>2, LinksIt DEF Linking
    <3> QED
      BY <2>1, <3>1, <3>2, OverlapSeen
  <2>3. Linking(u)' \subseteq {c}
    BY <1>1, <2>2 DEF Linking, Running
  <2> QED
    BY <1>1, <1>4, <2>3
<1> QED
  BY <1>3, <1>4

LEMMA AdvanceLink ==
    ASSUME ShapeInv, LinkInv, NEW c \in Client, NEW k, Advance(c, k)
    PROVE  LinkInv'
<1>1. /\ job'[c] = k /\ SameRequest(k, job[c]) /\ Running(c)
      /\ \A d \in Client : d # c => job'[d] = job[d]
      /\ UNCHANGED <<tickets, overlaps>>
  BY DEF Advance, histories, tables, ShapeInv, JobsOK
<1>2. \A u \in User : Unspent(u, "link")' = Unspent(u, "link")
  BY <1>1 DEF Unspent
<1>3. \A u \in User : Linking(u)' \subseteq Linking(u)
  BY <1>1 DEF Linking, Running, SameRequest
<1>4. ASSUME NEW u \in User, <<"links", u>> \notin overlaps, NEW d \in Linking(u)'
      PROVE  /\ job'[d].phase = "take" => Unspent(u, "link") \subseteq job'[d].seen
             /\ job'[d].phase = "commit" => Unspent(u, "link") \subseteq job'[d].taken
  <2>1. d \in Linking(u) /\ d \in Client
    BY <1>3, <1>4 DEF Linking
  <2>2. CASE d # c
    BY <1>1, <1>4, <2>1, <2>2 DEF LinkInv
  <2>3. CASE d = c
    <3>1. k.bulk = "link" /\ k.user = u
      BY <1>1, <2>1, <2>3 DEF Linking, SameRequest
    <3>2. job[c].phase = "take" => Unspent(u, "link") \subseteq job[c].seen
      BY <1>4, <2>1, <2>3 DEF LinkInv
    <3> QED
      BY <1>1, <2>3, <3>1, <3>2 DEF Advance
  <2> QED
    BY <2>2, <2>3
<1> QED
  BY <1>1, <1>2, <1>3, <1>4 DEF LinkInv

LEMMA LeaveLink ==
    ASSUME ShapeInv, LinkInv, Leave \/ Elapse
    PROVE  LinkInv'
<1>1. /\ \A d \in Client : Running(d)' => Running(d) /\ job'[d] = job[d]
      /\ UNCHANGED overlaps
  BY DEF Leave, Elapse, histories, ShapeInv, JobsOK, Running
<1>2. \A u \in User : Linking(u)' \subseteq Linking(u)
  BY <1>1 DEF Linking
<1>3. \A u \in User : Unspent(u, "link")' \subseteq Unspent(u, "link")
  BY DEF Leave, Elapse, tables, Unspent
<1>4. \A u \in User : \A d \in Linking(u)' : job'[d] = job[d]
  BY <1>1 DEF Linking
<1> QED
  BY <1>1, <1>2, <1>3, <1>4 DEF LinkInv

\* The tickets of an account after a commit that were not there or not spent.
LEMMA FinishUnspent ==
    ASSUME ShapeInv, NEW c \in Client, Finish(c), NEW u, NEW sort, NEW t \in Unspent(u, sort)'
    PROVE  \/ t = NextTicket(job[c]) /\ job[c].user = u /\ job[c].issue = sort
           \/ t \in Unspent(u, sort) /\ t \notin SpentBy(job[c]) /\ t # NextTicket(job[c])
<1>1. t \in Ticket /\ tickets'[t] # None /\ tickets'[t].user = u /\ tickets'[t].sort = sort
      /\ ~tickets'[t].spent
  BY DEF Unspent
<1>2. After(t, job[c], NextTicket(job[c]))
  BY <1>1, FinishTickets
<1> QED
  BY <1>1, <1>2 DEF After, NewTicket, Unspent

LEMMA FinishLink ==
    ASSUME ShapeInv, BoundInv, LinkInv, NEW c \in Client, Finish(c)
    PROVE  LinkInv'
<1> DEFINE j == job[c]
           new == NextTicket(j)
<1>1. /\ j \in Job /\ JobShape(j) /\ Running(c) /\ j.phase = "commit"
  BY FinishUsers
<1>2. /\ \A d \in Client : Running(d)' <=> Running(d) /\ d # c
      /\ \A d \in Client : d # c => job'[d] = job[d]
      /\ overlaps' = overlaps
  BY FinishHistory DEF Running, ShapeInv, JobsOK
<1>3. \A u : Linking(u)' = Linking(u) \ {c}
  BY <1>2 DEF Linking
<1>4. j.taken \subseteq SpentBy(j)
  BY DEF SpentBy
<1> SUFFICES ASSUME NEW u \in User, <<"links", u>> \notin overlaps
             PROVE  /\ \A d, e \in Linking(u)' : d = e
                    /\ \A s, t \in Unspent(u, "link")' : s = t
                    /\ \A d \in Linking(u)' :
                         /\ job'[d].phase = "take" => Unspent(u, "link")' \subseteq job'[d].seen
                         /\ job'[d].phase = "commit" => Unspent(u, "link")' \subseteq job'[d].taken
  BY <1>2 DEF LinkInv
<1>5. CASE c \in Linking(u)
  <2>1. Linking(u)' = {}
    BY <1>3, <1>5 DEF LinkInv
  <2>2. Unspent(u, "link") \subseteq SpentBy(j)
    BY <1>1, <1>4, <1>5 DEF LinkInv
  <2>3. \A t \in Unspent(u, "link")' : t = new
    BY <2>2, FinishUnspent
  <2> QED
    BY <2>1, <2>3
<1>6. CASE c \notin Linking(u)
  <2>1. ~(j.user = u /\ j.issue = "link")
    BY <1>1, <1>6 DEF Linking, JobShape
  <2>2. Unspent(u, "link")' \subseteq Unspent(u, "link")
    BY <2>1, FinishUnspent
  <2>3. Linking(u)' = Linking(u) /\ \A d \in Linking(u) : job'[d] = job[d]
    BY <1>2, <1>3, <1>6 DEF Linking
  <2> QED
    BY <2>2, <2>3 DEF LinkInv
<1> QED
  BY <1>5, <1>6

LEMMA LinkStep ==
    ASSUME ShapeInv, BoundInv, LinkInv, [Next]_vars
    PROVE  LinkInv'
  BY StepCases, BeginLink, AdvanceLink, LeaveLink, FinishLink

-----------------------------------------------------------------------------
(* The counter of failed logins.                                           *)

LEMMA AttemptsIt ==
    ASSUME NEW j
    PROVE  <<"attempts", j.user>> \in Works(j) <=> j.call \in {"login", "reset"}
  BY DEF Works

LEMMA AttemptInit == Init => AttemptInv
<1> SUFFICES ASSUME Init PROVE AttemptInv
  OBVIOUS
<1>1. \A u \in DOMAIN First : First[u] # None
  BY AccountConstants
<1>2. \A u \in User : Attempting(u) = {}
  BY DEF Init, Attempting, Running
<1> QED
  BY <1>1, <1>2 DEF Init, AttemptInv, Exists

LEMMA BeginAttempt ==
    ASSUME ShapeInv, AttemptInv, NEW c \in Client, ~Running(c), NEW j, Admitted(j), Begin(c, j)
    PROVE  AttemptInv'
<1>1. /\ j \in Job /\ JobShape(j) /\ job'[c] = j /\ j.loaded = users[j.user]
      /\ \A d \in Client : d # c => job'[d] = job[d]
      /\ UNCHANGED <<users, failures>> /\ overlaps \subseteq overlaps'
  BY DEF Begin, Admitted, ShapeInv, JobsOK, tables
<1> SUFFICES ASSUME NEW u \in User, Exists(u), <<"attempts", u>> \notin overlaps'
             PROVE  /\ \A d, e \in Attempting(u)' : d = e
                    /\ \A d \in Attempting(u)' : job'[d].loaded.attempts = failures[u]
  BY <1>1 DEF AttemptInv, Exists
<1>2. /\ \A d, e \in Attempting(u) : d = e
      /\ users[u].attempts = failures[u]
      /\ \A d \in Attempting(u) : job[d].loaded.attempts = failures[u]
  BY <1>1 DEF AttemptInv
<1>3. CASE ~(j.call \in {"login", "reset"} /\ j.user = u)
  <2>1. Attempting(u)' = Attempting(u) /\ c \notin Attempting(u)
    BY <1>1, <1>3 DEF Attempting, Running
  <2>2. \A d \in Attempting(u) : job'[d] = job[d]
    BY <1>1, <2>1 DEF Attempting
  <2> QED
    BY <1>2, <2>1, <2>2
<1>4. CASE j.call \in {"login", "reset"} /\ j.user = u
  <2>1. <<"attempts", u>> \in Works(j)
    BY <1>4, AttemptsIt
  <2>2. ASSUME NEW d \in Attempting(u) PROVE FALSE
    <3>1. d \in Client /\ Running(d) /\ d # c
      BY <2>2 DEF Attempting
    <3>2. <<"attempts", u>> \in Works(job[d])
      BY <2>2, AttemptsIt DEF Attempting
    <3> QED
      BY <2>1, <3>1, <3>2, OverlapSeen
  <2>3. Attempting(u)' \subseteq {c}
    BY <1>1, <2>2 DEF Attempting, Running
  <2> QED
    BY <1>1, <1>2, <1>4, <2>3
<1> QED
  BY <1>3, <1>4

LEMMA AdvanceAttempt ==
    ASSUME ShapeInv, AttemptInv, NEW c \in Client, NEW k, Advance(c, k)
    PROVE  AttemptInv'
<1>1. /\ job'[c] = k /\ SameRequest(k, job[c]) /\ Running(c)
      /\ \A d \in Client : d # c => job'[d] = job[d]
      /\ UNCHANGED <<users, failures, overlaps>>
  BY DEF Advance, histories, tables, ShapeInv, JobsOK
<1>2. \A u \in User : Attempting(u)' \subseteq Attempting(u)
  BY <1>1 DEF Attempting, Running, SameRequest
<1>3. \A d \in Client : job'[d].loaded = job[d].loaded
  BY <1>1 DEF SameRequest
<1>4. \A u \in User : \A d \in Attempting(u)' : job'[d].loaded = job[d].loaded
  BY <1>3 DEF Attempting
<1>5. ASSUME NEW u \in User
      PROVE  /\ ~Exists(u)' => failures'[u] = 0
             /\ Exists(u)' /\ <<"attempts", u>> \notin overlaps' =>
                   /\ \A d, e \in Attempting(u)' : d = e
                   /\ users'[u].attempts = failures'[u]
                   /\ \A d \in Attempting(u)' : job'[d].loaded.attempts = failures'[u]
  <2>1. (Exists(u)' <=> Exists(u)) /\ users' = users /\ failures' = failures /\ overlaps' = overlaps
    BY <1>1 DEF Exists
  <2>2. \A d \in Attempting(u)' : d \in Attempting(u) /\ job'[d].loaded = job[d].loaded
    BY <1>2, <1>4
  <2> QED
    BY <2>1, <2>2 DEF AttemptInv
<1> QED
  BY <1>5 DEF AttemptInv

LEMMA LeaveAttempt ==
    ASSUME ShapeInv, AttemptInv, Leave \/ Elapse
    PROVE  AttemptInv'
<1>1. /\ \A d \in Client : Running(d)' => Running(d) /\ job'[d] = job[d]
      /\ UNCHANGED <<overlaps, failures>>
  BY DEF Leave, Elapse, histories, ShapeInv, JobsOK, Running
<1>2. \A u \in User : Attempting(u)' \subseteq Attempting(u)
  BY <1>1 DEF Attempting
<1>3. \A u \in User : /\ Exists(u)' <=> Exists(u)
                      /\ Exists(u) => users'[u].attempts = users[u].attempts
  BY DEF Leave, Elapse, tables, Exists
<1>4. \A u \in User : \A d \in Attempting(u)' : job'[d] = job[d]
  BY <1>1 DEF Attempting
<1>5. ASSUME NEW u \in User
      PROVE  /\ ~Exists(u)' => failures'[u] = 0
             /\ Exists(u)' /\ <<"attempts", u>> \notin overlaps' =>
                   /\ \A d, e \in Attempting(u)' : d = e
                   /\ users'[u].attempts = failures'[u]
                   /\ \A d \in Attempting(u)' : job'[d].loaded.attempts = failures'[u]
  <2>1. \A d \in Attempting(u)' : d \in Attempting(u) /\ job'[d] = job[d]
    BY <1>2, <1>4
  <2> QED
    BY <1>1, <1>3, <2>1 DEF AttemptInv
<1> QED
  BY <1>5 DEF AttemptInv

LEMMA FinishAttempt ==
    ASSUME ShapeInv, AttemptInv, NEW c \in Client, Finish(c)
    PROVE  AttemptInv'
<1> DEFINE j == job[c]
<1>1. /\ j \in Job /\ JobShape(j) /\ Running(c) /\ j.user \in User
      /\ users' = [users EXCEPT ![j.user] = Saved(j)]
      /\ users \in [User -> UserRow \cup {None}]
      /\ j.call \in Newcomers <=> ~Exists(j.user)
      /\ j.call = "delete" <=> users'[j.user] = None
      /\ j.call \notin Newcomers \cup {"delete"} =>
            users'[j.user].attempts = IF j.now.attempts # j.loaded.attempts
                                      THEN j.now.attempts ELSE users[j.user].attempts
      /\ j.call \in Newcomers => users'[j.user].attempts = 0
  BY FinishUsers DEF ShapeInv, TypeOK
<1>2. /\ \A d \in Client : Running(d)' <=> Running(d) /\ d # c
      /\ \A d \in Client : d # c => job'[d] = job[d]
      /\ job' = [job EXCEPT ![c] = None] /\ overlaps' = overlaps
  BY DEF Finish, RememberAccount, Running, ShapeInv, JobsOK
<1>3. /\ \A u \in User : u # j.user => users'[u] = users[u]
      /\ \A u \in User : u # j.user => failures'[u] = failures[u]
      /\ failures'[j.user] = IF j.call = "login" /\ j.issue = "none"
                             THEN (failures[j.user] + 1) % MaxFailures
                             ELSE IF j.call \in {"login", "reset", "delete"} THEN 0
                             ELSE failures[j.user]
  BY <1>1 DEF Finish, RememberAccount, ShapeInv, TypeOK
<1>4. \A u : Attempting(u)' = Attempting(u) \ {c}
  BY <1>2 DEF Attempting
<1>5. \A u : \A d \in Attempting(u)' : job'[d] = job[d]
  BY <1>2 DEF Attempting
<1>6. j.call = "login" => /\ j.loaded \in UserRow
                          /\ j.now = IF j.issue = "none" THEN RegisterFailedAttempt(j.loaded)
                                     ELSE ClearLockout(j.loaded)
  BY <1>1 DEF JobShape, Job, Newcomers
<1>7. j.call = "reset" => j.loaded \in UserRow /\ j.now = ClearLockout(j.loaded)
  BY <1>1 DEF JobShape, Job, Newcomers
<1>8. j.call = "login" =>
         j.now.attempts = IF j.issue = "none" THEN (j.loaded.attempts + 1) % MaxFailures ELSE 0
  BY <1>6, FailedAttemptRow, ClearLockoutRow
<1>9. j.call = "reset" => j.now.attempts = 0
  BY <1>7, ClearLockoutRow
<1>10. j.call \notin Newcomers \cup {"login", "reset", "delete"} => j.now.attempts = j.loaded.attempts
  BY <1>1 DEF JobShape
<1>11. c \in Attempting(j.user) <=> j.call \in {"login", "reset"}
  BY <1>1 DEF Attempting
<1> HIDE DEF j
<1>12. ASSUME NEW u \in User
       PROVE  /\ ~Exists(u)' => failures'[u] = 0
              /\ Exists(u)' /\ <<"attempts", u>> \notin overlaps =>
                    /\ \A d, e \in Attempting(u)' : d = e
                    /\ users'[u].attempts = failures'[u]
                    /\ \A d \in Attempting(u)' : job'[d].loaded.attempts = failures'[u]
  <2>1. CASE u # j.user
    BY <1>3, <1>4, <1>5, <2>1 DEF AttemptInv, Exists
  <2>2. CASE u = j.user
    <3>1. ~Exists(u)' => failures'[u] = 0
      BY <1>1, <1>3, <2>2 DEF Exists
    <3>2. ASSUME Exists(u)', <<"attempts", u>> \notin overlaps
          PROVE  /\ \A d, e \in Attempting(u)' : d = e
                 /\ users'[u].attempts = failures'[u]
                 /\ \A d \in Attempting(u)' : job'[d].loaded.attempts = failures'[u]
      <4>1. j.call # "delete"
        BY <1>1, <2>2, <3>2 DEF Exists
      <4>2. CASE j.call \in Newcomers
        <5>1. Attempting(u) = {}
          BY <1>1, <2>2, <4>2, RunningJob
             DEF Attempting, ShapeInv, RequestsOK, j, Newcomers
        <5>2. failures'[u] = failures[u] /\ failures[u] = 0
          BY <1>1, <1>3, <2>2, <4>2 DEF AttemptInv, Newcomers
        <5> QED
          BY <1>1, <1>4, <2>2, <4>2, <5>1, <5>2
      <4>3. CASE j.call \notin Newcomers
        <5>1. /\ \A d, e \in Attempting(u) : d = e
              /\ users[u].attempts = failures[u]
              /\ \A d \in Attempting(u) : job[d].loaded.attempts = failures[u]
          BY <1>1, <2>2, <3>2, <4>3 DEF AttemptInv
        <5>2. CASE j.call \in {"login", "reset"}
          <6>1. Attempting(u)' = {}
            BY <1>4, <1>11, <2>2, <5>1, <5>2
          <6>2. j.loaded.attempts = failures[u]
            BY <1>11, <2>2, <5>1, <5>2 DEF j
          <6>3. users'[u].attempts = j.now.attempts
            BY <1>1, <2>2, <4>1, <4>3, <5>1, <6>2
          <6> QED
            BY <1>3, <1>8, <1>9, <2>2, <5>2, <6>1, <6>2, <6>3
        <5>3. CASE j.call \notin {"login", "reset"}
          <6>1. users'[u].attempts = users[u].attempts /\ failures'[u] = failures[u]
            BY <1>1, <1>3, <1>10, <2>2, <4>1, <4>3, <5>3
          <6> QED
            BY <1>4, <1>5, <5>1, <6>1
        <5> QED
          BY <5>2, <5>3
      <4> QED
        BY <4>2, <4>3
    <3> QED
      BY <3>1, <3>2
  <2> QED
    BY <2>1, <2>2
<1> QED
  BY <1>2, <1>12 DEF AttemptInv

LEMMA AttemptStep ==
    ASSUME ShapeInv, AttemptInv, [Next]_vars
    PROVE  AttemptInv'
  BY StepCases, BeginAttempt, AdvanceAttempt, LeaveAttempt, FinishAttempt

-----------------------------------------------------------------------------
(* No session outlives the end of its epoch but in a race.                 *)

\* What a bulk UPDATE that started now would find.
UnspentAfter(u, sort) ==
    {t \in Ticket : tickets'[t] # None /\ tickets'[t].user = u
                        /\ tickets'[t].sort = sort /\ ~tickets'[t].spent}

LEMMA EndInit == Init => EndInv
  BY Given DEF Init, EndInv, Good, Running

LEMMA BeginEnd ==
    ASSUME ShapeInv, EndInv, NEW c \in Client, ~Running(c), NEW j, Admitted(j), Begin(c, j)
    PROVE  EndInv'
<1>1. /\ j \in Job /\ JobShape(j) /\ job'[c] = j /\ j.since = epoch[j.user]
      /\ \A d \in Client : d # c => job'[d] = job[d]
      /\ UNCHANGED <<tickets, origin, epoch, survivors>>
      /\ j.bulk # "none" => j.phase = "scan"
  BY DEF Begin, Admitted, ShapeInv, JobsOK, tables
<1>2. \A t : Good(t, "session")' <=> Good(t, "session")
  BY <1>1 DEF Good
<1>3. \A u : Unspent(u, "session")' = Unspent(u, "session")
  BY <1>1 DEF Unspent
<1>4. Ends(j) => j.phase = "scan"
  BY <1>1 DEF Ends
<1>5. j.call = "refresh" /\ j.ticket \notin survivors => origin[j.ticket].epoch = j.since
  <2>1. CASE j.call = "refresh" /\ j.ticket \notin survivors
    <3>1. j.ticket \in Ticket
      BY <1>1, <2>1 DEF JobShape, Job, Presenters
    <3>2. Good(j.ticket, "session") /\ tickets[j.ticket].user = j.user
      BY <2>1, <3>1, Given DEF Admitted
    <3>3. origin[j.ticket].user = j.user
      BY <3>1, <3>2 DEF ShapeInv, TicketsOK, Good
    <3> QED
      BY <1>1, <2>1, <3>1, <3>2, <3>3 DEF EndInv
  <2> QED
    BY <2>1
<1>6. ASSUME NEW d \in Client, Running(d)'
      PROVE  LET k == job'[d] IN
          /\ k.call = "refresh" /\ k.ticket \notin survivors => origin[k.ticket].epoch = k.since
          /\ Ends(k) /\ k.phase # "scan" =>
                Unspent(k.user, "session") \ survivors
                    \subseteq IF k.phase = "take" THEN k.seen ELSE k.taken
  <2>1. CASE d = c
    BY <1>1, <1>4, <1>5, <2>1
  <2>2. CASE d # c
    BY <1>1, <1>6, <2>2 DEF EndInv, Running
  <2> QED
    BY <2>1, <2>2
<1> QED
  BY <1>1, <1>2, <1>3, <1>6 DEF EndInv, Ends

LEMMA AdvanceEnd ==
    ASSUME ShapeInv, EndInv, NEW c \in Client, NEW k, Advance(c, k)
    PROVE  EndInv'
<1>1. /\ job'[c] = k /\ SameRequest(k, job[c]) /\ Running(c)
      /\ \A d \in Client : d # c => job'[d] = job[d]
      /\ UNCHANGED <<tickets, origin, epoch, survivors>>
  BY DEF Advance, histories, tables, ShapeInv, JobsOK
<1>2. \A t : Good(t, "session")' <=> Good(t, "session")
  BY <1>1 DEF Good
<1>3. \A u : Unspent(u, "session")' = Unspent(u, "session")
  BY <1>1 DEF Unspent
<1>4. Ends(k) /\ k.phase # "scan" =>
         Unspent(k.user, "session") \ survivors \subseteq IF k.phase = "take" THEN k.seen ELSE k.taken
  <2>1. CASE Ends(k)
    <3>1. k.bulk = "session" /\ Ends(job[c]) /\ job[c].user = k.user
      BY <1>1, <2>1 DEF Ends, SameRequest
    <3>2. job[c].phase = "take" => Unspent(k.user, "session") \ survivors \subseteq job[c].seen
      BY <1>1, <3>1 DEF EndInv
    <3> QED
      BY <3>1, <3>2 DEF Advance
  <2> QED
    BY <2>1
<1>5. ASSUME NEW d \in Client, Running(d)'
      PROVE  LET m == job'[d] IN
          /\ m.call = "refresh" /\ m.ticket \notin survivors => origin[m.ticket].epoch = m.since
          /\ Ends(m) /\ m.phase # "scan" =>
                Unspent(m.user, "session") \ survivors
                    \subseteq IF m.phase = "take" THEN m.seen ELSE m.taken
  <2>1. CASE d = c
    BY <1>1, <1>4, <2>1 DEF EndInv, SameRequest
  <2>2. CASE d # c
    BY <1>1, <1>5, <2>2 DEF EndInv, Running
  <2> QED
    BY <2>1, <2>2
<1> QED
  BY <1>1, <1>2, <1>3, <1>5 DEF EndInv, Ends

LEMMA LeaveEnd ==
    ASSUME ShapeInv, EndInv, Leave \/ Elapse
    PROVE  EndInv'
<1>1. /\ \A d \in Client : Running(d)' => Running(d) /\ job'[d] = job[d]
      /\ UNCHANGED <<origin, epoch, survivors>>
  BY DEF Leave, Elapse, histories, ShapeInv, JobsOK, Running
<1>2. \A t \in Ticket : Good(t, "session")' => Good(t, "session")
  BY DEF Leave, Elapse, tables, Good
<1>3. \A u : UnspentAfter(u, "session") \subseteq Unspent(u, "session")
  BY DEF Leave, Elapse, tables, Unspent, UnspentAfter
<1>4. ASSUME NEW d \in Client, Running(d)'
      PROVE  LET m == job'[d] IN
          /\ m.call = "refresh" /\ m.ticket \notin survivors => origin[m.ticket].epoch = m.since
          /\ Ends(m) /\ m.phase # "scan" =>
                Unspent(m.user, "session") \ survivors
                    \subseteq IF m.phase = "take" THEN m.seen ELSE m.taken
  BY <1>1, <1>4 DEF EndInv
<1>5. ASSUME NEW d \in Client, Running(d)'
      PROVE  Ends(job'[d]) /\ job'[d].phase # "scan" =>
                UnspentAfter(job'[d].user, "session") \ survivors
                    \subseteq IF job'[d].phase = "take" THEN job'[d].seen ELSE job'[d].taken
  <2>1. job' = job \/ job'[d] = job[d]
    BY <1>1, <1>5
  <2>2. UnspentAfter(job'[d].user, "session") \subseteq Unspent(job'[d].user, "session")
    BY <1>3
  <2> QED
    BY <1>4, <1>5, <2>2
<1> QED
  BY <1>1, <1>2, <1>4, <1>5 DEF EndInv, Ends, Unspent, UnspentAfter

LEMMA FinishEnd ==
    ASSUME ShapeInv, BoundInv, EndInv, NEW c \in Client, Finish(c)
    PROVE  EndInv'
<1> DEFINE j == job[c]
           new == NextTicket(j)
<1>1. /\ j \in Job /\ JobShape(j) /\ Running(c) /\ j.phase = "commit" /\ j.user \in User
  BY FinishUsers
<1>2. /\ \A d \in Client : Running(d)' => Running(d) /\ d # c /\ job'[d] = job[d]
  BY FinishHistory DEF Running, ShapeInv, JobsOK
<1>3. new # None => new \in Ticket /\ origin[new] = None
  BY <1>1, NextIsFree
<1>4. /\ \A t \in Ticket : t # new => origin'[t] = origin[t]
      /\ new # None => /\ origin'[new].user = j.user
                       /\ j.ticket = None => origin'[new].epoch = j.since
                       /\ j.ticket # None => origin'[new].epoch = origin[j.ticket].epoch
      /\ survivors' = IF new # None /\ j.issue = "session" /\ IssuedInRace(c, j)
                      THEN survivors \cup {new} ELSE survivors
  BY FinishHistory
<1>5. epoch' = IF Ends(j) THEN [epoch EXCEPT ![j.user] = epoch[j.user] + 1] ELSE epoch
  BY DEF Finish, RememberAccount
<1>6. epoch \in [User -> 0..MaxEpoch]
  BY DEF ShapeInv, TypeOK
<1>7. j.taken \subseteq SpentBy(j)
  BY DEF SpentBy
<1>8. \A t \in Ticket : t = new => new # None
  BY Given
<1>9. \A u, t : t \in UnspentAfter(u, "session") =>
         \/ t = new /\ j.user = u /\ j.issue = "session"
         \/ t \in Unspent(u, "session") /\ t \notin SpentBy(j) /\ t # new
  BY FinishUnspent DEF Unspent, UnspentAfter
<1>10. survivors \subseteq survivors'
  BY <1>4
<1>11. \A t \in Ticket : t # new /\ Good(t, "session")' => Good(t, "session")
  BY FinishTickets DEF After, Good
<1>12. \A t \in Ticket : Good(t, "session")' =>
          /\ t \in UnspentAfter(tickets'[t].user, "session")
          /\ t # new => tickets'[t].user = tickets[t].user
  BY FinishTickets DEF After, Good, UnspentAfter
<1>13. \A t \in Ticket : Good(t, "session") => origin[t].user = tickets[t].user
  BY DEF Good, ShapeInv, TicketsOK
<1>14. ASSUME NEW t \in Ticket, Good(t, "session")', t \notin survivors'
       PROVE  origin'[t].epoch = epoch'[origin'[t].user]
  <2>1. CASE t = new
    <3>1. j.issue = "session" /\ new # None
      <4>1. new # None
        BY <1>8, <2>1
      <4>2. t \in UnspentAfter(tickets'[t].user, "session")
        BY <1>12, <1>14
      <4>3. \A u : t \notin Unspent(u, "session") \/ t # new
        BY <1>3, <2>1, <4>1 DEF Unspent, ShapeInv, TicketsOK
      <4> QED
        BY <1>9, <2>1, <4>1, <4>2
    <3>2. ~IssuedInRace(c, j)
      BY <1>4, <1>14, <2>1, <3>1
    <3>3. epoch[j.user] = j.since /\ j.ticket \notin survivors
      BY <3>2 DEF IssuedInRace
    <3>4. j.call \in {"login", "refresh"} /\ (j.call = "login" <=> j.ticket = None)
      BY <1>1, <3>1 DEF JobShape, Presenters
    <3>5. origin'[new].epoch = j.since
      BY <1>1, <1>4, <3>1, <3>3, <3>4 DEF EndInv
    <3>6. epoch' = epoch
      BY <1>5, <3>4 DEF Ends
    <3> QED
      BY <1>4, <2>1, <3>1, <3>3, <3>5, <3>6
  <2>2. CASE t # new
    <3>1. /\ Good(t, "session") /\ t \notin survivors /\ origin'[t] = origin[t]
          /\ t \notin SpentBy(j) /\ t \in Unspent(origin[t].user, "session")
          /\ origin[t].user = tickets[t].user
      BY <1>4, <1>9, <1>10, <1>11, <1>12, <1>13, <1>14, <2>2
    <3>2. origin[t].epoch = epoch[origin[t].user]
      BY <3>1 DEF EndInv
    <3>3. ~(Ends(j) /\ j.user = origin[t].user)
      BY <1>1, <1>7, <3>1 DEF EndInv
    <3> QED
      BY <1>5, <1>6, <3>1, <3>2, <3>3
  <2> QED
    BY <2>1, <2>2
<1>15. ASSUME NEW d \in Client, Running(d), d # c
       PROVE  LET m == job[d] IN
          /\ m.call = "refresh" /\ m.ticket \notin survivors' => origin'[m.ticket].epoch = m.since
          /\ Ends(m) /\ m.phase # "scan" =>
                UnspentAfter(m.user, "session") \ survivors'
                    \subseteq IF m.phase = "take" THEN m.seen ELSE m.taken
  <2> DEFINE m == job[d]
  <2>1. m \in Job /\ JobShape(m)
    BY <1>15, RunningJob
  <2>2. m.call = "refresh" => m.ticket \in Ticket /\ origin[m.ticket] # None
    BY <1>15, <2>1, Given DEF JobShape, Job, Presenters, ShapeInv, RequestsOK
  <2>3. m.call = "refresh" /\ m.ticket \notin survivors' => origin'[m.ticket].epoch = m.since
    BY <1>3, <1>4, <1>8, <1>10, <1>15, <2>2 DEF EndInv
  <2>4. ASSUME Ends(m), m.phase # "scan",
               NEW t \in UnspentAfter(m.user, "session"), t \notin survivors'
        PROVE  t \in IF m.phase = "take" THEN m.seen ELSE m.taken
    <3>1. CASE t = new /\ j.user = m.user /\ j.issue = "session"
      <4>1. m \in Others(c)
        BY <1>15 DEF Others
      <4>2. IssuedInRace(c, j)
        BY <2>4, <3>1, <4>1 DEF IssuedInRace
      <4>3. new # None
        BY <1>1, <3>1, NextIsFree
      <4> QED
        BY <1>4, <2>4, <3>1, <4>2, <4>3
    <3>2. CASE t \in Unspent(m.user, "session")
      BY <1>10, <1>15, <2>4, <3>2 DEF EndInv
    <3> QED
      BY <1>9, <2>4, <3>1, <3>2
  <2>5. Ends(m) /\ m.phase # "scan" =>
           \A t \in UnspentAfter(m.user, "session") : t \notin survivors' =>
               t \in IF m.phase = "take" THEN m.seen ELSE m.taken
    BY <2>4
  <2> QED
    BY <2>3, <2>5
<1>16. ASSUME NEW d \in Client, Running(d)'
       PROVE  LET m == job'[d] IN
          /\ m.call = "refresh" /\ m.ticket \notin survivors' => origin'[m.ticket].epoch = m.since
          /\ Ends(m) /\ m.phase # "scan" =>
                UnspentAfter(m.user, "session") \ survivors'
                    \subseteq IF m.phase = "take" THEN m.seen ELSE m.taken
  <2>1. Running(d) /\ d # c /\ job'[d] = job[d]
    BY <1>2, <1>16
  <2> QED
    BY <1>15, <2>1
<1> QED
  BY <1>14, <1>16 DEF EndInv, Ends, Unspent, UnspentAfter

LEMMA EndStep ==
    ASSUME ShapeInv, BoundInv, EndInv, [Next]_vars
    PROVE  EndInv'
  BY StepCases, BeginEnd, AdvanceEnd, LeaveEnd, FinishEnd

-----------------------------------------------------------------------------
(* The theorems.                                                           *)

\* The invariant the theorems rest on.
IInv == ShapeInv /\ BoundInv /\ SpendInv /\ LinkInv /\ AttemptInv /\ EndInv

LEMMA IInvAlways == Spec => []IInv
<1>1. Init => IInv
  BY ShapeInit, BoundInit, SpendInit, LinkInit, AttemptInit, EndInit DEF IInv
<1>2. IInv /\ [Next]_vars => IInv'
  BY ShapeStep, BoundStep, SpendStep, LinkStep, AttemptStep, EndStep DEF IInv
<1> QED
  BY <1>1, <1>2, PTL DEF Spec

\* Every state is well formed, and the bounds on tickets, epochs and exchanges hold.
THEOREM TypeCorrect == Spec => []TypeOK
<1>1. IInv => TypeOK
  BY DEF IInv, ShapeInv
<1> QED
  BY <1>1, IInvAlways, PTL

\* A refresh token or a reset link is exchanged once, unless two requests presented
\* it at the same time.
THEOREM ExchangedOnce == Spec => []SpentOnce
<1>1. IInv => SpentOnce
  BY DEF IInv, SpendInv, SpentOnce
<1> QED
  BY <1>1, IInvAlways, PTL

\* No chain of rotations, however long, carries a session over a change of the password
\* or a deactivation but through one issued in a race with it.
THEOREM NoOldSession == Spec => []OldSessionsOnlyByRace
<1>1. IInv => OldSessionsOnlyByRace
  BY DEF IInv, EndInv, OldSessionsOnlyByRace
<1> QED
  BY <1>1, IInvAlways, PTL

\* The counter of failed logins counts them, at every threshold, where logins and
\* resets of an account did not overlap.
THEOREM CounterCounts == Spec => []LockoutExact
<1>1. IInv => LockoutExact
  BY DEF IInv, AttemptInv, LockoutExact
<1> QED
  BY <1>1, IInvAlways, PTL

\* Where no two were asked for at once, one reset link of an account works.
THEOREM NewestLink == Spec => []OneLiveLink
<1>1. ASSUME IInv, NEW u \in User, <<"links", u>> \notin overlaps
      PROVE  Cardinality(Unspent(u, "link")) <= 1
  <2>1. \A s, t \in Unspent(u, "link") : s = t
    BY <1>1 DEF IInv, LinkInv
  <2>2. CASE Unspent(u, "link") = {}
    BY <2>2, FS_EmptySet
  <2>3. CASE Unspent(u, "link") # {}
    <3>1. PICK t : Unspent(u, "link") = {t}
      BY <2>1, <2>3
    <3> QED
      BY <3>1, FS_Singleton
  <2> QED
    BY <2>2, <2>3
<1>2. IInv => OneLiveLink
  BY <1>1 DEF OneLiveLink
<1> QED
  BY <1>2, IInvAlways, PTL

\* A request that commits lifts a lock only if it is a reset, or a login that found
\* the lock over.
LEMMA FinishKeepsLock ==
    ASSUME ShapeInv, NEW c \in Client, Finish(c)
    PROVE  KeepsLock
<1> DEFINE j == job[c]
<1>1. /\ j \in Job /\ JobShape(j) /\ Running(c) /\ j.user \in User
      /\ users' = [users EXCEPT ![j.user] = Saved(j)]
      /\ users \in [User -> UserRow \cup {None}]
      /\ j.call \in Newcomers <=> ~Exists(j.user)
      /\ j.call = "delete" <=> users'[j.user] = None
      /\ j.call \notin Newcomers \cup {"delete"} =>
            users'[j.user].lock = IF j.now.lock # j.loaded.lock
                                  THEN j.now.lock ELSE users[j.user].lock
  BY FinishUsers DEF ShapeInv, TypeOK
<1>2. job'[c] = None
  BY DEF Finish, ShapeInv, JobsOK
<1>3. j.call \notin Newcomers \cup {"login", "reset", "delete"} => j.now.lock = j.loaded.lock
  BY <1>1 DEF JobShape
<1>4. j.call = "login" => /\ j.loaded \in UserRow /\ j.loaded.lock # "locked"
                          /\ j.now = IF j.issue = "none" THEN RegisterFailedAttempt(j.loaded)
                                     ELSE ClearLockout(j.loaded)
  BY <1>1 DEF JobShape, Job, Newcomers
<1>5. j.call = "login" /\ j.now.lock # "locked" /\ j.now.lock # j.loaded.lock =>
         j.loaded.lock = "lapsed"
  <2>1. j.call = "login" => j.loaded.lock \in {"open", "lapsed"}
    BY <1>4 DEF UserRow
  <2> QED
    BY <1>4, <2>1, FailedAttemptRow, ClearLockoutRow
<1> SUFFICES ASSUME NEW u \in User, Exists(u), users'[u] # None,
                    IsLocked(users[u]), ~IsLocked(users'[u])
             PROVE  /\ j.user = u
                    /\ j.call = "reset" \/ (j.call = "login" /\ j.loaded.lock = "lapsed")
  BY <1>1, <1>2 DEF KeepsLock
<1>6. j.user = u
  BY <1>1
<1>7. /\ j.call \notin Newcomers \cup {"delete"}
      /\ j.now.lock # j.loaded.lock /\ users'[u].lock = j.now.lock
      /\ j.now.lock # "locked"
  BY <1>1, <1>6 DEF IsLocked
<1> QED
  BY <1>3, <1>5, <1>6, <1>7

\* No request that loaded an account before it was locked, and no administrator's
\* update, lifts the lock.
THEOREM LocksHold == Spec => LockHolds
<1>1. ASSUME IInv, [Next]_vars PROVE [KeepsLock]_vars
  <2>1. ShapeInv
    BY <1>1 DEF IInv
  <2>2. CASE Elapse
    BY <2>1, <2>2 DEF Elapse, KeepsLock, IsLocked, ShapeInv, TypeOK
  <2>3. CASE \E c \in Client : Finish(c)
    BY <2>1, <2>3, FinishKeepsLock
  <2>4. CASE users' = users
    BY <2>4 DEF KeepsLock
  <2>5. CASE Leave \/ \E c \in Client : \E k : Begin(c, k) \/ Advance(c, k)
    BY <2>4, <2>5 DEF Leave, Begin, Advance, tables
  <2> QED
    BY <1>1, <2>1, <2>2, <2>3, <2>5, StepCases
<1> QED
  BY <1>1, IInvAlways, PTL DEF Spec, LockHolds
=============================================================================
