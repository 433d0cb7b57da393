------------------------------ MODULE Accounts ------------------------------
(***************************************************************************)
(* Accounts, their refresh tokens and password-reset links, and the        *)
(* browser tabs that hold the tokens.                                      *)
(*                                                                         *)
(* A request loads what it needs, decides on what it loaded, and writes:   *)
(* between the two other requests commit.  The writes are of three sorts.  *)
(* A bulk UPDATE (revoke_all_for_user, invalidate_for_user) acts on the    *)
(* rows committed when it started, once nobody else holds them (Scan,      *)
(* Take).  A refresh flushes the revocation of its own token before it     *)
(* issues the next one (Take).  Everything else reaches the database in    *)
(* the flush at the end, in the same step as the commit (Finish): nothing  *)
(* of it can be seen before.                                               *)
(*                                                                         *)
(* A ticket is a refresh token or a reset link: both are rows that are     *)
(* good until they are spent (revoked_at, used_at) or lapse.               *)
(***************************************************************************)
EXTENDS Naturals, FiniteSets

CONSTANTS
    Client,        \* browser tabs; each has at most one call under way here
    Email,
    MaxUsers,      \* bound: accounts ever created
    MaxTickets,    \* bound: tickets ever issued
    MaxEpoch,      \* bound: password changes and deactivations of an account
    MaxFailures,   \* MAX_FAILED_LOGIN_ATTEMPTS
    Scenario,      \* what one behaviour is about: the calls of each tab, a bound on
                   \* the tickets issued, and whether tickets and locks run out
    First,         \* the accounts there are at the start: user -> row
    None

User == 1..MaxUsers
Ticket == 1..MaxTickets
Call == {"register", "login", "mistype", "refresh", "logout", "forgot", "reset",
         "change", "create", "update", "profile", "delete"}   \* mistype: a login that fails

UserRow == [email : Email, admin : BOOLEAN, active : BOOLEAN,
            attempts : 0..(MaxFailures - 1), lock : {"open", "locked", "lapsed"}]
TicketRow == [user : User, sort : {"session", "link"}, spent : BOOLEAN,
              lapsed : BOOLEAN]

Sort == {"none", "session", "link"}
Job == [call : Call, user : User, loaded : UserRow \cup {None},
        now : UserRow \cup {None}, bulk : Sort, seen : SUBSET Ticket,
        taken : SUBSET Ticket, ticket : Ticket \cup {None}, issue : Sort,
        phase : {"scan", "take", "commit"}, since : 0..MaxEpoch]
Origin == [user : User, epoch : 0..MaxEpoch, parent : Ticket \cup {None}]

ASSUME AccountConstants ==
    /\ IsFiniteSet(Client)
    /\ {MaxUsers, MaxTickets, MaxFailures} \subseteq Nat \ {0}
    /\ MaxEpoch \in Nat
    /\ \A s \in Scenario : /\ s.calls \in [Client -> SUBSET Call]
                            /\ s.tickets \in 0..MaxTickets
                            /\ s.lapses \in BOOLEAN
    /\ DOMAIN First \subseteq User /\ \A u \in DOMAIN First : First[u] \in UserRow
    /\ None \notin UserRow \cup TicketRow \cup User \cup Ticket \cup Job \cup Origin

VARIABLES
    may,        \* the scenario of this behaviour
    users,      \* table users
    tickets,    \* tables refresh_tokens and password_reset_tokens
    held,       \* the refresh token a tab has in memory
    job,        \* the request a tab has under way
    origin,     \* history: of every ticket ever issued, whose it is, the epoch of
                \* the account its chain of rotations started from, its predecessor
    epoch,      \* history: password changes and deactivations of an account so far
    survivors,  \* history: sessions that were being issued while the epoch changed
    spends,     \* history: how often a ticket was exchanged
    failures,   \* history: failed logins since the last success, reset or lock
    overlaps    \* history: what two requests were working on at once

tables == <<users, tickets>>
histories == <<origin, epoch, survivors, spends, failures, overlaps>>
vars == <<may, tables, held, job, histories>>

TypeOK ==
    /\ may \in Scenario
    /\ users \in [User -> UserRow \cup {None}]
    /\ tickets \in [Ticket -> TicketRow \cup {None}]
    /\ held \in [Client -> Ticket \cup {None}]
    /\ job \in [Client -> Job \cup {None}]
    /\ origin \in [Ticket -> Origin \cup {None}]
    /\ epoch \in [User -> 0..MaxEpoch]
    /\ survivors \subseteq Ticket
    /\ spends \in [Ticket -> 0..Cardinality(Client)]
    /\ failures \in [User -> 0..(MaxFailures - 1)]
    /\ overlaps \subseteq {"attempts", "links", "ticket"} \X (User \cup Ticket)

Init ==
    /\ may \in Scenario
    /\ users = [u \in User |-> IF u \in DOMAIN First THEN First[u] ELSE None]
    /\ tickets = [t \in Ticket |-> None]
    /\ held = [c \in Client |-> None]
    /\ job = [c \in Client |-> None]
    /\ origin = [t \in Ticket |-> None]
    /\ epoch = [u \in User |-> 0]
    /\ survivors = {}
    /\ spends = [t \in Ticket |-> 0]
    /\ failures = [u \in User |-> IF u \in DOMAIN First THEN First[u].attempts ELSE 0]
    /\ overlaps = {}

-----------------------------------------------------------------------------
(* What requests read.                                                      *)

Exists(u) == users[u] # None
EmailExists(e) == \E u \in User : Exists(u) /\ users[u].email = e
IsLocked(row) == row.lock = "locked"

\* Mutant: the revocation is not looked at.
GoodEvenSpent(t, sort) ==
    tickets[t] # None /\ tickets[t].sort = sort /\ ~tickets[t].lapsed

\* get_active_by_jti, get_active_by_hash
Good(t, sort) ==
    /\ tickets[t] # None /\ tickets[t].sort = sort
    /\ ~tickets[t].spent /\ ~tickets[t].lapsed

\* Mutant: one row instead of all.
UnspentOne(u, sort) ==
    LET all == {t \in Ticket : tickets[t] # None /\ tickets[t].user = u
                                  /\ tickets[t].sort = sort /\ ~tickets[t].spent}
    IN IF all = {} THEN {} ELSE {CHOOSE t \in all : TRUE}

\* revoke_all_for_user, invalidate_for_user: the rows their WHERE clause finds
Unspent(u, sort) ==
    {t \in Ticket : tickets[t] # None /\ tickets[t].user = u
                        /\ tickets[t].sort = sort /\ ~tickets[t].spent}

\* The bearer token of a tab names the account of the refresh token beside it.
CurrentUser(c) ==
    {u \in User : held[c] # None /\ origin[held[c]].user = u
                      /\ Exists(u) /\ users[u].active}
AdminUser(c) == {u \in CurrentUser(c) : users[u].admin}

\* Mutant: off by one at the threshold.
RegisterFailedAttemptLate(row) ==
    IF row.attempts + 1 > MaxFailures
    THEN [row EXCEPT !.attempts = 0, !.lock = "locked"]
    ELSE [row EXCEPT !.attempts = @ + 1]
\* Mutant: the counter is not reset.
ClearLockoutOnly(row) == [row EXCEPT !.lock = "open"]

RegisterFailedAttempt(row) ==
    IF row.attempts + 1 >= MaxFailures
    THEN [row EXCEPT !.attempts = 0, !.lock = "locked"]
    ELSE [row EXCEPT !.attempts = @ + 1]
ClearLockout(row) == [row EXCEPT !.attempts = 0, !.lock = "open"]
NewAccount(e) ==
    [email |-> e, admin |-> FALSE, active |-> TRUE, attempts |-> 0, lock |-> "open"]

-----------------------------------------------------------------------------
(* The beginning of a request: it loads and decides.                        *)

Request(call, u) ==
    [call |-> call, user |-> u, loaded |-> users[u], now |-> users[u],
     bulk |-> "none", seen |-> {}, taken |-> {}, ticket |-> None,
     issue |-> "none", phase |-> "commit", since |-> epoch[u]]

\* What a request works on that another one could be working on.
Works(j) ==
    (IF j.call \in {"login", "reset"} THEN {<<"attempts", j.user>>} ELSE {})
    \cup (IF j.bulk = "link" THEN {<<"links", j.user>>} ELSE {})
    \cup (IF j.call \in {"refresh", "reset"} THEN {<<"ticket", j.ticket>>} ELSE {})

Running(c) == job[c] # None
Others(c) == {job[d] : d \in {d \in Client \ {c} : Running(d)}}
Issued == {t \in Ticket : origin[t] # None}
Issuing == {c \in Client : Running(c) /\ job[c].issue # "none"}
CanIssue == Cardinality(Issued) + Cardinality(Issuing) < may.tickets

Ends(j) == j.bulk = "session" /\ j.call \in {"reset", "change", "update"}
CanEnd(u) ==
    epoch[u] + Cardinality({c \in Client : Running(c) /\ Ends(job[c])
                                              /\ job[c].user = u}) < MaxEpoch

Ready(c, call) == call \in may.calls[c] /\ ~Running(c)

Begin(c, j) ==
    /\ job' = [job EXCEPT ![c] = j]
    /\ overlaps' = overlaps \cup (Works(j) \cap UNION {Works(k) : k \in Others(c)})
    /\ UNCHANGED <<may, tables, held, origin, epoch, survivors, spends, failures>>

NewUsers == {u \in User : ~Exists(u) /\ u \notin {job[c].user : c \in {d \in Client : Running(d)}}
                             /\ \A t \in Issued : origin[t].user # u}

\* An account of one's own: always a viewer.
Register(c, e) ==
    /\ Ready(c, "register")
    /\ ~EmailExists(e)
    /\ \E u \in NewUsers :
           Begin(c, [Request("register", u) EXCEPT !.now = NewAccount(e)])

\* An account made by an administrator.
Create(c, e, admin, active) ==
    /\ Ready(c, "create")
    /\ AdminUser(c) # {}
    /\ ~EmailExists(e)
    /\ \E u \in NewUsers :
           Begin(c, [Request("create", u) EXCEPT
                    !.now = [NewAccount(e) EXCEPT !.admin = admin, !.active = active]])

\* Locked accounts and, after the password, inactive ones are turned away with
\* nothing but an audit entry.
Login(c, u, good) ==
    /\ Ready(c, IF good THEN "login" ELSE "mistype")
    /\ Exists(u) /\ ~IsLocked(users[u])
    /\ good => users[u].active /\ CanIssue
    /\ Begin(c, [Request("login", u) EXCEPT
                !.now = IF good THEN ClearLockout(@) ELSE RegisterFailedAttempt(@),
                !.issue = IF good THEN "session" ELSE "none"])

\* The account of an inactive user gets no successor, and loses the token.
Refresh(c) ==
    /\ Ready(c, "refresh")
    /\ held[c] # None /\ Good(held[c], "session") /\ CanIssue
    /\ LET u == tickets[held[c]].user
       IN Begin(c, [Request("refresh", u) EXCEPT
                   !.ticket = held[c], !.seen = {held[c]}, !.phase = "take",
                   !.issue = IF users[u].active THEN "session" ELSE "none"])

\* A refresh that is rejected ends the session of the tab.
RefreshRejected(c) ==
    /\ Ready(c, "refresh")
    /\ held[c] # None /\ ~Good(held[c], "session")
    /\ held' = [held EXCEPT ![c] = None]
    /\ UNCHANGED <<may, tables, job, histories>>

\* The tab of the frontend sends no refresh token; another client of the API may.
Logout(c, everywhere, sent) ==
    /\ Ready(c, "logout")
    /\ \E u \in CurrentUser(c) :
          LET mine == IF sent /\ Good(held[c], "session") THEN {held[c]} ELSE {}
          IN Begin(c, [Request("logout", u) EXCEPT
                      !.bulk = IF everywhere THEN "session" ELSE "none",
                      !.seen = IF everywhere THEN {} ELSE mine,
                      !.phase = IF everywhere THEN "scan" ELSE "take"])

\* Mutant: older links stay good.
RequestAnotherReset(c, u) ==
    /\ Ready(c, "forgot")
    /\ Exists(u) /\ users[u].active /\ CanIssue
    /\ Begin(c, [Request("forgot", u) EXCEPT !.issue = "link"])

RequestPasswordReset(c, u) ==
    /\ Ready(c, "forgot")
    /\ Exists(u) /\ users[u].active /\ CanIssue
    /\ Begin(c, [Request("forgot", u) EXCEPT
                !.bulk = "link", !.phase = "scan", !.issue = "link"])

ResetPassword(c, t) ==
    /\ Ready(c, "reset")
    /\ Good(t, "link")
    /\ LET u == tickets[t].user
       IN /\ users[u].active /\ CanEnd(u)
          /\ Begin(c, [Request("reset", u) EXCEPT
                      !.now = ClearLockout(@), !.ticket = t,
                      !.bulk = "session", !.phase = "scan"])

ChangePassword(c) ==
    /\ Ready(c, "change")
    /\ \E u \in CurrentUser(c) :
          /\ CanEnd(u)
          /\ Begin(c, [Request("change", u) EXCEPT
                      !.bulk = "session", !.phase = "scan"])

\* Deactivating an account that is active ends its sessions; nobody takes the
\* administrator's role from themselves.
Update(c, u, e, admin, active) ==
    /\ Ready(c, "update")
    /\ Exists(u)
    /\ e # users[u].email => ~EmailExists(e)
    /\ \E a \in AdminUser(c) : ~(u = a /\ ~admin)
    /\ LET ends == users[u].active /\ ~active
       IN /\ ends => CanEnd(u)
          /\ Begin(c, [Request("update", u) EXCEPT
                      !.now = [@ EXCEPT !.email = e, !.admin = admin, !.active = active],
                      !.bulk = IF ends THEN "session" ELSE "none",
                      !.phase = IF ends THEN "scan" ELSE "commit"])

UpdateOwnProfile(c, e) ==
    /\ Ready(c, "profile")
    /\ \E u \in CurrentUser(c) :
          /\ e # users[u].email => ~EmailExists(e)
          /\ Begin(c, [Request("profile", u) EXCEPT !.now.email = e])

Delete(c, u) ==
    /\ Ready(c, "delete")
    /\ Exists(u)
    /\ \E a \in AdminUser(c) : a # u
    /\ Begin(c, [Request("delete", u) EXCEPT !.now = None])

-----------------------------------------------------------------------------
(* The rest of a request: it writes and commits.                            *)

TakenByOthers(c) == UNION {j.taken : j \in Others(c)}

\* A bulk UPDATE starts: it will act on the rows that are committed now.
Scan(c) ==
    /\ Running(c) /\ job[c].phase = "scan"
    /\ job' = [job EXCEPT ![c].phase = "take",
                          ![c].seen = Unspent(job[c].user, job[c].bulk)]
    /\ UNCHANGED <<may, tables, held, histories>>

\* It has waited for whoever held one of them and takes those that still match.  The
\* flush of one token's revocation writes the row whatever became of it, but fails
\* when the row is gone.
Take(c) ==
    LET j == job[c] IN
    /\ Running(c) /\ j.phase = "take"
    /\ j.seen \cap TakenByOthers(c) = {}
    /\ j.bulk = "none" => \A t \in j.seen : tickets[t] # None
    /\ job' = [job EXCEPT ![c].phase = "commit",
                          ![c].taken = IF j.bulk = "none" THEN j.seen
                                       ELSE j.seen \cap Unspent(j.user, j.bulk)]
    /\ UNCHANGED <<may, tables, held, histories>>

\* Mutant: every column is written.
SavedWhole(j) == j.now

\* A column is written when the object's value is not the loaded one.
Saved(j) ==
    IF j.loaded = None \/ j.now = None THEN j.now
    ELSE [f \in DOMAIN j.now |->
             IF j.now[f] # j.loaded[f] THEN j.now[f] ELSE users[j.user][f]]

\* The unique key on the email decides between two requests that both found it free.
UniqueEmail(u, row) ==
    row # None => \A v \in User \ {u} : Exists(v) => users[v].email # row.email

\* The ticket a request presents is spent with it: a refresh token has been taken,
\* a link is marked in the last flush.
SpentBy(j) == j.taken \cup (IF j.call = "reset" THEN {j.ticket} ELSE {})

NewTicket(j) ==
    [user |-> j.user, sort |-> j.issue, spent |-> FALSE, lapsed |-> FALSE]

Tickets(j, new) ==
    [t \in Ticket |->
        IF t = new THEN NewTicket(j)
        ELSE IF tickets[t] # None /\ tickets[t].user = j.user /\ j.call = "delete"
        THEN None
        ELSE IF t \in SpentBy(j) THEN [tickets[t] EXCEPT !.spent = TRUE]
        ELSE tickets[t]]

NextTicket(j) ==
    IF j.issue = "none" THEN None ELSE Cardinality(Issued) + 1

\* What the tab holds after the answer, and after an answer that does not come.
Answered(c, j, new) ==
    IF j.call = "logout" THEN None
    ELSE IF j.call \in {"login", "refresh"} /\ new # None THEN new
    ELSE IF j.call = "refresh" THEN None
    ELSE held[c]
Unanswered(c, j) == IF j.call \in {"logout", "refresh"} THEN None ELSE held[c]

\* A session is issued while a request that ends sessions is past its scan, or after
\* one that began later has committed.
IssuedInRace(c, j) ==
    \/ epoch[j.user] # j.since
    \/ \E k \in Others(c) : Ends(k) /\ k.user = j.user /\ k.phase # "scan"
    \/ j.ticket \in survivors

RememberTicket(c, j, new) ==
    /\ origin' = [t \in Ticket |->
           IF t # new THEN origin[t]
           ELSE [user |-> j.user, parent |-> j.ticket,
                 epoch |-> IF j.ticket = None THEN j.since ELSE origin[j.ticket].epoch]]
    /\ survivors' = IF new # None /\ j.issue = "session" /\ IssuedInRace(c, j)
                    THEN survivors \cup {new} ELSE survivors
    /\ spends' = [t \in Ticket |->
           IF j.call \in {"refresh", "reset"} /\ t = j.ticket THEN spends[t] + 1
           ELSE spends[t]]

RememberAccount(j) ==
    /\ epoch' = IF Ends(j) THEN [epoch EXCEPT ![j.user] = @ + 1] ELSE epoch
    /\ failures' =
           IF j.call = "login" /\ j.issue = "none"
           THEN [failures EXCEPT ![j.user] = (@ + 1) % MaxFailures]
           ELSE IF j.call \in {"login", "reset", "delete"}
           THEN [failures EXCEPT ![j.user] = 0]
           ELSE failures
    /\ UNCHANGED overlaps

Finish(c) ==
    LET j == job[c]
        new == NextTicket(j)
    IN /\ Running(c) /\ j.phase = "commit"
       /\ j.loaded # None => Exists(j.user)
       /\ SpentBy(j) \cap TakenByOthers(c) = {}
       /\ j.call = "delete" =>
              \A t \in TakenByOthers(c) : tickets[t] = None \/ tickets[t].user # j.user
       /\ UniqueEmail(j.user, Saved(j))
       /\ users' = [users EXCEPT ![j.user] = Saved(j)]
       /\ tickets' = Tickets(j, new)
       /\ \E after \in {Answered(c, j, new), Unanswered(c, j)} :
              held' = [held EXCEPT ![c] = after]
       /\ job' = [job EXCEPT ![c] = None]
       /\ RememberTicket(c, j, new)
       /\ RememberAccount(j)
       /\ UNCHANGED may

\* A statement fails (a unique email, a row that is gone) or the process dies: the
\* transaction is rolled back and the tab gets an error.
Abort(c) ==
    /\ Running(c)
    /\ held' = [held EXCEPT ![c] = Unanswered(c, job[c])]
    /\ job' = [job EXCEPT ![c] = None]
    /\ UNCHANGED <<may, tables, histories>>

-----------------------------------------------------------------------------
(* What happens beside the requests.                                        *)

\* Nothing reads the expiry of a ticket that is spent.
Lapse(t) ==
    /\ may.lapses
    /\ tickets[t] # None /\ ~tickets[t].lapsed /\ ~tickets[t].spent
    /\ tickets' = [tickets EXCEPT ![t].lapsed = TRUE]
    /\ UNCHANGED <<may, users, held, job, histories>>

LapseLock(u) ==
    /\ may.lapses
    /\ Exists(u) /\ IsLocked(users[u])
    /\ users' = [users EXCEPT ![u].lock = "lapsed"]
    /\ UNCHANGED <<may, tickets, held, job, histories>>

Expired == {t \in Ticket : tickets[t] # None /\ tickets[t].sort = "session" /\ tickets[t].lapsed}

\* The worker's purge of expired refresh tokens waits for rows that are held.
PurgeExpiredTokens ==
    /\ Expired # {}
    /\ \A c \in Client : Running(c) => job[c].taken \cap Expired = {}
    /\ tickets' = [t \in Ticket |-> IF t \in Expired THEN None ELSE tickets[t]]
    /\ UNCHANGED <<may, users, held, job, histories>>

\* A second tab reads the tokens the first one stored.
OpenTab(c, d) ==
    /\ c # d /\ ~Running(d) /\ "refresh" \in may.calls[d]
    /\ held[c] # None /\ held[d] = None
    /\ held' = [held EXCEPT ![d] = held[c]]
    /\ UNCHANGED <<may, tables, job, histories>>

\* The requests of a tab, by router.
AuthRouter(c) ==
    \/ \E e \in Email : Register(c, e)
    \/ \E u \in User : \/ \E good \in BOOLEAN : Login(c, u, good)
                       \/ RequestPasswordReset(c, u)
    \/ Refresh(c) \/ RefreshRejected(c)
    \/ \E everywhere, sent \in BOOLEAN : Logout(c, everywhere, sent)
    \/ \E t \in Ticket : ResetPassword(c, t)
    \/ ChangePassword(c)

UserRouter(c) ==
    \/ \E e \in Email :
           \/ \E admin, active \in BOOLEAN :
                  \/ Create(c, e, admin, active)
                  \/ \E u \in User : Update(c, u, e, admin, active)
           \/ UpdateOwnProfile(c, e)
    \/ \E u \in User : Delete(c, u)

Step(c) == Scan(c) \/ Take(c) \/ Finish(c) \/ Abort(c)

Next ==
    \/ \E c \in Client :
           \/ AuthRouter(c) \/ UserRouter(c) \/ Step(c)
           \/ \E d \in Client : OpenTab(c, d)
    \/ \E t \in Ticket : Lapse(t)
    \/ \E u \in User : LapseLock(u)
    \/ PurgeExpiredTokens

Spec == Init /\ [][Next]_vars /\ \A c \in Client : WF_vars(Step(c))

-----------------------------------------------------------------------------

\* A refresh token or a reset link is exchanged once, whatever else happens to it
\* (logout, purge, expiry, a bulk revocation, a lost answer and a second tab with the
\* same token), unless two requests presented it at the same time.
SpentOnce ==
    \A t \in Ticket : <<"ticket", t>> \notin overlaps => spends[t] <= 1

\* No session that can still be refreshed goes back, through any number of rotations,
\* to before the last password change or deactivation of its account, unless it, or
\* the session it was rotated from, was being issued while that was going on.
OldSessionsOnlyByRace ==
    \A t \in Ticket :
        t \in Issued /\ Good(t, "session") /\ t \notin survivors
            => origin[t].epoch = epoch[origin[t].user]

\* The counter of failed logins is the number of failures since the last success,
\* reset or lock, through aborts, expiring locks and changes of the account, unless
\* two logins or resets of the account overlapped.
LockoutExact ==
    \A u \in User : Exists(u) /\ <<"attempts", u>> \notin overlaps
                        => users[u].attempts = failures[u]

\* Only the newest reset link of an account works, unless two were requested at once.
OneLiveLink ==
    \A u \in User : <<"links", u>> \notin overlaps
                        => Cardinality(Unspent(u, "link")) <= 1

\* Nothing but the end of its time, a reset of the password, or a login that found
\* an earlier lock already over lifts the lock of an account: not a login that loaded
\* the account before it was locked, and not an administrator's update.
KeepsLock ==
    \A u \in User :
        /\ Exists(u) /\ users'[u] # None
        /\ IsLocked(users[u]) /\ ~IsLocked(users'[u])
        => \/ users'[u].lock = "lapsed"
           \/ \E c \in Client : /\ Running(c) /\ job'[c] = None /\ job[c].user = u
                                /\ \/ job[c].call = "reset"
                                   \/ job[c].call = "login" /\ job[c].loaded.lock = "lapsed"

\* No other step lifts a lock.
LockHolds == [][KeepsLock]_vars

=============================================================================
