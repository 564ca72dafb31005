------------------------------- MODULE Login -------------------------------
(***************************************************************************)
(* What a seat promises to its users, without session objects, processes   *)
(* and timers: who is logged in, who has been switched to, and which       *)
(* logins are owed because they came too fast.  As long as no login fails  *)
(* and no session ends in error, TlmSeat (module Seat) implements it.      *)
(***************************************************************************)
EXTENDS Naturals

CONSTANTS
    Users,
    Nobody,     \* no user; as the name in a login: the default user
    DefaultUser

VARIABLES
    user,       \* the user logged in on the seat
    next,       \* the user switched to while that session ends
    owed        \* logins put off, by the name they were asked with

loginVars == <<user, next, owed>>

Names == Users \cup {Nobody}

LoginInit ==
    /\ user \in {Nobody, DefaultUser}
    /\ next = Nobody
    /\ owed = [n \in Names |-> 0]

\* Who comes when n is asked for.  A name does not keep the default user away
\* whose session ended by itself.
Guests(n) == IF n = Nobody THEN {DefaultUser} ELSE {n, DefaultUser}

\* A login on a free seat.
Arrive(n) == /\ user = Nobody
             /\ user' \in Guests(n)
             /\ UNCHANGED <<next, owed>>

\* A login on a free seat is put off, once.
PutOff(n) == /\ user = Nobody
             /\ owed' = [owed EXCEPT ![n] = @ + 1]
             /\ UNCHANGED <<user, next>>

\* A login that was owed takes place if the seat is still free.
Repay(n) == /\ owed[n] > 0
            /\ owed' = [owed EXCEPT ![n] = @ - 1]
            /\ IF user = Nobody THEN user' \in Guests(n) ELSE user' = user
            /\ UNCHANGED next

\* A switch to u; a later one replaces it.
Ask(u) == /\ user # Nobody
          /\ next' = u
          /\ UNCHANGED <<user, owed>>

\* The session ends, nobody waits for the seat: it becomes free, or the
\* default user is logged in, or that is owed.
Leave == /\ user # Nobody /\ next = Nobody
         /\ \/ user' \in {Nobody, DefaultUser} /\ owed' = owed
            \/ user' = Nobody /\ owed' = [owed EXCEPT ![Nobody] = @ + 1]
         /\ UNCHANGED next

\* The session ends and the user switched to comes, or is owed a login.
Change == /\ user # Nobody /\ next # Nobody
          /\ \/ user' = next /\ owed' = owed
             \/ user' = Nobody /\ owed' = [owed EXCEPT ![next] = @ + 1]
          /\ next' = Nobody

LoginNext ==
    \/ \E n \in Names : Arrive(n) \/ PutOff(n) \/ Repay(n)
    \/ \E u \in Users : Ask(u)
    \/ Leave
    \/ Change

LoginSpec == LoginInit /\ [][LoginNext]_loginVars
=============================================================================
