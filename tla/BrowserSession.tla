--------------------------- MODULE BrowserSession ---------------------------
(***************************************************************************)
(* What the session store promises one browser: a visit counter and a       *)
(* login, each request one atomic step.  Requests visit, a login also sets   *)
(* the user, a logout starts over.                                           *)
(***************************************************************************)
EXTENDS Naturals

CONSTANTS Clients, Users, NoUser

VARIABLES user, visits

Init == /\ user = [c \in Clients |-> NoUser]
        /\ visits = [c \in Clients |-> 0]

Visit(c) == /\ visits' = [visits EXCEPT ![c] = @ + 1]
            /\ UNCHANGED user

Login(c, u) == /\ user' = [user EXCEPT ![c] = u]
               /\ visits' = [visits EXCEPT ![c] = @ + 1]

Logout(c) == /\ user' = [user EXCEPT ![c] = NoUser]
             /\ visits' = [visits EXCEPT ![c] = 0]

Next == \E c \in Clients :
          \/ Visit(c)
          \/ \E u \in Users : Login(c, u)
          \/ Logout(c)

Spec == Init /\ [][Next]_<<user, visits>>
=============================================================================
