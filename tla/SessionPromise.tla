---------------------------- MODULE SessionPromise ----------------------------
(***************************************************************************)
(* What stands behind access, without requests, tabs or failures: tokens   *)
(* come into being in two ways only.  Giving a password makes a session of *)
(* that account, and a refresh token that has not run out makes access for *)
(* its own account.  Any token may get lost at any time.  Accounts         *)
(* implements it.                                                          *)
(***************************************************************************)
EXTENDS Naturals

CONSTANTS User, None, AccessLifetime, RefreshLifetime

VARIABLES
    clock,
    given,      \* when the password of an account was last given
    tokens      \* the tokens there are, wherever they are

vars == <<clock, given, tokens>>

AccessFor(u) == [type |-> "access", user |-> u, until |-> clock + AccessLifetime]
RefreshFor(u) == [type |-> "refresh", user |-> u, until |-> clock + RefreshLifetime]

GivePassword(u) ==
    /\ given' = [given EXCEPT ![u] = clock]
    /\ tokens' \subseteq tokens \cup {AccessFor(u), RefreshFor(u)}
    /\ UNCHANGED clock

Refresh(u) ==
    /\ \E token \in tokens : token.type = "refresh" /\ token.user = u /\ clock < token.until
    /\ tokens' \subseteq tokens \cup {AccessFor(u)}
    /\ UNCHANGED <<clock, given>>

Lose ==
    /\ tokens' \subseteq tokens
    /\ UNCHANGED <<clock, given>>

Tick ==
    /\ clock' = clock + 1
    /\ UNCHANGED <<given, tokens>>

Init ==
    /\ clock = 0
    /\ given = [u \in User |-> None]
    /\ tokens = {}

Next == Lose \/ Tick \/ \E u \in User : GivePassword(u) \/ Refresh(u)

Spec == Init /\ [][Next]_vars
=============================================================================
