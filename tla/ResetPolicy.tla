----------------------------- MODULE ResetPolicy -----------------------------
(***************************************************************************)
(* What password recovery promises an account, with nothing of tokens,     *)
(* mails or transactions: an account has at most one reset under way, a    *)
(* reset must be confirmed before it may change the password, it changes   *)
(* the password once, and asking again starts over from an unconfirmed     *)
(* one.  PasswordReset and PasswordResetTx implement it.                   *)
(***************************************************************************)
CONSTANTS Accounts, Passwords, FirstPassword

VARIABLES stage,      \* stage[a]: how far the reset of a has come
          password    \* password[a]: the password a was given last

vars == <<stage, password>>

Init ==
    /\ stage = [a \in Accounts |-> "none"]
    /\ password = [a \in Accounts |-> FirstPassword]

\* A reset is asked for; one that was under way is forgotten.
Ask(a) ==
    /\ stage' = [stage EXCEPT ![a] = "asked"]
    /\ UNCHANGED password

\* The owner of the account confirms the reset.
Confirm(a) ==
    /\ stage[a] = "asked"
    /\ stage' = [stage EXCEPT ![a] = "confirmed"]
    /\ UNCHANGED password

\* A confirmed reset changes the password and is over.
Change(a) ==
    /\ stage[a] = "confirmed"
    /\ stage' = [stage EXCEPT ![a] = "none"]
    /\ \E p \in Passwords : password' = [password EXCEPT ![a] = p]

\* A reset is given up.
Abandon(a) ==
    /\ stage[a] # "none"
    /\ stage' = [stage EXCEPT ![a] = "none"]
    /\ UNCHANGED password

Next == \E a \in Accounts : Ask(a) \/ Confirm(a) \/ Change(a) \/ Abandon(a)

Spec == Init /\ [][Next]_vars

=============================================================================
