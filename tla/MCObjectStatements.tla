------------------------- MODULE MCObjectStatements -------------------------
(***************************************************************************)
(* Small instances of ObjectStatements: a buffer has place for one byte.   *)
(***************************************************************************)
EXTENDS ObjectStatements

\* "a" and "b" fit at once, the others make a buffer grow once and twice.
MCValues == {"null", "date", "a", "b", "long", "longer"}

MCLength ==
    [v \in MCValues |->
        CASE v = "longer" -> 3 [] v = "long" -> 2 [] v \in {"a", "b"} -> 1 [] OTHER -> 0]

\* Users whose name and email differ in length.
MCUsers ==
    {[login |-> "a", name |-> n, email |-> e, passwordHash |-> "b"] :
        n \in {"a", "long"}, e \in {"b", "longer"}}

\* Tokens whose mail failed or not, with messages of every length.
MCTokens ==
    {[m \in TokenMembers |->
        CASE m = "failureMessage" -> f
          [] m \in {"cancelledAt", "emailFailedAt"} -> IF f = "null" THEN "null" ELSE "date"
          [] m \in {"verifiedAt", "replacedAt", "usedAt"} -> "null"
          [] m = "tokenHash" -> h
          [] m = "verificationCodeHash" -> "b"
          [] OTHER -> "date"] : f \in {"null", "long", "longer"}, h \in {"a", "b"}}

\* Hashes.
MCStrings == {[value |-> v] : v \in {"a", "long", "longer"}}

MCObjects ==
    [c \in Classes |-> CASE c = "DbUser" -> MCUsers
                        [] c = "DbPasswordResetToken" -> MCTokens
                        [] c = "DbStringValue" -> MCStrings]
=============================================================================
