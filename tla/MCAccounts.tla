----------------------------- MODULE MCAccounts -----------------------------
(***************************************************************************)
(* Sessions and Membership write different columns and different rows, so  *)
(* each is checked by itself: a behaviour is one of the one or of the      *)
(* other.  Interleaving the two would add states, and no new step.         *)
(* Sessions is checked twice: with few pairs of tokens and no forgotten    *)
(* password, which is changed as well without; and with one pair more, but *)
(* neither wrong passwords nor a second factor.                            *)
(***************************************************************************)
EXTENDS Sessions, Membership, TLC

CONSTANTS c1, c2, p1, p2, u1, u2, u3

CONSTANT FewSessions  \* bound on the pairs of tokens beside wrong passwords and a second factor

VARIABLE part

Init ==
    /\ part \in {"sessions", "exchanges", "membership"}
    /\ SessionsInit
    /\ MembershipInit

Next ==
    /\ UNCHANGED part
    /\ \/ /\ part = "sessions" /\ SessionsNext /\ UNCHANGED memberVars
          /\ issued' <= FewSessions /\ lastReset' = 0
       \/ /\ part = "exchanges" /\ SessionsNext /\ UNCHANGED memberVars
          /\ account'.failed = 0 /\ mfa' = "none"
       \/ part = "membership" /\ MembershipNext /\ UNCHANGED sessVars

vars == <<part, sessVars, memberVars>>

Spec == Init /\ [][Next]_vars

TwoCalls     == {c1, c2}
TwoPasswords == {p1, p2}
ThreePersons == {u1, u2, u3}

\* Requests, passwords and users that do not exist yet are alike.
Symmetries ==
    {f @@ g @@ h : f \in Permutations(TwoCalls), g \in Permutations(TwoPasswords), h \in Permutations({u2, u3})}

\* Both parts are well typed.
TypeOK == SessionsTypeOK /\ MembershipTypeOK
=============================================================================
