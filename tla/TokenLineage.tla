---------------------------- MODULE TokenLineage ----------------------------
(***************************************************************************)
(* What a family of refresh tokens promises, without handlers, statements, *)
(* columns or organizations: a lineage holds at most one token; rotating   *)
(* it takes the token out and later puts a token that was never used       *)
(* before in its place; a lineage that has lost its token outside of a     *)
(* rotation never gets one again.                                          *)
(***************************************************************************)
CONSTANTS Tokens, NoToken

VARIABLES
  live,      \* the token each lineage holds; a lineage is named by its first
  rotating,  \* lineages whose token has been taken and not yet replaced
  used       \* tokens that were ever put in a lineage

vars == <<live, rotating, used>>

Init ==
  /\ live = [f \in Tokens |-> NoToken]
  /\ rotating = {}
  /\ used = {}

\* A sign-in starts the lineage named by its first token.
Start(f) ==
  /\ f \notin used
  /\ live' = [live EXCEPT ![f] = f]
  /\ used' = used \cup {f}
  /\ UNCHANGED rotating

\* A rotation begins.
Take(f) ==
  /\ live[f] # NoToken
  /\ live' = [live EXCEPT ![f] = NoToken]
  /\ rotating' = rotating \cup {f}
  /\ UNCHANGED used

\* It ends with a successor,
Replace(f, u) ==
  /\ f \in rotating
  /\ u \notin used
  /\ live' = [live EXCEPT ![f] = u]
  /\ rotating' = rotating \ {f}
  /\ used' = used \cup {u}

\* or without one.
Abandon(f) ==
  /\ f \in rotating
  /\ rotating' = rotating \ {f}
  /\ UNCHANGED <<live, used>>

\* The token is revoked: it expired, or reuse was detected in its lineage.
Revoke(f) ==
  /\ live[f] # NoToken
  /\ live' = [live EXCEPT ![f] = NoToken]
  /\ UNCHANGED <<rotating, used>>

Next ==
  \E f \in Tokens :
    \/ Start(f)
    \/ Take(f)
    \/ \E u \in Tokens : Replace(f, u)
    \/ Abandon(f)
    \/ Revoke(f)

Spec == Init /\ [][Next]_vars

=============================================================================
