------------------------------ MODULE Identities ------------------------------
(***************************************************************************)
(* The identities of one account (ave-server/src/routes/identities.ts,     *)
(* encryption keys excepted; ave-web .../sections/Identity.svelte).        *)
(*                                                                         *)
(* Creating, choosing the primary one and deleting are sequences of single *)
(* statements that decide by what they have read before.  A creation bears *)
(* the name of the identity it inserts.                                    *)
(*                                                                         *)
(* Abstracted: profile fields are data; a handle that is taken, before or  *)
(* at the unique index, refuses the request (Refuse).                      *)
(***************************************************************************)
EXTENDS Naturals, FiniteSets

CONSTANTS
  Old,        \* the identities at the start
  First,      \* the primary one of them
  Creations,  \* POST /identities, each run once
  Choices,    \* POST /:identityId/set-primary, each run once
  Deletions,  \* DELETE /:identityId, each run once
  Limit,      \* five in the code
  None        \* no identity

VARIABLES
  rows,      \* the rows of identities
  primary,   \* those with is_primary
  pc,        \* next statement of each request
  target,    \* the identity it is about
  empty,     \* creations that have counted no identity
  met,       \* history: choices and deletions that overlapped another one, or
             \* a creation whose identity becomes primary
  doubtful   \* history: a choice or deletion that met another has written, a
             \* choice has died halfway, or the account had lost every identity;
             \* until a choice runs alone to its end

Ids == Old \cup Creations
Requests == Creations \cup Choices \cup Deletions
rowVars == <<rows, primary>>
requestVars == <<pc, target, empty>>
historyVars == <<met, doubtful>>
vars == <<rowVars, requestVars, historyVars>>

TypeOK ==
  /\ rows \subseteq Ids /\ primary \subseteq rows
  /\ pc \in [Requests -> {"idle", "count", "insert", "clear", "mark", "delete", "done", "refused"}]
  /\ target \in [Requests -> Ids \cup {None}]
  /\ empty \subseteq Creations
  /\ met \subseteq Choices \cup Deletions
  /\ doubtful \in BOOLEAN

Init ==
  /\ rows = Old /\ primary = {First}
  /\ pc = [r \in Requests |-> "idle"]
  /\ target = [r \in Requests |-> None]
  /\ empty = {}
  /\ met = {} /\ doubtful = FALSE

Busy == {r \in Requests : pc[r] \in {"count", "insert", "clear", "mark", "delete"}}
Movers == Busy \cap (Choices \cup Deletions)

Meet(r) == met' = IF Movers = {} THEN met ELSE met \cup Movers \cup {r}

-----------------------------------------------------------------------------
(* POST /identities.                                                       *)

\* "Maximum of 5 identities allowed".
Full(n) == n >= Limit

\* existingCount, which decides twice: the limit now, is_primary later.
Count(n) ==
  /\ pc[n] = "idle"
  /\ pc' = [pc EXCEPT ![n] = IF Full(Cardinality(rows)) THEN "refused" ELSE "insert"]
  /\ empty' = IF rows = {} THEN empty \cup {n} ELSE empty
  /\ UNCHANGED <<rowVars, target, met, doubtful>>

Insert(n) ==
  /\ pc[n] = "insert"
  /\ rows' = rows \cup {n}
  /\ primary' = IF n \in empty THEN primary \cup {n} ELSE primary
  /\ pc' = [pc EXCEPT ![n] = "done"]
  /\ doubtful' = (doubtful \/ n \in empty)
  /\ met' = IF n \in empty THEN met \cup Movers ELSE met
  /\ UNCHANGED <<target, empty>>

-----------------------------------------------------------------------------
(* POST /:identityId/set-primary.                                          *)

Choose(c) ==
  /\ pc[c] = "idle"
  /\ \E i \in rows : target' = [target EXCEPT ![c] = i]
  /\ pc' = [pc EXCEPT ![c] = "clear"]
  /\ Meet(c)
  /\ UNCHANGED <<rowVars, empty, doubtful>>

ClearedBug(i) == primary

\* UPDATE identities SET is_primary = false WHERE user_id = ...
Cleared(i) == {}

Clear(c) ==
  /\ pc[c] = "clear"
  /\ primary' = Cleared(target[c])
  /\ pc' = [pc EXCEPT ![c] = "mark"]
  /\ doubtful' = (doubtful \/ c \in met)
  /\ UNCHANGED <<rows, target, empty, met>>

MarkedBug(i) == primary \cup {i}

\* UPDATE ... SET is_primary = true WHERE id = ..., a row that may be gone.
Marked(i) == primary \cup ({i} \cap rows)

Mark(c) ==
  /\ pc[c] = "mark"
  /\ primary' = Marked(target[c])
  /\ pc' = [pc EXCEPT ![c] = "done"]
  /\ doubtful' = (c \in met)
  /\ UNCHANGED <<rows, target, empty, met>>

-----------------------------------------------------------------------------
(* DELETE /:identityId.                                                    *)

DeletableBug(i) == TRUE

\* "Cannot delete primary identity."
Deletable(i) == i \notin primary

Find(d) ==
  /\ pc[d] = "idle"
  /\ \E i \in rows :
       /\ target' = [target EXCEPT ![d] = i]
       /\ pc' = [pc EXCEPT ![d] = IF Deletable(i) THEN "count" ELSE "refused"]
  /\ Meet(d)
  /\ UNCHANGED <<rowVars, empty, doubtful>>

\* "Cannot delete your only identity".
CountOthers(d) ==
  /\ pc[d] = "count"
  /\ pc' = [pc EXCEPT ![d] = IF Cardinality(rows) = 1 THEN "refused" ELSE "delete"]
  /\ UNCHANGED <<rowVars, target, empty, historyVars>>

Delete(d) ==
  /\ pc[d] = "delete"
  /\ rows' = rows \ {target[d]}
  /\ primary' = primary \ {target[d]}
  /\ pc' = [pc EXCEPT ![d] = "done"]
  /\ doubtful' = (doubtful \/ d \in met)
  /\ UNCHANGED <<target, empty, met>>

\* A refusal, or the worker dies.
Refuse(r) ==
  /\ r \in Busy
  /\ pc' = [pc EXCEPT ![r] = "refused"]
  /\ doubtful' = (doubtful \/ pc[r] = "mark")
  /\ UNCHANGED <<rowVars, target, empty, met>>

-----------------------------------------------------------------------------
Next ==
  \/ \E n \in Creations : Count(n) \/ Insert(n)
  \/ \E c \in Choices : Choose(c) \/ Clear(c) \/ Mark(c)
  \/ \E d \in Deletions : Find(d) \/ CountOthers(d) \/ Delete(d)
  \/ \E r \in Requests : Refuse(r)

Spec == Init /\ [][Next]_vars

-----------------------------------------------------------------------------
(* Properties.                                                             *)

\* The account has exactly one primary identity, so also an identity, whatever
\* is created, chosen and deleted and whichever requests die, unless a choice
\* or deletion met another one or stopped between its two statements, or every
\* identity was lost; and then it has again once a choice has run without
\* another one and without a creation that had found no identity.
PrimaryExact ==
  ~doubtful /\ (\A c \in Choices : pc[c] # "mark") => Cardinality(primary) = 1
=============================================================================
