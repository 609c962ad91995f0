--------------------------- MODULE EmailVerification ---------------------------
(***************************************************************************)
(* Verifying the e-mail address of one identity:                           *)
(*   ave-server/src/lib/email-verification.ts                              *)
(*   ave-server/src/routes/identities.ts, the /email handlers              *)
(*   ave-web .../dashboard/sections/Identity.svelte                        *)
(*                                                                         *)
(* Each handler reads the row and later writes it by id.  A code is bound  *)
(* to the address it is mailed to and bears the name of the mailing that   *)
(* made it; when the mail fails, the handler puts back what it had read.   *)
(*                                                                         *)
(* Abstracted: rate limits only refuse; a mail may arrive although sending *)
(* it has failed.                                                          *)
(***************************************************************************)
EXTENDS FiniteSets

CONSTANTS
  Emails,
  Mailings,  \* POST /email/start and /email/resend, each run once
  Checks,    \* POST /email/verify, each run once
  Clears,    \* DELETE /email, each run once
  None       \* null

VARIABLES
  row,       \* [email, pending, code, state]: the columns of the row, the
             \* state of its code being none, recent, old or expired
  pc,        \* next statement of each request
  read,      \* the row it has read
  to,        \* the address of each mailing
  typed,     \* the code of each check
  arrived,   \* mailings whose mail has arrived
  expected,  \* history: the code that stands for all the requests that have
             \* ended, None if there is none
  crossed    \* history: requests have overlapped

Requests == Mailings \cup Checks \cup Clears
Maybe == Emails \cup {None}
Row == [email : Maybe, pending : Maybe, code : Mailings \cup {None},
        state : {"none", "recent", "old", "expired"}]
NoRow == [email |-> None, pending |-> None, code |-> None, state |-> "none"]

requestVars == <<pc, read, to, typed>>
historyVars == <<expected, crossed>>
vars == <<row, requestVars, arrived, historyVars>>

TypeOK ==
  /\ row \in Row
  /\ pc \in [Requests -> {"idle", "write", "mail", "restore", "done", "failed"}]
  /\ read \in [Requests -> Row]
  /\ to \in [Mailings -> Maybe]
  /\ typed \in [Checks -> Mailings \cup {None}]
  /\ arrived \subseteq Mailings
  /\ expected \in Mailings \cup {None}
  /\ crossed \in BOOLEAN

\* An identity created with an address has it pending, and no code.
Init ==
  /\ row \in {[NoRow EXCEPT !.pending = e] : e \in Maybe}
  /\ pc = [r \in Requests |-> "idle"]
  /\ read = [r \in Requests |-> NoRow]
  /\ to = [m \in Mailings |-> None]
  /\ typed = [c \in Checks |-> None]
  /\ arrived = {}
  /\ expected = None
  /\ crossed = FALSE

Busy == {r \in Requests : pc[r] \in {"write", "mail", "restore"}}

\* The select with which every handler begins.
Begin(r, next) ==
  /\ pc[r] = "idle"
  /\ read' = [read EXCEPT ![r] = row]
  /\ pc' = [pc EXCEPT ![r] = next]
  /\ crossed' = (crossed \/ Busy # {})

Pass(r, next) == pc' = [pc EXCEPT ![r] = next] /\ UNCHANGED read

End(r, result) ==
  /\ pc' = [pc EXCEPT ![r] = result]
  /\ read' = [read EXCEPT ![r] = NoRow]

-----------------------------------------------------------------------------
(* The code ages: a minute until another may be sent, a quarter of an hour *)
(* until it expires.                                                       *)

Age ==
  /\ row.state \in {"recent", "old"}
  /\ row' = [row EXCEPT !.state = IF @ = "recent" THEN "old" ELSE "expired"]
  /\ UNCHANGED <<requestVars, arrived, historyVars>>

-----------------------------------------------------------------------------
(* beginEmailVerification.                                                 *)

\* canResendEmailVerification; a resend takes the pending address.
ReadToMail(m) ==
  /\ row.state # "recent"
  /\ \E e \in Emails : to' = [to EXCEPT ![m] = e]
  /\ Begin(m, "write")
  /\ UNCHANGED <<row, typed, arrived, expected>>

WriteCode(m) ==
  /\ pc[m] = "write" /\ m \in Mailings
  /\ row' = [row EXCEPT !.pending = to[m], !.code = m, !.state = "recent"]
  /\ Pass(m, "mail")
  /\ UNCHANGED <<to, typed, arrived, historyVars>>

Send(m) ==
  /\ pc[m] = "mail"
  /\ arrived' = arrived \cup {m}
  /\ expected' = m
  /\ End(m, "done")
  /\ UNCHANGED <<row, to, typed, crossed>>

SendFails(m) ==
  /\ pc[m] = "mail"
  /\ arrived' \in {arrived, arrived \cup {m}}
  /\ Pass(m, "restore")
  /\ UNCHANGED <<row, to, typed, historyVars>>

RestoredBug(now, before) == [now EXCEPT !.pending = before.pending]

\* The catch clause: the pending address and its code as they were read.
Restored(now, before) ==
  [now EXCEPT !.pending = before.pending, !.code = before.code, !.state = before.state]

Restore(m) ==
  /\ pc[m] = "restore"
  /\ row' = Restored(row, read[m])
  /\ End(m, "failed")
  /\ UNCHANGED <<to, typed, arrived, historyVars>>

-----------------------------------------------------------------------------
(* completeEmailVerification and the removal of the address.               *)

\* The hash covers the address that is pending and the code.
Matches(r, code) == r.code = code /\ r.pending = to[code]

\* The user types a code that has arrived.
ReadToCheck(c) ==
  /\ \E m \in arrived :
       /\ typed' = [typed EXCEPT ![c] = m]
       /\ Begin(c, IF row.state \in {"recent", "old"} /\ Matches(row, m)
                   THEN "write" ELSE "failed")
  /\ UNCHANGED <<row, to, arrived, expected>>

ProvedBug(c) == row.pending

\* The address that was pending when the code was compared.
Proved(c) == read[c].pending

WriteVerified(c) ==
  /\ pc[c] = "write" /\ c \in Checks
  /\ row' = [NoRow EXCEPT !.email = Proved(c)]
  /\ expected' = None
  /\ End(c, "done")
  /\ UNCHANGED <<to, typed, arrived, crossed>>

ReadToClear(x) ==
  /\ Begin(x, "write")
  /\ UNCHANGED <<row, to, typed, arrived, expected>>

\* clearPendingEmailVerification when an address was pending, otherwise the
\* verified one.
WriteCleared(x) ==
  /\ pc[x] = "write" /\ x \in Clears
  /\ IF read[x].pending # None
     THEN row' = [NoRow EXCEPT !.email = row.email] /\ expected' = None
     ELSE row' = [row EXCEPT !.email = None] /\ UNCHANGED expected
  /\ End(x, "done")
  /\ UNCHANGED <<to, typed, arrived, crossed>>

\* The worker dies; a mailing's code, if written, is then unknown to anybody
\* whom no mail has reached.
Die(r) ==
  /\ r \in Busy
  /\ expected' = IF pc[r] \in {"mail", "restore"} THEN row.code ELSE expected
  /\ End(r, "failed")
  /\ UNCHANGED <<row, to, typed, arrived, crossed>>

-----------------------------------------------------------------------------
Next ==
  \/ Age
  \/ \E m \in Mailings : ReadToMail(m) \/ WriteCode(m) \/ Send(m) \/ SendFails(m) \/ Restore(m)
  \/ \E c \in Checks : ReadToCheck(c) \/ WriteVerified(c)
  \/ \E x \in Clears : ReadToClear(x) \/ WriteCleared(x)
  \/ \E r \in Requests : Die(r)

Spec == Init /\ [][Next]_vars

-----------------------------------------------------------------------------
(* Properties.                                                             *)

\* A verified address is one a code was mailed to and came back from, however
\* mailings that fail and put back older fields, checks and removals interleave.
VerifiedWasMailed ==
  row.email # None => \E m \in arrived : to[m] = row.email /\ \E c \in Checks : typed[c] = m

\* Between requests that do not overlap, the row holds the code of the last
\* mailing that ended well, for the address it went to: one that fails takes
\* nothing away from the one before it.
LastMailingStands ==
  ~crossed /\ Busy = {} => row.code = expected
     /\ (expected # None => row.pending = to[expected])
=============================================================================
