---------------------------- MODULE RecoveryCodes ---------------------------
(***************************************************************************)
(* Recovery codes of one account and the backup of its master key:         *)
(*   ave-server/src/routes/security.ts          issue, regenerate          *)
(*   ave-server/src/routes/register.ts          finalize-backup            *)
(*   ave-server/src/routes/login/recovery.ts    trust-code, recover-key    *)
(*   ave-server/src/routes/login/shared.ts      match and claim a code     *)
(*   ave-web .../dashboard/sections/Security.svelte, register/+page.svelte *)
(*   ave-web .../login/components/LoginTrustCode.svelte, lib/crypto.ts     *)
(*                                                                         *)
(* A page asks the server for a set of codes, then seals the master key    *)
(* with them and stores the sealed key in a second request.  Nothing ties  *)
(* the two requests together: the rows of the codes and the backup are two *)
(* tables, and two pages may be at it.  A set of codes bears the name of   *)
(* the page that asked for it.                                             *)
(*                                                                         *)
(* Abstracted: hashing, rate limits and enterprise SSO only refuse; the    *)
(* device and session that a code login makes are those of SignInSessions. *)
(***************************************************************************)
EXTENDS FiniteSets, Naturals

CONSTANTS
  Pages,    \* openings of the security section (or of registration)
  Indices,  \* the codes of a set
  Uses,     \* requests that bring a code
  None      \* no backup

VARIABLES
  rows,     \* trust_codes: none, unused, used or gone
  backup,   \* users.encrypted_master_key_backup: the set that opens it
  pc,       \* next step of each page
  upc,      \* next step of each use
  entered,  \* the code each use brings
  got,      \* the backup it was answered with
  disturbed \* history: pages during or after whose run another page wrote

Codes == Pages \X Indices
Backups == Pages \cup {None}

pageVars == <<pc, disturbed>>
useVars == <<upc, entered, got>>
vars == <<rows, backup, pageVars, useVars>>

TypeOK ==
  /\ rows \in [Codes -> {"none", "unused", "used", "gone"}]
  /\ backup \in Backups
  /\ pc \in [Pages -> {"idle", "count", "delete", "insert", "answered", "seal",
                       "shown", "keyless", "stopped"}]
  /\ upc \in [Uses -> {"idle", "find", "claim", "backup", "answered", "session",
                       "opened", "closed", "lost", "refused"}]
  /\ entered \in [Uses -> Codes \cup {None}]
  /\ got \in [Uses -> Backups]
  /\ disturbed \subseteq Pages

Init ==
  /\ rows = [c \in Codes |-> "none"]
  /\ backup = None
  /\ pc = [p \in Pages |-> "idle"]
  /\ upc = [u \in Uses |-> "idle"]
  /\ entered = [u \in Uses |-> None]
  /\ got = [u \in Uses |-> None]
  /\ disturbed = {}

Unused == {c \in Codes : rows[c] = "unused"}
OpenPages(p) == {q \in Pages \ {p} : pc[q] # "idle"}

-----------------------------------------------------------------------------
(* The page.                                                               *)

\* handleIssueCodes and handleRecoverySetup ask for the first set,
\* handleRegenerateCodes, once confirmed, for another.
Begin(p) ==
  /\ pc[p] = "idle"
  /\ \E next \in {"count", "delete"} : pc' = [pc EXCEPT ![p] = next]
  /\ UNCHANGED <<rows, backup, disturbed, useVars>>

\* POST /trust-codes/issue: refused while any code is unused.
Count(p) ==
  /\ pc[p] = "count"
  /\ pc' = [pc EXCEPT ![p] = IF Unused = {} THEN "insert" ELSE "stopped"]
  /\ UNCHANGED <<rows, backup, disturbed, useVars>>

DeletedBug(r) == r

\* DELETE FROM trust_codes WHERE user_id = ...
Deleted(r) == [c \in Codes |-> IF r[c] = "none" THEN "none" ELSE "gone"]

\* POST /trust-codes/regenerate.
Delete(p) ==
  /\ pc[p] = "delete"
  /\ rows' = Deleted(rows)
  /\ disturbed' = disturbed \cup OpenPages(p)
  /\ pc' = [pc EXCEPT ![p] = "insert"]
  /\ UNCHANGED <<backup, useVars>>

\* createTrustCodes, the last statement of either.
InsertCodes(p) ==
  /\ pc[p] = "insert"
  /\ rows' = [c \in Codes |-> IF c[1] = p THEN "unused" ELSE rows[c]]
  /\ disturbed' = disturbed \cup OpenPages(p)
  /\ pc' = [pc EXCEPT ![p] = "answered"]
  /\ UNCHANGED <<backup, useVars>>

\* finalizeRecoveryCodes: the codes are here and the key is not.
Keyless(p) ==
  /\ pc[p] = "answered"
  /\ pc' = [pc EXCEPT ![p] = "keyless"]
  /\ UNCHANGED <<rows, backup, disturbed, useVars>>

\* createMasterKeyBackup encrypts the key once for each code of the set.
Seal(p) ==
  /\ pc[p] = "answered"
  /\ pc' = [pc EXCEPT ![p] = "seal"]
  /\ UNCHANGED <<rows, backup, disturbed, useVars>>

\* POST /register/finalize-backup; the page then shows the codes.
Finalize(p) ==
  /\ pc[p] = "seal"
  /\ backup' = p
  /\ disturbed' = disturbed \cup OpenPages(p)
  /\ pc' = [pc EXCEPT ![p] = "shown"]
  /\ UNCHANGED <<rows, useVars>>

\* The page is closed, or a request or its answer is lost.
Stop(p) ==
  /\ pc[p] \notin {"idle", "shown", "keyless", "stopped"}
  /\ pc' = [pc EXCEPT ![p] = "stopped"]
  /\ UNCHANGED <<rows, backup, disturbed, useVars>>

-----------------------------------------------------------------------------
(* A code is used, to sign in (trust-code) or to fetch the key for a       *)
(* session that a passkey has made (recover-key).                          *)

\* LoginTrustCode: the user types a code that some page has shown.
Enter(u) ==
  /\ upc[u] = "idle"
  /\ \E p \in Pages : \E i \in Indices :
       pc[p] = "shown" /\ entered' = [entered EXCEPT ![u] = <<p, i>>]
  /\ upc' = [upc EXCEPT ![u] = "find"]
  /\ UNCHANGED <<rows, backup, pageVars, got>>

\* findUnusedTrustCode, and the refusal when no unused row matches.
Find(u) ==
  /\ upc[u] = "find"
  /\ upc' = [upc EXCEPT ![u] = IF entered[u] \in Unused THEN "claim" ELSE "refused"]
  /\ UNCHANGED <<rows, backup, pageVars, entered, got>>

ClaimableBug(status) == status \in {"unused", "used"}

\* The WHERE of claimTrustCode's update.
Claimable(status) == status = "unused"

\* claimTrustCode: one guarded update, and the count of what remains.
Claim(u) ==
  /\ upc[u] = "claim"
  /\ IF Claimable(rows[entered[u]])
     THEN /\ rows' = [rows EXCEPT ![entered[u]] = "used"]
          /\ upc' = [upc EXCEPT ![u] = "backup"]
     ELSE /\ upc' = [upc EXCEPT ![u] = "refused"]
          /\ UNCHANGED rows
  /\ UNCHANGED <<backup, pageVars, entered, got>>

\* Both handlers read the backup last; recover-key refuses without one, by
\* then with the code spent.
ReadBackup(u) ==
  /\ upc[u] = "backup"
  /\ got' = [got EXCEPT ![u] = backup]
  /\ \/ upc' = [upc EXCEPT ![u] = "session"]
     \/ upc' = [upc EXCEPT ![u] = IF backup = None THEN "refused" ELSE "answered"]
  /\ UNCHANGED <<rows, backup, pageVars, entered>>

\* trust-code makes the device and the session.
SignIn(u) ==
  /\ upc[u] = "session"
  /\ upc' = [upc EXCEPT ![u] = "answered"]
  /\ UNCHANGED <<rows, backup, pageVars, entered, got>>

\* recoverMasterKeyFromBackup, run by the page on the answer.
Open(u) ==
  /\ upc[u] = "answered"
  /\ upc' = [upc EXCEPT ![u] = IF got[u] = entered[u][1] THEN "opened" ELSE "closed"]
  /\ UNCHANGED <<rows, backup, pageVars, entered, got>>

\* The handler dies or the answer is lost: the code may be spent.
Lose(u) ==
  /\ upc[u] \in {"find", "claim", "backup", "session", "answered"}
  /\ upc' = [upc EXCEPT ![u] = IF @ \in {"find", "claim"} THEN "refused" ELSE "lost"]
  /\ UNCHANGED <<rows, backup, pageVars, entered, got>>

-----------------------------------------------------------------------------
PageStep(p) ==
  \/ Begin(p) \/ Count(p) \/ Delete(p) \/ InsertCodes(p)
  \/ Keyless(p) \/ Seal(p) \/ Finalize(p) \/ Stop(p)

UseStep(u) ==
  \/ Enter(u) \/ Find(u) \/ Claim(u) \/ ReadBackup(u)
  \/ SignIn(u) \/ Open(u) \/ Lose(u)

Next == (\E p \in Pages : PageStep(p)) \/ (\E u \in Uses : UseStep(u))

Spec == Init /\ [][Next]_vars

-----------------------------------------------------------------------------
(* Properties.                                                             *)

Spent == {u \in Uses : upc[u] \in {"backup", "session", "answered", "opened", "closed", "lost"}}

\* A code is spent once: of the requests that bring it, at the same time or
\* one after the other, to either endpoint, one at most gets past the claim.
CodeSpentOnce ==
  \A u, v \in Spent : entered[u] = entered[v] => u = v

\* A set whose page nobody disturbed, during its run or since, is the whole
\* truth: a code of it that is claimed opens the backup, and no code of an
\* older set still counts.  Two requests of the page and two tables have to
\* come out in step, whatever earlier pages left half done.
LoneSetOpens ==
  \A p \in Pages : pc[p] = "shown" /\ p \notin disturbed =>
    /\ \A c \in Unused : c[1] = p
    /\ \A u \in Uses : upc[u] = "closed" => entered[u][1] # p

\* A page without the master key changes nothing: "Sign in on a trusted device
\* before changing recovery codes." (Security.svelte:88).
KeylessChangesNothing ==
  \A p \in Pages : pc[p] = "keyless" => \A i \in Indices : rows[<<p, i>>] = "none"
=============================================================================
