----------------------------- MODULE Registration -----------------------------
(***************************************************************************)
(* Creating an account (ave-server/src/routes/register.ts, start and       *)
(* complete; ave-web .../routes/web/register/+page.svelte).                *)
(*                                                                         *)
(* Several pages want one handle.  The handler inserts the user, identity, *)
(* key, passkey, device and session one after the other, and deletes the   *)
(* user again when one of them fails; the page may send the same request   *)
(* once more.  Rows bear the name of the request that inserted them.       *)
(*                                                                         *)
(* Abstracted: the verification only refuses; the identity and its key are *)
(* one step, as are the device and its session: a failure between them is  *)
(* a failure before the next step.                                         *)
(***************************************************************************)
EXTENDS Naturals, FiniteSets

CONSTANTS
  Pages,  \* openings of the registration page
  Tries,  \* bound: how often a page sends its request
  None    \* nobody

VARIABLES
  challenge,  \* of each page: none, live or gone
  made,       \* pages whose browser has made a passkey and a master key
  sent,       \* how often each page has sent its request
  shown,      \* what each page shows: form, waiting, enrolled or failed
  pc,         \* next statement of each request
  user,       \* requests with a row in users
  identity,   \* requests with a row in identities, all with the one handle
  passkey,    \* the request whose user has each page's passkey
  session,    \* requests with a device and a session
  stranded    \* history: requests that died, or whose clean-up failed

Requests == Pages \X (1..Tries)
rowVars == <<user, identity, passkey, session>>
pageVars == <<made, sent, shown>>
vars == <<challenge, pageVars, pc, rowVars, stranded>>

TypeOK ==
  /\ challenge \in [Pages -> {"none", "live", "gone"}]
  /\ made \subseteq Pages
  /\ sent \in [Pages -> 0..Tries]
  /\ shown \in [Pages -> {"form", "waiting", "enrolled", "failed"}]
  /\ pc \in [Requests -> {"idle", "challenge", "user", "identity", "passkey", "session",
                          "rollback", "spend", "done", "failed"}]
  /\ user \subseteq Requests /\ identity \subseteq Requests /\ session \subseteq Requests
  /\ passkey \in [Pages -> Requests \cup {None}]
  /\ stranded \subseteq Requests

Init ==
  /\ challenge = [p \in Pages |-> "none"]
  /\ made = {} /\ sent = [p \in Pages |-> 0]
  /\ shown = [p \in Pages |-> "form"]
  /\ pc = [r \in Requests |-> "idle"]
  /\ user = {} /\ identity = {} /\ session = {}
  /\ passkey = [p \in Pages |-> None]
  /\ stranded = {}

Settled == \A r \in Requests : pc[r] \in {"idle", "done", "failed"}

-----------------------------------------------------------------------------
(* The page.                                                               *)

\* handleIdentityNext: the handle is free, and start stores a challenge.
Start(p) ==
  /\ shown[p] = "form" /\ challenge[p] = "none" /\ identity = {}
  /\ challenge' = [challenge EXCEPT ![p] = "live"]
  /\ UNCHANGED <<pageVars, pc, rowVars, stranded>>

\* handlePasskeySetup.
MakePasskey(p) ==
  /\ challenge[p] # "none" /\ p \notin made
  /\ made' = made \cup {p}
  /\ UNCHANGED <<challenge, sent, shown, pc, rowVars, stranded>>

\* completeRegistration, also after a failure.
Submit(p) ==
  /\ p \in made /\ shown[p] \in {"form", "failed"} /\ sent[p] < Tries
  /\ sent' = [sent EXCEPT ![p] = @ + 1]
  /\ shown' = [shown EXCEPT ![p] = "waiting"]
  /\ pc' = [pc EXCEPT ![<<p, sent[p] + 1>>] = "challenge"]
  /\ UNCHANGED <<challenge, made, rowVars, stranded>>

\* The answer to the last request, or the loss of it.
Answer(p) ==
  /\ shown[p] = "waiting"
  /\ \/ pc[<<p, sent[p]>>] = "done" /\ shown' = [shown EXCEPT ![p] = "enrolled"]
     \/ shown' = [shown EXCEPT ![p] = "failed"]
  /\ UNCHANGED <<challenge, made, sent, pc, rowVars, stranded>>

\* A quarter of an hour passes, or the clean-up comes by.
Lapse(p) ==
  /\ challenge[p] = "live"
  /\ challenge' = [challenge EXCEPT ![p] = "gone"]
  /\ UNCHANGED <<pageVars, pc, rowVars, stranded>>

-----------------------------------------------------------------------------
(* POST /register/complete.                                                *)

Continue(r, next) == pc' = [pc EXCEPT ![r] = next]

GetChallenge(r) ==
  /\ pc[r] = "challenge"
  /\ Continue(r, IF challenge[r[1]] = "live" THEN "user" ELSE "failed")
  /\ UNCHANGED <<challenge, pageVars, rowVars, stranded>>

InsertUser(r) ==
  /\ pc[r] = "user"
  /\ user' = user \cup {r}
  /\ Continue(r, "identity")
  /\ UNCHANGED <<challenge, pageVars, identity, passkey, session, stranded>>

\* The unique index on the handle.
Free == identity = {}

InsertIdentity(r) ==
  /\ pc[r] = "identity"
  /\ identity' = IF Free THEN identity \cup {r} ELSE identity
  /\ Continue(r, IF Free THEN "passkey" ELSE "rollback")
  /\ UNCHANGED <<challenge, pageVars, user, passkey, session, stranded>>

\* The credential is the primary key.
InsertPasskey(r) ==
  /\ pc[r] = "passkey"
  /\ IF passkey[r[1]] = None
     THEN passkey' = [passkey EXCEPT ![r[1]] = r] /\ Continue(r, "session")
     ELSE Continue(r, "rollback") /\ UNCHANGED passkey
  /\ UNCHANGED <<challenge, pageVars, user, identity, session, stranded>>

InsertSession(r) ==
  /\ pc[r] = "session"
  /\ session' = session \cup {r}
  /\ Continue(r, "spend")
  /\ UNCHANGED <<challenge, pageVars, user, identity, passkey, stranded>>

SpendChallenge(r) ==
  /\ pc[r] = "spend"
  /\ challenge' = [challenge EXCEPT ![r[1]] = "gone"]
  /\ Continue(r, "done")
  /\ UNCHANGED <<pageVars, rowVars, stranded>>

\* A statement fails: after the first insert the catch clause follows.
StatementFails(r) ==
  /\ pc[r] \in {"challenge", "user", "identity", "passkey", "session", "spend"}
  /\ Continue(r, IF pc[r] \in {"identity", "passkey", "session"} THEN "rollback" ELSE "failed")
  /\ UNCHANGED <<challenge, pageVars, rowVars, stranded>>

UndoneBug(r) == identity

\* Foreign keys cascade.
Undone(r) == identity \ {r}

Rollback(r) ==
  /\ pc[r] = "rollback"
  /\ user' = user \ {r}
  /\ identity' = Undone(r)
  /\ session' = session \ {r}
  /\ passkey' = [p \in Pages |-> IF passkey[p] = r THEN None ELSE passkey[p]]
  /\ Continue(r, "failed")
  /\ UNCHANGED <<challenge, pageVars, stranded>>

\* The worker dies, or the clean-up fails as well.
Strand(r) ==
  /\ pc[r] \in {"identity", "passkey", "session", "rollback", "spend"}
  /\ stranded' = stranded \cup {r}
  /\ Continue(r, "failed")
  /\ UNCHANGED <<challenge, pageVars, rowVars>>

-----------------------------------------------------------------------------
Next ==
  \/ \E p \in Pages : Start(p) \/ MakePasskey(p) \/ Submit(p) \/ Answer(p) \/ Lapse(p)
  \/ \E r \in Requests :
       \/ GetChallenge(r) \/ InsertUser(r) \/ InsertIdentity(r) \/ InsertPasskey(r)
       \/ InsertSession(r) \/ SpendChallenge(r) \/ StatementFails(r) \/ Rollback(r) \/ Strand(r)

Spec == Init /\ [][Next]_vars

-----------------------------------------------------------------------------
(* Properties.                                                             *)

\* An account is there as a whole or not at all: once its request is settled,
\* a user has the identity, the passkey and a session, unless the worker died
\* or the clean-up failed; whoever is shown as enrolled has all of it, with
\* the passkey of this very page, and nobody else has the handle, whatever
\* other pages and repeated requests insert and take back.
AccountWhole ==
  /\ \A r \in user \ stranded : pc[r] \in {"done", "failed"} =>
       r \in identity /\ r \in session /\ passkey[r[1]] = r
  /\ \A r \in identity : r \in user
  /\ \A p \in Pages : shown[p] = "enrolled" =>
       /\ passkey[p] # None /\ passkey[p] \in user \cap session
       /\ identity = {passkey[p]}
=============================================================================
