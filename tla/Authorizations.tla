--------------------------- MODULE Authorizations ---------------------------
(***************************************************************************)
(* How one user authorizes one application for one identity:               *)
(*   ave-web .../routes/web/authorize/AuthorizeFlow.svelte  (the page)     *)
(*   ave-server/src/routes/oauth/authorize.ts, account.ts,                 *)
(*     authorization-bootstrap.ts, authorization-code.ts, fedcm.ts,        *)
(*     app-key-recovery.ts, lib/app-e2ee-auth.ts, lib/e2ee-scopes.ts,      *)
(*     lib/oauth-store.ts                                                  *)
(*                                                                         *)
(* A flow is one opening of the page up to the redirect that takes a code  *)
(* and the application's encryption key to the application.  The page      *)
(* reads the authorization row (bootstrap), decides which key to use, and  *)
(* posts; the handler reads the row again, inserts it or updates it by id, *)
(* and writes the code.  A bootstrap read from a lagging replica, and a    *)
(* page that tries again after a lost answer, are flows opened earlier.    *)
(*                                                                         *)
(* A flow makes at most one key, one row and one code: each bears its name.*)
(* Abstracted: redirect URIs, PKCE, client secrets, organization context   *)
(* and rate limits are refusals (Stop); Quick clients have no row; the     *)
(* connector grant of lines 393-466 shares no state with the rest.         *)
(***************************************************************************)
EXTENDS Naturals

CONSTANTS
  Flows,       \* openings of the authorize page, each run once
  Recoverers,  \* requests that put back a recovered key, each run once
  Exchanged,   \* bound: flows whose code is ever presented or expires
  Wants,       \* the encryption scopes an application may ask for
  None         \* null

ASSUME NoneAssumption ==
  /\ None \notin Flows /\ None \notin Recoverers /\ Flows \cap Recoverers = {}
ASSUME ExchangedAssumption == Exchanged \subseteq Flows
ASSUME WantsAssumption ==
  Wants \subseteq [mode : {"none", "symmetric", "asymmetric"}, reset : BOOLEAN]

VARIABLES
  row,      \* the row of oauth_authorizations; id None when there is none
  pc,       \* where each flow is
  want,     \* the scopes it was opened with
  page,     \* the row its page holds (existingAuth in AuthorizeFlow)
  sent,     \* the key material it posts
  given,    \* the key it will hand to the application
  read,     \* the row its handler holds (existingAuth in authorize.ts)
  code,     \* its authorization code: none, live, expired or gone
  held,     \* exchanges that have consumed the code and not answered
  tokens,   \* token responses written for the code
  rpc, rid, \* next statement of each recovery, the row it has read
  stored,   \* history: keys some authorization row has held
  missed,   \* history: flows whose update met no row
  replaced  \* history: rows whose key a reset or a recovery has set

flowVars == <<pc, want, page, sent, given, read>>
codeVars == <<code, held, tokens>>
recoveryVars == <<rpc, rid>>
historyVars == <<stored, missed, replaced>>
vars == <<row, flowVars, codeVars, recoveryVars, historyVars>>

Modes == {"none", "symmetric", "asymmetric"}
Keys == Flows \cup Recoverers
MaybeKey == Keys \cup {None}
Material == [sym : MaybeKey, asym : MaybeKey]
Row == [id : Flows \cup {None}, sym : MaybeKey, asym : MaybeKey, mode : Modes]
PCs == {"idle", "page", "locked", "sent", "insert", "reread", "write", "answered", "done", "stopped"}

Nothing == [sym |-> None, asym |-> None]
NoRow == [id |-> None, sym |-> None, asym |-> None, mode |-> "none"]

TypeOK ==
  /\ row \in Row
  /\ pc \in [Flows -> PCs]
  /\ want \in [Flows -> [mode : Modes, reset : BOOLEAN]]
  /\ page \in [Flows -> Row]
  /\ sent \in [Flows -> Material]
  /\ given \in [Flows -> MaybeKey]
  /\ read \in [Flows -> Row]
  /\ code \in [Flows -> {"none", "live", "expired", "gone"}]
  /\ held \in [Flows -> 0..1]
  /\ tokens \in [Flows -> 0..1]
  /\ rpc \in [Recoverers -> {"idle", "update", "done"}]
  /\ rid \in [Recoverers -> Flows \cup {None}]
  /\ stored \subseteq Keys
  /\ missed \subseteq Flows
  /\ replaced \subseteq Flows

Init ==
  /\ row = NoRow
  /\ pc = [f \in Flows |-> "idle"]
  /\ want = [f \in Flows |-> [mode |-> "none", reset |-> FALSE]]
  /\ page = [f \in Flows |-> NoRow]
  /\ sent = [f \in Flows |-> Nothing]
  /\ given = [f \in Flows |-> None]
  /\ read = [f \in Flows |-> NoRow]
  /\ code = [f \in Flows |-> "none"]
  /\ held = [f \in Flows |-> 0]
  /\ tokens = [f \in Flows |-> 0]
  /\ rpc = [r \in Recoverers |-> "idle"]
  /\ rid = [r \in Recoverers |-> None]
  /\ stored = {}
  /\ missed = {}
  /\ replaced = {}

-----------------------------------------------------------------------------
(* app-e2ee-auth.ts and e2ee-scopes.ts, shared by page and server.         *)

KeyOf(mode, x) ==
  CASE mode = "symmetric" -> x.sym [] mode = "asymmetric" -> x.asym [] OTHER -> None

KeyAs(mode, k) ==
  [sym |-> IF mode = "symmetric" THEN k ELSE None,
   asym |-> IF mode = "asymmetric" THEN k ELSE None]

Or(a, b) == IF a # None THEN a ELSE b

\* A reset that names no mode takes the stored one.
Resolve(w, existing) ==
  IF w.mode = "none" /\ w.reset THEN existing.mode ELSE w.mode

ValidBug(w, m, s, existing) ==
  \/ w.reset /\ KeyOf(m, s) # None
  \/ ~w.reset /\ existing.mode \in {"none", m} /\ Or(KeyOf(m, s), KeyOf(m, existing)) # None

\* validateE2eeAuthPayload returns null.
Valid(w, m, s, existing) ==
  \/ w.reset /\ KeyOf(m, s) # None
  \/ /\ ~w.reset
     /\ existing.mode \in {"none", m}
     /\ Or(KeyOf(m, s), KeyOf(m, existing)) # None
     /\ KeyOf(m, s) # None /\ KeyOf(m, existing) # None => KeyOf(m, s) = KeyOf(m, existing)

Accepted(w, s, existing) ==
  LET m == Resolve(w, existing)
  IN  IF m = "none" THEN ~w.reset ELSE Valid(w, m, s, existing)

\* buildE2eeAuthUpdate(mode, payload, existing), applied to the row r: the
\* update names only the columns it sets.
Updated(w, s, existing, r) ==
  LET m == Resolve(w, existing)
      k == Or(KeyOf(m, existing), KeyOf(m, s))
  IN  CASE m = "none"  -> r
        [] m # "none" /\ w.reset -> [r EXCEPT !.sym = KeyAs(m, KeyOf(m, s)).sym,
                                   !.asym = KeyAs(m, KeyOf(m, s)).asym, !.mode = m]
        [] ~w.reset /\ m = "symmetric" -> [r EXCEPT !.sym = k, !.mode = m]
        [] ~w.reset /\ m = "asymmetric" -> [r EXCEPT !.asym = k, !.mode = m]

KeysInBug(r) == {r.sym, r.asym}

KeysIn(r) == {r.sym, r.asym} \ {None}

-----------------------------------------------------------------------------
(* The page.                                                               *)

\* GET /authorize/bootstrap/:clientId, of which the page keeps the row of the
\* chosen identity; malformed rows and unknown applications are errors (Stop).
Bootstrap == row

\* loadAppInfo.
Open(f) ==
  /\ pc[f] = "idle"
  /\ \E w \in Wants : want' = [want EXCEPT ![f] = w]
  /\ page' = [page EXCEPT ![f] = Bootstrap]
  /\ pc' = [pc EXCEPT ![f] = "page"]
  /\ UNCHANGED <<row, sent, given, read, codeVars, recoveryVars, historyVars>>

ChooseBug(w, existing, f) ==
  LET m == Resolve(w, existing)
  IN  IF m = "none" THEN [sent |-> Nothing, given |-> None]
      ELSE [sent |-> IF KeyOf(m, existing) = None THEN KeyAs(m, f) ELSE Nothing, given |-> f]

\* What handleAuthorize sends and hands over: a new key on a reset or when the
\* row holds none for this mode, the stored one otherwise.
Choose(w, existing, f) ==
  LET m == Resolve(w, existing)
      k == KeyOf(m, existing)
  IN  CASE m = "none"            -> [sent |-> Nothing, given |-> None]
        [] m # "none" /\ ~w.reset /\ k # None -> [sent |-> Nothing, given |-> k]
        [] OTHER                 -> [sent |-> KeyAs(m, f), given |-> f]

\* The slider (or, for a known identity, the page by itself) runs
\* handleAuthorize up to its request.  A stored key that cannot be decrypted
\* ends the attempt there (Stop).
Authorize(f) ==
  /\ pc[f] = "page"
  /\ sent' = [sent EXCEPT ![f] = Choose(want[f], page[f], f).sent]
  /\ given' = [given EXCEPT ![f] = Choose(want[f], page[f], f).given]
  /\ pc' = [pc EXCEPT ![f] = "sent"]
  /\ UNCHANGED <<row, want, page, read, codeVars, recoveryVars, historyVars>>

\* promptMasterKeyRecovery: the device has no master key, or one that does not
\* open the stored key.
Prompt(f) ==
  /\ pc[f] = "page" /\ Resolve(want[f], page[f]) # "none"
  /\ pc' = [pc EXCEPT ![f] = "locked"]
  /\ UNCHANGED <<row, want, page, sent, given, read, codeVars, recoveryVars, historyVars>>

\* A passkey, an approving device or a recovery code brings the master key, and
\* handleAuthorize runs again on the row the page has held all along.
Unlock(f) ==
  /\ pc[f] = "locked"
  /\ pc' = [pc EXCEPT ![f] = "page"]
  /\ UNCHANGED <<row, want, page, sent, given, read, codeVars, recoveryVars, historyVars>>

\* The answer arrives and the page leaves for the application with the code
\* and the key (redirect fragment or embed message).
Deliver(f) ==
  /\ pc[f] = "answered"
  /\ pc' = [pc EXCEPT ![f] = "done"]
  /\ UNCHANGED <<row, want, page, sent, given, read, codeVars, recoveryVars, historyVars>>

\* POST /fedcm/finalize wraps the code and the key in an assertion, for as long
\* as the code is there.
Finalize(f) ==
  /\ pc[f] = "answered" /\ code[f] = "live"
  /\ pc' = [pc EXCEPT ![f] = "done"]
  /\ UNCHANGED <<row, want, page, sent, given, read, codeVars, recoveryVars, historyVars>>

\* POST /fedcm/assertion: an application that asks for no key is signed in to
\* without a page, on the strength of a row it leaves alone.
Assertion(f) ==
  /\ pc[f] = "idle" /\ row.id # None
  /\ code' = [code EXCEPT ![f] = "live"]
  /\ pc' = [pc EXCEPT ![f] = "done"]
  /\ UNCHANGED <<row, want, page, sent, given, read, held, tokens, recoveryVars, historyVars>>

\* The user leaves, the page refuses, the handler refuses or dies, or the
\* answer is lost.
Stop(f) ==
  /\ pc[f] \notin {"idle", "done", "stopped"}
  /\ pc' = [pc EXCEPT ![f] = "stopped"]
  /\ UNCHANGED <<row, want, page, sent, given, read, codeVars, recoveryVars, historyVars>>

-----------------------------------------------------------------------------
(* POST /authorize, statement by statement.                                *)

\* The application, the identity and the row in one query, and every refusal
\* decided from them.
Read(f) ==
  /\ pc[f] = "sent"
  /\ read' = [read EXCEPT ![f] = row]
  /\ pc' = [pc EXCEPT ![f] = IF ~Accepted(want[f], sent[f], row) THEN "stopped"
                             ELSE IF row.id = None THEN "insert" ELSE "write"]
  /\ UNCHANGED <<row, want, page, sent, given, codeVars, recoveryVars, historyVars>>

\* INSERT ... ON CONFLICT DO NOTHING RETURNING id.
Insert(f) ==
  LET new == Updated(want[f], sent[f], NoRow, [NoRow EXCEPT !.id = f])
  IN  /\ pc[f] = "insert"
      /\ IF row.id = None
         THEN row' = new /\ stored' = stored \cup KeysIn(new)
         ELSE UNCHANGED <<row, stored>>
      /\ pc' = [pc EXCEPT ![f] = IF row.id = None THEN "write" ELSE "reread"]
      /\ UNCHANGED <<want, page, sent, given, read, codeVars, recoveryVars, missed, replaced>>

\* The concurrent row, against which the payload is validated again.
Reread(f) ==
  /\ pc[f] = "reread"
  /\ read' = [read EXCEPT ![f] = row]
  /\ pc' = [pc EXCEPT ![f] = IF row.id # None /\ Accepted(want[f], sent[f], row)
                             THEN "write" ELSE "stopped"]
  /\ UNCHANGED <<row, want, page, sent, given, codeVars, recoveryVars, historyVars>>

\* The code, in one batch with the update of the row that was read, if any.
Write(f) ==
  LET new == Updated(want[f], sent[f], read[f], row)
  IN  /\ pc[f] = "write"
      /\ IF read[f].id # None /\ row.id = read[f].id
         THEN /\ row' = new
              /\ stored' = stored \cup KeysIn(new)
              /\ replaced' = IF want[f].reset THEN replaced \cup {row.id} ELSE replaced
         ELSE UNCHANGED <<row, stored, replaced>>
      /\ missed' = IF read[f].id # None /\ row.id # read[f].id
                   THEN missed \cup {f} ELSE missed
      /\ code' = [code EXCEPT ![f] = "live"]
      /\ pc' = [pc EXCEPT ![f] = "answered"]
      /\ UNCHANGED <<want, page, sent, given, read, held, tokens, recoveryVars>>

-----------------------------------------------------------------------------
(* Revocation and recovery.                                                *)

\* DELETE /authorizations/:authId reads the row and deletes it by an id that is
\* never used again: the delete alone decides.
Revoke ==
  /\ row.id # None
  /\ row' = NoRow
  /\ UNCHANGED <<flowVars, codeVars, recoveryVars, historyVars>>

\* PUT /authorization/:clientId/encryption-key: the row is read ...
ReadToRecover(r) ==
  /\ rpc[r] = "idle"
  /\ row.id # None /\ row.mode \in {"none", "symmetric"}
  /\ rpc' = [rpc EXCEPT ![r] = "update"]
  /\ rid' = [rid EXCEPT ![r] = row.id]
  /\ UNCHANGED <<row, flowVars, codeVars, historyVars>>

\* ... and given the recovered key by id.
Recover(r) ==
  /\ rpc[r] = "update"
  /\ rpc' = [rpc EXCEPT ![r] = "done"]
  /\ IF row.id = rid[r]
     THEN /\ row' = [row EXCEPT !.sym = r, !.asym = None, !.mode = "symmetric"]
          /\ stored' = stored \cup {r}
          /\ replaced' = replaced \cup {row.id}
     ELSE UNCHANGED <<row, stored, replaced>>
  /\ UNCHANGED <<flowVars, codeVars, rid, missed>>

-----------------------------------------------------------------------------
(* The code (oauth-store.ts).                                              *)

ConsumedBug(c) == c

\* DELETE ... RETURNING leaves no row, expired or not.
Consumed(c) == "gone"

\* consumeAuthorizationCode, called by the authorization_code grant and by the
\* FedCM exchange before they check anything else.
Consume(f) ==
  /\ code[f] \in {"live", "expired"}
  /\ code' = [code EXCEPT ![f] = Consumed(code[f])]
  /\ held' = IF code[f] = "live" THEN [held EXCEPT ![f] = 1] ELSE held
  /\ UNCHANGED <<row, flowVars, tokens, recoveryVars, historyVars>>

\* buildTokenResponseFromAuthorizationCode: the batch that stores the tokens.
WriteTokens(f) ==
  /\ held[f] > 0
  /\ held' = [held EXCEPT ![f] = 0]
  /\ tokens' = [tokens EXCEPT ![f] = @ + 1]
  /\ UNCHANGED <<row, flowVars, code, recoveryVars, historyVars>>

\* A check of the grant fails, or the worker dies: the code is spent.
Refuse(f) ==
  /\ held[f] > 0
  /\ held' = [held EXCEPT ![f] = 0]
  /\ UNCHANGED <<row, flowVars, code, tokens, recoveryVars, historyVars>>

Expire(f) ==
  /\ code[f] = "live"
  /\ code' = [code EXCEPT ![f] = "expired"]
  /\ UNCHANGED <<row, flowVars, held, tokens, recoveryVars, historyVars>>

\* cleanupExpiredOAuthStorage, and getAuthorizationCode of an expired code.
CleanUp(f) ==
  /\ code[f] = "expired"
  /\ code' = [code EXCEPT ![f] = "gone"]
  /\ UNCHANGED <<row, flowVars, held, tokens, recoveryVars, historyVars>>

-----------------------------------------------------------------------------
Step(f) ==
  \/ Open(f) \/ Prompt(f) \/ Unlock(f) \/ Authorize(f)
  \/ Deliver(f) \/ Finalize(f) \/ Assertion(f) \/ Stop(f)
  \/ Read(f) \/ Insert(f) \/ Reread(f) \/ Write(f)

CodeStep(f) ==
  Consume(f) \/ WriteTokens(f) \/ Refuse(f) \/ Expire(f) \/ CleanUp(f)

Next ==
  \/ \E f \in Flows : Step(f)
  \/ \E f \in Exchanged : CodeStep(f)
  \/ \E r \in Recoverers : ReadToRecover(r) \/ Recover(r)
  \/ Revoke

Spec == Init /\ [][Next]_vars

-----------------------------------------------------------------------------
(* Properties.                                                             *)

\* The key an application is handed was stored in an authorization row, so
\* that a later sign-in can hand it over again; unless the user revoked the
\* application while this flow was under way.  The page decides from one read
\* and the server from another, and neither sees what the other decided.
DeliveredWasStored ==
  \A f \in Flows :
    pc[f] = "done" /\ given[f] # None => given[f] \in stored \/ f \in missed

\* The row a finished flow worked on.
RowOf(f) == IF read[f].id = None THEN f ELSE read[f].id

\* A flow that asked for no reset, and whose page had not read another row.
Plain(f) ==
  /\ pc[f] = "done" /\ given[f] # None /\ ~want[f].reset
  /\ page[f].id \in {None, RowOf(f)}

\* Flows that race for the first authorization end with one key: on a row that
\* began with a key, and whose key nobody has reset or recovered, every flow
\* hands over the same key.  (A flow that missed its row handed over the same.)
OneKeyPerRow ==
  \A f, g \in Flows :
    /\ Plain(f) /\ Plain(g) /\ RowOf(f) = RowOf(g)
    /\ RowOf(f) \notin replaced
    /\ sent[RowOf(f)] # Nothing
    => given[f] = given[g]

\* The key of an application is kept, and is one.
KeyStoredOnce == DeliveredWasStored /\ OneKeyPerRow

\* A code yields tokens at most once, whichever endpoint it is taken to and
\* however many requests carry it, and it is gone before it yields them.
CodeUsedOnce ==
  \A f \in Flows : /\ tokens[f] + held[f] <= 1
                   /\ tokens[f] + held[f] = 1 => code[f] = "gone"
=============================================================================
