------------------------- MODULE SignatureRequests -------------------------
(***************************************************************************)
(* Signature requests of one identity and its signing key:                 *)
(*   ave-server/src/routes/signing.ts       create, list, sign, deny, poll *)
(*   ave-server/src/routes/signing-keys.ts  create and rotate the key      *)
(*   ave-server/src/db/schema.ts            signingKeys, signatureRequests *)
(*                                                                         *)
(* Each handler reads, decides, and then writes by id in a statement of    *)
(* its own, whatever the row says by then.  A poll is a GET: its read may  *)
(* come from a replica that lags, which is the same as having read early.  *)
(*                                                                         *)
(* Abstracted: the payload (a signature is the key it verifies under), the *)
(* ownership and credential checks (a request that fails them changes      *)
(* nothing), the clock (`overdue' grows at any time) and the activity log. *)
(***************************************************************************)
EXTENDS Naturals

CONSTANTS
  Requests,   \* ids of signature requests
  Keys,       \* public keys, each generated for one registration
  Handlers,   \* server handlers that may be in progress at once
  LegacyKey,  \* a public key isValidPublicKey rejects
  None        \* null

ASSUME KeyAssumption ==
  /\ LegacyKey \notin Keys /\ None \notin Keys /\ None # LegacyKey
  /\ None \notin Requests

VARIABLES
  status,     \* status column of each request, "absent" before it exists
  signature,  \* signature column: the key it verifies under
  overdue,    \* requests whose expiresAt has passed
  key,        \* publicKey of the identity's row, None when there is no row
  firstRow,   \* that row is still the one the identity started with
  pc, req, arg,   \* next statement of each handler, its request, its key
  generated,  \* keys that some client has generated
  current,    \* history: keys the identity had while the request was pending
  lostKey,    \* history: a rotation died between its two statements
  contested   \* history: requests resolved while another handler was deciding

requestVars == <<status, signature, overdue>>
keyVars == <<key, firstRow>>
handlerVars == <<pc, req, arg>>
historyVars == <<generated, current, lostKey, contested>>
vars == <<requestVars, keyVars, handlerVars, historyVars>>

Statuses == {"absent", "pending", "signed", "denied", "expired"}
Terminal == {"signed", "denied", "expired"}
Deciding == {"sign", "deny", "expire"}
PCs == {"idle", "addKey", "replaceKey", "deleteKey", "insertKey"} \cup Deciding

TypeOK ==
  /\ status \in [Requests -> Statuses]
  /\ signature \in [Requests -> Keys \cup {None}]
  /\ overdue \subseteq Requests
  /\ key \in Keys \cup {LegacyKey, None}
  /\ firstRow \in BOOLEAN
  /\ pc \in [Handlers -> PCs]
  /\ req \in [Handlers -> Requests \cup {None}]
  /\ arg \in [Handlers -> Keys \cup {None}]
  /\ generated \subseteq Keys
  /\ current \in [Requests -> SUBSET Keys]
  /\ lostKey \in BOOLEAN
  /\ contested \subseteq Requests

Init ==
  /\ status = [q \in Requests |-> "absent"]
  /\ signature = [q \in Requests |-> None]
  /\ overdue = {}
  /\ key \in {LegacyKey, None}
  /\ firstRow = (key # None)
  /\ pc = [h \in Handlers |-> "idle"]
  /\ req = [h \in Handlers |-> None]
  /\ arg = [h \in Handlers |-> None]
  /\ generated = {}
  /\ current = [q \in Requests |-> {}]
  /\ lostKey = FALSE
  /\ contested = {}

----------------------------------------------------------------------------

\* A row whose public key isValidPublicKey accepts.
HasKey == key \in Keys

Start(h, op, q, k) ==
  /\ pc[h] = "idle"
  /\ pc' = [pc EXCEPT ![h] = op]
  /\ req' = [req EXCEPT ![h] = q]
  /\ arg' = [arg EXCEPT ![h] = k]

Finish(h) ==
  /\ pc' = [pc EXCEPT ![h] = "idle"]
  /\ req' = [req EXCEPT ![h] = None]
  /\ arg' = [arg EXCEPT ![h] = None]

\* Handlers that have read request q as pending and will write its status.
DecidingOn(q) == {h \in Handlers : pc[h] \in Deciding /\ req[h] = q}

\* What signing and denying require of the row they read; the -Bug forms
\* are faults the properties below must notice.
OpenBug(q) == status[q] # "absent"
Open(q) == status[q] = "pending"

VerifiesBug(k) == k \in Keys
Verifies(k) == k = key

StatusAfter(op) ==
  CASE op = "sign" -> "signed" [] op = "deny" -> "denied" [] op = "expire" -> "expired"

\* A pending request remembers the keys the identity has had since.
Remember(k) ==
  current' = [q \in Requests |->
                IF status[q] = "pending" THEN current[q] \cup {k} ELSE current[q]]

----------------------------------------------------------------------------
(* Requests.                                                               *)

(* An app asks for a signature: the identity must have a key.  The demo    *)
(* endpoint does not look.  The key read here goes into the answer only.   *)
Create(q, demo) ==
  /\ status[q] = "absent"
  /\ demo \/ HasKey
  /\ status' = [status EXCEPT ![q] = "pending"]
  /\ current' = [current EXCEPT ![q] = {key} \cap Keys]
  /\ UNCHANGED <<signature, overdue, keyVars, handlerVars, generated, lostKey, contested>>

(* The user's client posts a signature made with key k: the request, the   *)
(* identity and its key are read in one statement.                         *)
ReadToSign(h, q, k) ==
  /\ k \in generated
  /\ Open(q) /\ q \notin overdue
  /\ HasKey /\ Verifies(k)
  /\ Start(h, "sign", q, k)
  /\ UNCHANGED <<requestVars, keyVars, historyVars>>

ReadToDeny(h, q) ==
  /\ Open(q)
  /\ Start(h, "deny", q, None)
  /\ UNCHANGED <<requestVars, keyVars, historyVars>>

(* The app polls: a request that is pending and overdue is marked expired. *)
ReadToExpire(h, q) ==
  /\ Open(q) /\ q \in overdue
  /\ Start(h, "expire", q, None)
  /\ UNCHANGED <<requestVars, keyVars, historyVars>>

\* UPDATE signature_requests SET ... WHERE id = ?
Resolve(h, op) ==
  /\ pc[h] = op
  /\ status' = [status EXCEPT ![req[h]] = StatusAfter(op)]
  /\ contested' = contested \cup {q \in {req[h]} : DecidingOn(q) # {h}}
  /\ Finish(h)
  /\ UNCHANGED <<overdue, keyVars, generated, current, lostKey>>

Sign(h) ==
  /\ Resolve(h, "sign")
  /\ signature' = [signature EXCEPT ![req[h]] = arg[h]]

Deny(h) == Resolve(h, "deny") /\ UNCHANGED signature

MarkExpired(h) == Resolve(h, "expire") /\ UNCHANGED signature

\* A request's expiresAt passes.
PassDeadline(q) ==
  /\ status[q] # "absent" /\ q \notin overdue
  /\ overdue' = overdue \cup {q}
  /\ UNCHANGED <<status, signature, keyVars, handlerVars, historyVars>>

----------------------------------------------------------------------------
(* The signing key.                                                        *)

(* Create a key: a valid one must not exist; an invalid one is replaced in *)
(* its row, otherwise a row is inserted.                                   *)
ReadToAddKey(h, k) ==
  /\ k \notin generated
  /\ ~HasKey
  /\ generated' = generated \cup {k}
  /\ Start(h, IF key = LegacyKey THEN "replaceKey" ELSE "addKey", None, k)
  /\ UNCHANGED <<requestVars, keyVars, current, lostKey, contested>>

\* UPDATE signing_keys ... WHERE id = the row that was read.
ReplaceKey(h) ==
  /\ pc[h] = "replaceKey"
  /\ IF firstRow THEN key' = arg[h] /\ Remember(arg[h]) ELSE UNCHANGED <<key, current>>
  /\ Finish(h)
  /\ UNCHANGED <<requestVars, firstRow, generated, lostKey, contested>>

\* INSERT: identity_id is unique, so it fails when there is a row.
InsertRow(k) ==
  IF key = None
  THEN key' = k /\ Remember(k)
  ELSE UNCHANGED <<key, current>>

AddKey(h) ==
  /\ pc[h] = "addKey"
  /\ InsertRow(arg[h])
  /\ Finish(h)
  /\ UNCHANGED <<requestVars, firstRow, generated, lostKey, contested>>

(* Rotate: DELETE by identity, then INSERT.                                *)
StartRotation(h, k) ==
  /\ k \notin generated
  /\ generated' = generated \cup {k}
  /\ Start(h, "deleteKey", None, k)
  /\ UNCHANGED <<requestVars, keyVars, current, lostKey, contested>>

DeleteKeyBug(h) ==   \* looks at the new key only after the old one is gone
  /\ pc[h] = "deleteKey"
  /\ key' = None
  /\ firstRow' = FALSE
  /\ pc' = [pc EXCEPT ![h] = "idle"]
  /\ UNCHANGED <<requestVars, req, arg, historyVars>>

DeleteKey(h) ==
  /\ pc[h] = "deleteKey"
  /\ key' = None
  /\ firstRow' = FALSE
  /\ pc' = [pc EXCEPT ![h] = "insertKey"]
  /\ UNCHANGED <<requestVars, req, arg, historyVars>>

InsertKey(h) ==
  /\ pc[h] = "insertKey"
  /\ InsertRow(arg[h])
  /\ Finish(h)
  /\ UNCHANGED <<requestVars, firstRow, generated, lostKey, contested>>

Crash(h) ==
  /\ pc[h] # "idle"
  /\ lostKey' = (lostKey \/ pc[h] = "insertKey")
  /\ Finish(h)
  /\ UNCHANGED <<requestVars, keyVars, generated, current, contested>>

----------------------------------------------------------------------------

Next ==
  \/ \E q \in Requests, demo \in BOOLEAN : Create(q, demo)
  \/ \E q \in Requests : PassDeadline(q)
  \/ \E h \in Handlers :
       \/ \E q \in Requests, k \in Keys : ReadToSign(h, q, k)
       \/ \E q \in Requests : ReadToDeny(h, q) \/ ReadToExpire(h, q)
       \/ \E k \in Keys : ReadToAddKey(h, k) \/ StartRotation(h, k)
       \/ Sign(h) \/ Deny(h) \/ MarkExpired(h)
       \/ ReplaceKey(h) \/ AddKey(h) \/ DeleteKey(h) \/ InsertKey(h)
       \/ Crash(h)

Spec == Init /\ [][Next]_vars

----------------------------------------------------------------------------
(* Properties.                                                             *)

(* A resolution is overturned only by a handler that was already deciding  *)
(* when it was made: while nobody is deciding, a signed, denied or expired *)
(* request stays what it is (status checks of signing.ts 166, 243, 388).   *)
Settled(q, s) == status[q] = s /\ DecidingOn(q) = {}
QuietResolutionFinal ==
  [][\A q \in Requests, s \in Terminal : Settled(q, s) => Settled(q, s)']_vars

(* A signature beside a status other than signed is the trace of a race,   *)
(* and a signed request always has its signature (signing.ts 190-198 sets  *)
(* both columns, 248-255 and 388-393 only the status).                     *)
SignatureMatchesStatus ==
  \A q \in Requests :
    /\ status[q] = "signed" => signature[q] # None
    /\ signature[q] # None /\ status[q] # "signed" => q \in contested

(* A request is signed with a key the identity had while it was pending,   *)
(* whatever rotations went on meanwhile (signing.ts 171-183).              *)
SignedWithKeyOfItsTime ==
  \A q \in Requests : signature[q] # None => signature[q] \in current[q]

(* Once an identity has a key it is without one only while a rotation is  *)
(* between its two statements, or after one died there: no race of         *)
(* creations and rotations loses it (signing-keys.ts 82-87, 117-118).      *)
KeyAccounted == HasKey \/ lostKey \/ \E h \in Handlers : pc[h] = "insertKey"
KeyKept == [][KeyAccounted => KeyAccounted']_vars

(* "Present only when `status' is `signed'" (signing-endpoints.mdx 109).   *)
SignatureOnlyWhenSigned ==
  \A q \in Requests : signature[q] # None => status[q] = "signed"

============================================================================
