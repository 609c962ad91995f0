# Ave: a verification project

Ave is an identity platform: a server on Cloudflare Workers (`ave-server`, Hono
over a D1/SQLite database, with Durable Objects and a queue), a web application
(`ave-web`), and SDKs that applications embed (`sdks/`). This directory holds
TLA+ models of the parts whose correctness depends on the order of steps, the
TLC configurations that check them on small instances, and TLAPS proofs of what
matters most for every instance.

## The execution model

Every module of the server rests on the same reading of the code.

* A request handler is a sequence of database statements with an `await`
  between them. A statement, or one `db.batch([...])`, is atomic; nothing else is.
  There are no other transactions (`ave-server/src/routes/register.ts:167` says so).
  One statement is one action; the actions of different handlers interleave freely.
* What a handler decides from values it has read is decided in the step that
  reads them: no `await` separates the two.
* A worker can die between two statements, and any statement can throw: a handler
  may stop at each of its control points and leave what it has written.
* A guarded write (`UPDATE ... WHERE status = 'pending' RETURNING`) is one step
  whose guard is evaluated in it. A write by id after a separate read is two.
* GET and HEAD requests may read a replica that lags
  (`ave-server/src/index.ts:359-374`, `first-unconstrained`); the others read the primary.

## Inventory

Server sources are under `ave-server/src`, pages under `ave-web/src`.

| Component | Source | State | Operations | What is hard | What makes it correct |
|---|---|---|---|---|---|
| Refresh-token rotation | `routes/oauth/refresh-token.ts`, `shared.ts` | `oauth_refresh_tokens` | refresh, reuse marking, expiry | claim and insert are two statements; replay; crash in between | one live token per family, linear rotation |
| Authorization and app keys | `AuthorizeFlow.svelte`, `routes/oauth/authorize.ts`, `account.ts`, `authorization-code.ts`, `fedcm.ts`, `app-key-recovery.ts`, `lib/app-e2ee-auth.ts` | authorization row, codes, app key | bootstrap, authorize, revoke, exchange, recover, reset | the page and the server decide from different reads of one row | an application's key is stored and is one; a code yields once |
| Connector delegation | `connect/+page.svelte`, `authorize.ts`, `token-exchange.ts`, `account.ts` | grants, tokens | connect, exchange, revoke | read-then-write without uniqueness | a delegated token stays within what was connected |
| Login approval | `routes/login/approval.ts`, `routes/devices.ts`, `lib/websocket.ts` | `login_requests` | request, approve, deny, poll, notify | approve races deny; overlapping polls; lost answer | one session, one decision |
| Web socket of a page | `stores/websocket.ts`, `stores/auth.ts`, `LoginWaiting.svelte`, `lib/websocket.ts`, `index.ts` | one socket, timers, registry | connect, disconnect, reconnect, admit, notify | late handlers of earlier sockets; ends that learn of a break at different times | a page that is to listen does, for its account |
| Sign-in, sessions, devices, passkeys | `routes/login/*.ts`, `middleware/auth.ts`, `routes/devices.ts`, `routes/security.ts`, `lib/challenge-store.ts` | challenges, passkeys, devices, sessions | start, verify, renew, log out, revoke, clean up | count and delete are two statements; a device goes while a session is made on it | the last passkey stays; a session stands on a device |
| Recovery codes | `routes/security.ts`, `login/recovery.ts`, `Security.svelte`, `LoginTrustCode.svelte` | codes, backup | issue, replace, seal, claim, open | two requests and two tables that nothing ties together | a code counts once and opens the backup |
| Master keys in the browser | `lib/crypto.ts`, `stores/auth.ts`, login and register pages | stored key, mark, tabs | store, load, clear, obtain, use | a stored key does not say whose it is | what an account stores is encrypted with its key |
| Registration | `routes/register.ts`, `register/+page.svelte` | all account rows | start, complete, repeat, roll back | six inserts and a best-effort rollback | an account whole or not at all |
| Identities, e-mail | `routes/identities.ts`, `lib/email-verification.ts` | identities, code, pending address | create, primary, delete; mail, verify, remove | decisions from rows read before; a failed mail puts back old fields | one primary identity; a verified address was mailed |
| Pictures | `routes/upload.ts`, `Identity.svelte` | bucket, columns | upload, remove, colour | the old object goes before the row changes | a row names an object that is there |
| Enterprise SSO | `routes/business-sso.ts`, `business-saml.ts`, `organizations.ts`, `lib/business-sso-login.ts` | domains, connections, accounts | verify, enter, edit, test, sign in | a DNS lookup between two statements; a rename writes the list of domains back; an edit while a user is away | sign-in over a tested connection, from a domain proved or entered |
| Organization members and keys | `routes/business.ts`, `business-keys.ts`, `organizations.ts`, `lib/business.ts` | members, keyrings, grants | add, patch, remove, rotate | stale roles; a rotation is five statements | owners yield to owners; only members hold keys |
| Portal tables | `routes/apps.ts`, `routes/apps/*.ts`, `organizations.ts`, `lib/dev-portal.ts` | workspaces, applications, resources | first use, create, patch, move, delete | a PATCH writes every column as it was read | a lone edit stands; workspaces have owners |
| Developer and organization consoles | `routes/devs/+page.svelte`, `routes/business/+page.svelte`, their `lib` | what is shown, query cache, flags | load, switch, save, delete, sign | what is open is read again after each wait | a page at rest shows what the server has |
| Rate limits | `lib/rate-limit.ts` | buckets in a Durable Object, buckets in a worker's memory | check, count, fall back, refuse | several rules at once; an answer that is lost falls back to memory, where a read and a write have an await between them | a quota per window; a closed rule admits by the object alone |
| Signing pages | `sign/+page.svelte`, `lib/signing.ts`, `lib/storage-access.ts` | what each page or popup shows, its one call | open, ask for storage, set up a key, sign, deny, tell the host | two pages decide about one request; a popup inherits the host | the host hears what the server keeps |
| Signing | `routes/signing.ts`, `signing-keys.ts` | `signature_requests`, `signing_keys` | create, sign, deny, poll, rotate | terminal statuses overwritten by unguarded writes | a signature only on a signed request |
| Client session | `sdks/ave-sdk/src/session.ts`, `session-storage.ts` | snapshot, storage, tabs | hydrate, refresh, sign out, peer events | tabs race over one rotating token | the stored token is good |
| Sign-in in an application's browser | `sdks/ave-sdk/src/client.ts` | bundles in session storage, monitor | start, finish, check | several starts, tabs, reloads over one entry | a code goes with its own verifier |
| Embedded surfaces | `sdks/ave-embed/src/embed.js` | frames, popups, listeners | open, answer, close, time out | every listener hears every answer; windows are shared by name | one result, of its own; somebody is told |
| Not modelled | see below | | | | |

## Layout

| Module | Models | Uses | Run | Proofs |
|---|---|---|---|---|
| `RefreshTokens` | the refresh-token grant | refines `TokenLineage` | `refresh_tokens` | `RefreshTokensProofs` |
| `TokenLineage` | what a family of refresh tokens promises | | (property of `refresh_tokens`) | the refinement, in `RefreshTokensProofs` |
| `SignatureRequests` | signature requests and the signing key | | `signature_requests` | `SignatureRequestsProofs` |
| `ClientSession` | the SDK's session in the tabs of one browser | the token endpoint as `RefreshTokens` shows itself | `client_session`, `client_key`, `client_sign_out` | `ClientSessionProofs` |
| `OrganizationMembers` | membership of one organization | | `org_members` | `OrganizationKeysProofs`, carried over by `OrganizationMembersProofs` |
| `Portal` | workspaces, applications and resources | | `org_members` | `OrganizationMembersProofs` |
| `DeveloperConsole` | the page at `devs` and its query cache | the tables of `Portal`, seen as versions | `org_members` | `OrganizationMembersProofs` |
| `OrganizationConsole` | the page at `business` and its panels | | `org_members` | `OrganizationMembersProofs` |
| `OrganizationKeys` | keyrings and grants | composes `OrganizationMembers` (`INSTANCE`) | `org_keys` | `OrganizationKeysProofs` |
| `LoginApproval` | a login request, its page and its approvers | | `login_approval`, `login_sign_in` | `LoginApprovalProofs` |
| `Authorizations` | the authorize page, the row, codes and keys | | `access` | `AccessProofs` |
| `Connectors` | grants to act for a user, and their tokens | | `access` | `AccessProofs` |
| `SsoConnections` | domains, connections, sign-ins of a company | | `access` | `AccessProofs` |
| `EmbedHost` | a page with surfaces of Ave in it | | `access` | `AccessProofs` |
| `BrowserSignIn` | the tabs of an application that signs in by redirect | | `access` | `AccessProofs` |
| `SignInSessions` | challenges, passkeys, devices, sessions | | `accounts` | `AccountsProofs` |
| `RecoveryCodes` | recovery codes and the backup | | `accounts`, `codes_keyless` | `AccountsProofs` |
| `MasterKeys` | the master key of a browser | | `accounts` | `AccountsProofs` |
| `Registration` | making an account | | `accounts` | `AccountsProofs` |
| `Identities` | the identities of an account | | `accounts` | `AccountsProofs` |
| `EmailVerification` | the address of an identity | | `accounts` | `AccountsProofs` |
| `Pictures` | avatars and banners | | `accounts` | `AccountsProofs` |
| `Sockets` | the web socket of a page, both ends | | `accounts` | `AccountsProofs` |
| `SigningPage` | the page that signs, and its host | composes `SignatureRequests` (`INSTANCE`) | `accounts` | `AccountsProofs` (instantiates `SignatureRequestsProofs`) |
| `RateLimits` | the limits that routes enforce | | `accounts` | `AccountsProofs` |

`MCAccess`, `MCAccounts` and `MCOrganizationMembers` check several modules in one
run. Their parts share no state: the first state chooses one (`part`), the variables of
the others are `None` throughout, and a property speaks of its part only. The
state space is the sum of those of the parts, not their product.

`MC<Module>.tla` and its `.cfg` files make the instances for TLC. A definition
whose name ends in `Bug` is the definition before which it stands with a
plausible mistake in it; the specification does not use it. It is there to be
substituted, to see that a property notices.

Conventions. Each handler has a program counter (`pc`, `ppc`, `apc`, `kpc`)
naming the statement it will execute next, and locals for what it has read.
Taking the handler to a statement and executing it are thereby two steps, and
every other handler may act in between. `Crash`, `Abandon`, `GiveUp` and `Die`
stop a handler at any statement. A request that the code refuses before it
writes is one that is abandoned; such refusals are not modelled one by one.
Variables marked *history* record what happened so that a property can speak of
it; no guard of a modelled statement reads them (`failures` of `LoginApproval`
is a bound, and does).

## The models

### Refresh tokens

State: the rows of `oauth_refresh_tokens`, column by column (`family`, `parent`,
`revoked`, `reused`, `expired`, the organization columns), and the handlers. A
request walks `Present` (lines 50-82 of `refresh-token.ts`: the row, the
application and the identity, and the early returns decided from them),
`ReadContext` (97-143), `Claim` (170-178, one guarded update), `Insert` (211-227,
one batch), or leaves through `MarkFamily` (`shared.ts` 77-82) or
`RetireExpired` (77-82). `Issue` is the first row of a family, written by the
code exchange.

`refresh_tokens` (3 tokens, 2 requests): a family has one token the grant would
accept; a token is exchanged once; a family is marked as reused only if one of its
tokens was presented twice; a refresh does not turn a sign-in into an enterprise
SSO one; a session does not end without a reason that the model names; and the
grant implements `TokenLineage`. Three tokens are one family with two
rotations, or two families one of which rotates, and two requests are enough for
every race over one row; a third request can only repeat what one of the two
did.

`MCRefreshTokensReuse.cfg` is a counterexample that is kept with the project: the marking of a family
updates the rows that exist at that moment; a rotation claimed before it inserts a
live successor after it, so that the lineage is not dead, as the documentation has it.

### Signing

State: the status and signature of each request, the identity's one key row, the
handlers of sign, deny, the expiring poll, the creation of a key and its rotation
(a DELETE and an INSERT). Signing, denying and expiring check `pending` on a row they
read and write by id later. `firstRow` distinguishes the row that `ReplaceKey`
updates by id from one inserted since.

`signature_requests` (2 requests, 3 keys, 3 handlers): a resolution is overturned only
by a handler that was deciding already; a signature next to another status
than *signed* is always the trace of such a race; a signature verifies under a key the
identity had while the request was pending; an identity does not lose its key to
a race. Three handlers are two that decide and one that rotates.
`MCSignatureRequestsRace.cfg` shows that the documented "present only when `status` is
`signed`" fails when sign and deny overlap.

### Client session

State: the snapshot in `localStorage`, the tabs with their memory, status and
refresh, the Web Lock, the messages of the `BroadcastChannel` and, as an
environment, the server's tokens. The storage adapter completes its work before
its promise is returned, so what a method does between two messages, lock
grants or network answers is one step. `Exchange` is what `RefreshTokens` shows of
itself: a live token is exchanged, or refused for its age (`Refused`; its row is retired) or by
the sign-in policy of its organization (`Denied`, a 403: it stays live, and the tab keeps its session); any
other ends its family. `orphans` are requests whose tab no longer waits, but which the server still serves.

`Locks = FALSE` is a browser without `navigator.locks`; the properties that need the
lock say so. `RefusalSignsOut` is whether the text of a refusal is one
`shouldSignOutAfterRefreshError` recognises. The texts the server sends do not contain
what it looks for, so the code as it stands is `FALSE`; the runs take `TRUE`,
under which more is lost, and the theorems hold for both. `disturbed` records that one of the four
things that can cost a session has happened: a lost answer, a sign-out, a write of a
snapshot another tab has replaced, and a token that was too old.

`client_session` (2 tabs, 3 tokens, no app keys, one message per channel before the
user must wait): the stored token is one the server takes, or its
replacement is on its way, unless the session was disturbed; nobody is signed out
spontaneously; when everything is quiet the tabs agree with storage. Two tabs make each
race over one token; three tokens are two rotations in a row, or a rotation and a new
sign-in. `MaxInbox` is a bound: the user does nothing in a tab whose messages
wait, but a refresh under way may still post one more, so that the bound never
blocks it.

`client_key`: a refresh that was sent before `setAppKeyBase64` writes back the snapshot it
started from, and the key is gone. `client_sign_out`: an answer that
arrives after sign-out stores a session again.

### Organization members

State: role and status of each identity's membership row, and handlers of the business
routes (add, patch, remove), of the workspace routes on the same rows (invite, set a
role) and of the membership an SSO login ensures. `as` and `seen` are the actor's
and the target's roles as they were read; `promoted` marks an identity that was made an
owner while an admin was deciding about it.

Each identity belongs to a different user; the roles below admin are one role,
`member`, since the rules do not tell them apart. Scopes, signing authority, SSO
enforcement and signed actions only refuse requests. The creation of an organization
is in `Portal`; the deletion of an identity is not modelled here.

`org_members` (founder and two others, 2 handlers, all five operations): an owner
ceases to be one only at the request of an owner, or through one of the named gaps (a
decision by an admin made before the promotion; the workspace routes, which do not
compare roles); only owners make owners. Two handlers are a decision and what
overtakes it. The last owner may demote or remove itself, and no document promises otherwise:
an organization can come to have no active owner or admin, and then nothing
more happens. That is why deadlock is not checked here.

### Organization keys

Composes `OrganizationMembers`: every statement of a member handler is a step of this
module as well, and the second statement of a removal revokes the identity's grants. A
rotation is `Begin`, `Validate`, `MarkRotated`, `RevokeGrants`, `InsertKeyring`,
`InsertGrants`; a creation goes from `Validate` to the inserts. The four *trouble* variables say
what has gone wrong and has not been made good since: an identity removed while
a request had it validated (`overtaken`), a removal that died half-way (`unrevoked`), a
rotation that died half-way (`unfinished`), and a keyring rotated before its own grants
were inserted (`early`). Where none of these applies, the invariants are absolute.

`org_keys` (founder and one other, removal and SSO login as the member
operations, 2 keyrings, 2 key handlers): only members hold keys; nobody holds a rotated
keyring; a rotated keyring has a successor, one epoch later. `Ops` leaves the other
member operations out here, since only removal and activation change who is a member and
`org_members` runs them all. The run keeps the founder out of the grants
(`GrantsForOthers`): any target behaves like the other identity, who can be removed
and return.

`MCOrganizationKeysRewrap.cfg`: a rotation that has validated a member who is then removed still grants
the new key, which the guide says it does not.

### Login approval

One request stands for all, since requests share nothing. The page polls every two
seconds without waiting for its last answer, and listens on a socket. The
status endpoint is modelled at each of its awaits: `Read`, `Claim` (the update that
consumes the approval), `InsertSession`, `Delete`, or `Refuse` and `Forget`. `replica` is a
status that a lagging replica may show: a GET reads it or the row. This
allows a page to see a new status and then an old one, which bookmarks mostly
prevent; the properties do not depend on it.

`mode` separates the page that wants to sign in from the page that wants only the
encryption key. `TokenInAnswer` is `FALSE`: neither the endpoint nor the socket puts the
session token in what it sends (a cookie is set), while the page reads
`data.sessionToken`. What the page's parent does with an error is `Unmount`. An
approval with an empty `encryptedMasterKey` is not modelled.

`login_approval` (2 approvers, 2 polls, 1 failure): one session per request; the
first decision stands, and whatever the page has comes from it; an approval reaches the page
that wants the key, unless the one answer that carries it is lost; and, under fairness, a
page that waits learns how its request ended. Two polls are what overlapping needs,
and a failed poll may be the one that claimed the approval. `login_sign_in`: a
page that waits to sign in never does by itself (see the finding).

### Access: authorizations, connectors, enterprise SSO, embedded surfaces, redirects

`Authorizations`. A flow is one opening of the authorize page. `Open` is the bootstrap
read, after which the page chooses the application's key from the row it saw (`page`); `Read`,
the insert or the update by id, and the code are the statements of the handler,
which decides from the row *it* read (`read`). Exchange, FedCM, revocation, key recovery and reset
meet on the same row. Two flows, one recovery and one exchanged code are enough for each pair
of writers over one row. `missed` marks a flow whose row the user revoked while it was
under way: its update by id finds nothing, and the key it hands over is stored nowhere.

`Connectors`. There is no unique index over active grants, so a connection inserts a second
one when it has read before another's insert. `DelegatedWithinConsent` holds nonetheless: a token carries
scopes that were connected on the very grant it names, and not of a grant that was revoked
before the exchange began. Two connections, one exchange, two scopes.

`SsoConnections`. The list of domains has two writers. A verification reads the organization, asks DNS and writes the
whole list; the PATCH of an organization (`organizations.ts:278-301`) writes the list it is given, with no proof of
anything (`EnterDomains`), or else the list it read (`ReadOrganization`, `WriteOrganization`). Any two of these that overlap
can lose or bring back a domain (`crossed`); `leftOut` are the domains a given list has dropped, and `entered` those it brought. The
developer console only ever sends its cached list with one domain added (`devs/+page.svelte:634`); the server takes any.
So a connection can be tied to a domain that nobody proved, although the refusal at `business-sso.ts:298` reads
"Verify this domain before attaching SSO": TLC refutes `AttachedDomainsProved` under `MCAccessUnproved.cfg`,
which is not among the runs. What is true is `SsoLoginGrounded`, in every interleaving: who was signed in by a connection of a domain
has one that DNS proved or an administrator entered. A sign-in leaves for the provider and finds, when it is
back, a connection that may be another. That a verified domain stays listed, unless a given list left it out, and
that one address has one account hold while no two requests overlap (`LoneRequestsKeep`).

`EmbedHost`. Every surface is a frame, a popup or both, and every listener of the page hears every answer.
Windows have names, so two popups of one purpose are one window. Things the code
does and the properties leave room for: `onClose` is called after a success as well
(`sdks/ave-embed/README.md:215` and `embed-sdk.mdx:73` say otherwise); a mounted frame has no `resolved` guard and
repeats what it hears; a connector popup has no timer, so that nobody may be told when it is
closed, and `SomebodyIsTold` excludes it; an exchange that another open surface started spends the code.
`Posted` bounds the answers that wait in a window.

`BrowserSignIn`. The bundle of a start is one entry per flow in the tab's storage; a second start replaces
it. A code goes with the verifier it was made for because the state is compared first. An HTTP 429
makes the quick flow forget its entry, although the comment at `client.ts:613` says
that transient errors do not, and the monitor may call `onLoginRequired` after it was stopped; neither
breaks a property here.

`access` checks these five. Where a property says "lone", a history variable records that
requests overlapped, and the property is about the rest: that a single request does what it says
is not obvious in handlers that pass through five tables or two machines.

### Accounts

`SignInSessions`. Login from the challenge to the session, statement by statement, with the cascades of the
foreign keys. A deletion of a device, by the user or by the clean-up, races a sign-in that
has found it and a request that renews a session. `LastPasskeyKept` has one exception, two deletions
that both counted two (`crossed`).

`RecoveryCodes`. The page asks for codes, seals the master key and stores the backup in a second
request. A set whose page nobody disturbed is the whole truth (`LoneSetOpens`). `codes_keyless` is a
finding: a page without the master key replaces the codes first and asks for the key afterwards.

`MasterKeys`. A stored key is named by its account here, which the browser cannot see. `KeysStayApart`
says that nothing is stored for an account under another's key, provided (`Apart`) that no
account signs in while another has not signed out in every tab. Without this the property fails; `MasterKeysLogin.cfg`
keeps the shortest way there.

`Registration`, `Identities`, `EmailVerification`: sequences of single statements; a worker that dies
(`stranded`), two choices of the primary identity at one time (`doubtful`) and mailings that
overlap (`crossed`) are the exceptions that the properties name.

`Pictures`. The object a row names is deleted before the row changes: a request that dies in between
leaves a row that names nothing (`lost`). The page reads which identity is open after each await, so that opening
another one meanwhile sends the avatar, the colour and the fetch to that one; a colour set after an avatar
leaves an old banner object without a row; the picture of a new identity is a `blob:`
URL that is never uploaded.

`Sockets`. Both ends of each socket with their own view of it, the store's one timer and one ping
interval, and the server's registry, over breaks at any time and restarts of the server. A page that is to
listen has a socket or a timer; the registry has every socket that is up and has been read; a page whose
connections did not overlap hears only of its own account, and once. Not claimed, because the code does not do it:
`connect` returns while *any* socket is open, so a page that was approved by a device and has its
request's socket open makes no socket of its own, and the end of `LoginWaiting` disconnects what there is: after such a
sign-in the page hears nothing until it is loaded again. A socket whose close comes while
its session is being read stays in `connectedClients` until the server starts again. The close of an
earlier socket clears the ping of the next (`crossed`).

`SigningPage`. Pages in frames and popups of one host before one request of `SignatureRequests`, whose handlers
run as the server's side of each call: a page takes the call, the handler reads, decides and writes, and the page
resolves it, fails it or is closed while it is on its way. A page without storage access opens a popup, which tells the
host in its place. The death of a server's handler is a lost answer. `Elsewhere` is whatever
other devices do to the request; it begins nothing after the request is resolved. `HostHearsTruth`: the host hears of a signature
with the key it verifies under, one that the identity had while the request was pending; and, unless two were
deciding at once, what it hears is what the server keeps. The popup is closed only while something is on its way
and a page that failed to load is left alone, since neither can tell the host anything.

`RateLimits`. A request brings several rules and asks for each of them side by side. A bucket is a Durable
Object; its answer can be lost after it was counted, and then a rule that is not in `FailClosed` is counted in the memory of
the worker, where the read and the write of a bucket have an await between them (`limitCrossed`). `LimitsHold`: a stretch
of time as long as a window admits at most two quotas (the end of one window and the start of the next), a
closed rule admits by the object alone, and whoever waits as long as it was told finds the window gone. The native limiter is
one that answers as it likes.

### Portal and consoles

`Portal`. A PATCH reads the row, may check another organization, and writes each column it covers, as
asked or as read. `QuietPagesAgree` contains that a row is what was asked for, unless one was written
while another request had read it; the PATCH of an organization writes the logo as read, so that a rename over
the upload of a logo names a deleted object (its list of domains is in `SsoConnections`). `WorkspacesWhole`: the first use of the
portal makes one workspace, with an owner, unless two overlapped or one died between organization and owner.

`DeveloperConsole` and `OrganizationConsole` are the pages before those tables, with every handler split at its awaits
and the query cache in between. `doubtful` records that handlers overlapped, failed or were overtaken
by another admin, until the page is loaded again; a doubtful page starts no handler (a bound, without which its
states say nothing new). At rest and free of doubt, a page shows what the server has. In the code and outside this claim:
creating an application over an open one clears its panels and leaves `appLoading`
set; a role, an invitation or a name is put into whatever workspace is shown after a switch; in the organization page what was signed for
one organization is sent for the one opened meanwhile, for the signed text names none and `detail` is read
again after signing; overlapping loads are shown whatever is selected; the list of organizations is read
again only by bootstrap, so that only its logos are claimed.

### Runs

| Run | Module | Bounds | Distinct states | Time, 2 workers |
|---|---|---|---|---|
| `refresh_tokens` | `MCRefreshTokens` | 3 tokens, 2 requests | see above | under 2 min |
| `signature_requests` | `MCSignatureRequests` | 2 requests, 3 keys, 3 handlers | | under 2 min |
| `client_session` | `MCClientSession` | 2 tabs, 3 tokens | 1.1 million | 1½ min |
| `org_keys` | `MCOrganizationKeys` | 2 identities, 2 keyrings, 2 + 2 handlers | | under 4 min |
| `login_approval` | `MCLoginApproval` | 2 approvers, 2 polls, 1 failure | | under 4 min |
| `org_members` | `MCOrganizationMembers` | 3 identities and 2 handlers; 2 users, 2 requests; 2 workspaces, 2 applications, 2 clicks, 1 change of each row | 1.5 million | 2 min |
| `access` | `MCAccess` | 2 flows; 2 connections, 1 exchange; 2 domains, 2 verifications, 1 update, 1 edit, 2 sign-ins, four of these begun (`FourRequests`); 2 surfaces, 2 codes; 2 tabs, 2 starts, 2 finishes | 0.9 million | 2¾ min |
| `accounts` | `MCAccounts` | 2 of whatever races (logins, deletions, pages, uses, tabs, mailings, uploads, sockets, signing pages, limited requests), 1 of the rest | 1.6 million | 2¼ min |
| `client_key`, `client_sign_out`, `login_sign_in`, `codes_keyless` | | counterexamples on purpose | | seconds |

Two of each actor make every race over one row: what a third does to either of the two, the other does
already. Where a row is written by three kinds of request (an authorization, a picture, an application), the
instance has one or two of each kind.

The signing part has a second page or a second key, not both (`OnePageOrKey`); the limits have one rule of each kind, a
quota of one, a window of three ticks of which a second is two, and a clock that stops at `Horizon` = 4, so that each
window ends once.

In `MCAccounts.cfg` sign-ins, pages, uses, tabs, mailings, uploads and sockets have the same two names, and in
`MCAccess.cfg` domains, surfaces and tabs, verifications and starts, sign-ins and finishes: one permutation then
serves every part as its symmetry. `FourRequests` takes no step once five of the six requests of the organization have begun:
whatever two writers of the list do to each other there is room for, with a sign-in by what they leave.

Deadlock is not checked in the three composed runs: a part stops when each of its requests has run, since a
request runs once and names what it makes. That stopping loses nothing is what their invariants say at rest.


## Fairness

Only `LoginApproval` has a liveness property, under `FairSpec`: weak fairness of
`Expire` (time passes), and for each poll of `Poll` (the interval timer keeps firing until
it is cleared), `Handle` (a worker that does not die runs on; deaths are `Die`, at most
`MaxFailures` of them) and `Receive` (an answer is handled; an answer that never comes is
`TimeOut`, after the 15 seconds of `api.ts`). Nothing is assumed of the approvers, the socket or the
replica. The other modules have no fairness: their handlers may stop at any
statement, and what would follow eventually is nothing the code promises.

## What is proved

Each theorem is for every value of the constants that satisfies the module's `ASSUME`
(null values differ from ids, and the like); none bounds the sets.
All have the same shape: an invariant `IInv` of the initial states, kept by each
action, from which the property follows; temporal steps are one `PTL` leaf each.

* `RefreshTokensProofs`. The invariant is layered. `HandlerInv`: what a handler has in its
  hands exists. `BatonInv`: a family has one baton, its live token or a claim that has not
  inserted yet, so that `AtMostOneLive` is inductive; without it a second claim cannot be
  excluded. `ChainInv`: a claimed token is revoked and has no successor yet, so the row its
  handler inserts is the first and only one.
  `ReplayInv`: two handlers with one token have
  presented it twice, so a handler that is about to mark is in a family that was replayed. On these rest the
  six properties of the run and the refinement of `TokenLineage`: each step of the
  grant is mapped to `Start`, `Take`, `Replace`, `Abandon`, `Revoke` or a stutter.
* `SignatureRequestsProofs`. `DecisionInv`: the request of a deciding handler
  exists, a handler that is signing holds a key of the request's time, and a resolved request
  that somebody is still deciding on is `contested`.
* `ClientSessionProofs`. `Told`: a tab with other tokens than the stored ones has a message
  waiting, and its last message tells it what it needs; `QuietTabsAgree` follows, with or without the
  lock. `LockInv`: while the session is undisturbed, only the holder of the lock has a token
  on its way, and it is the stored one.
* `OrganizationKeysProofs`. `HandlerInformed`: between read and write a handler of the members knows the
  actor's role and the target's; an owner that an admin is about to write is `promoted`. Every step of the
  composition is a step of the members or leaves them alone (`MembersUndisturbed`), and the rest of `IInv`
  follows a rotation and a grant through their statements.
* `OrganizationMembersProofs` is about the parts of `MCOrganizationMembers`. Its members are those of
  `OrganizationKeys` without keyrings, and their theorems carry over.
  * Portal (`PortalInv`). `Making` and `Alone`: unless two creations overlap, the slug that one has chosen stays free until
    it inserts its organization, which has an owner as soon as the creation is past its next statement. `Editing`: the
    row that a PATCH has read is the row it writes over, unless it is `crossed`.
  * Developer console (`DeveloperInv`). Until a page is `doubtful` one handler at most is under way, and `OnItsWay` says for
    each of its steps what it holds and what of the page is already right: the list, what is open, the query cache. A cached
    overview that counts as fresh is what the server has, which is why an application may be shown from the cache at once.
  * Organization console (`ConsoleInv`). The same, and `FlagInv`: whoever set a flag is still there to clear it,
    whatever overlaps or fails.

  The assumptions: a request is no id that is there at the start, a workspace is there, `None` is no version and no id.
* `LoginApprovalProofs`. `KnownInv`: whatever a handler, a message or the page holds of a
  decision took effect before. `ClaimInv`: one poll at most is between the claim and the end.
* `AccountsProofs` takes the ten parts of `MCAccounts` one after the other, each under its own `Spec`.
  * Sign-ins (`SessionInv`): what a login has found on its way is *referenced*, so that a device goes only together with
    the sessions on it. `KeyInv` counts for `LastPasskeyKept`: a deletion that has counted two and met no other still finds two.
  * Recovery codes. `SpentStays`: a code past the claim is not good any more; this needs that
    codes are typed only from a page that shows them (`EnteredShown`) and that such a page inserts no
    more. `QuietRun`: what a page nobody disturbed may rely on after each of its statements, from
    which `LoneSetOpens` follows.
  * Master keys (`MasterKeyInv`): while accounts keep apart, all that is unclean in the browser belongs to one account
    (`OneAccount`), which is why a key that does not say whose it is can be trusted.
  * Registration (`RegInv`): what a request has inserted is there until its own rollback takes it.
  * Identities (`IdentityInv`): a choice or deletion that has met no other finds the rows as it read them.
  * E-mail (`EmailInv`, `MailingInv`): the fields that a failing mailing puts back are the ones that stood before it.
  * Pictures (`PictureInv`): an object is deleted by the one request that is about to write the column.
  * Sockets (`SocketInv`): which ends can be alive together, and that the registry knows a socket by the account it was read for.
  * Signing pages (`SigningInv`): the call of a page agrees with the handler that serves it, and what a page holds or has
    told its host (`Truth`) stays true of the request unless it is contested. The handlers' part is
    `IInv` of `SignatureRequestsProofs`, taken over for one request.
  * Rate limits (`LimitInv`): each allowed check is labelled with the bucket in which it was counted; the windows of two
    labels do not overlap, and the counts in one differ. The checks of a stretch as long as a window fall into two
    windows, with counts from 1 to the quota in each: the injection into this set of twice the quota is the bound.

  The theorems about `MCSpec` put these together: the `...Run` lemmas show that a behavior of `MCAccounts` either is one
  of the part it chose, throughout, or never of that part, so that a part's theorem carries over.
  The assumptions are that `None` and the marks differ from every id, that the kinds of request do not share names,
  that a window and a second are not zero, and that the sets of limited requests and rules are finite: they name
  requests that have happened.
* `AccessProofs` does the same for the five parts of `MCAccess`.
  * Authorizations. `ViewInv`: every row that a page or a handler holds, however old, has only keys that were stored and is,
    until a reset or a recovery, the row its first flow inserted. With it, what a page chose from one read and a handler
    accepted by another must be the same key (`PlainKey`, `ChosenIsIn`), which gives `KeyStoredOnce`. `CodeInv`: a flow
    that has not written its code has none, which gives `CodeUsedOnce`.
  * Connectors (`ConnectorInv`). What an exchange holds was consented on a grant that was not yet revoked when it read it;
    an update that nobody disturbed still finds the row it read.
  * Enterprise SSO (`SsoInv`). `DomainInv` and `ConnectionInv`: what was read of a domain or a connection stays true
    until it is used, since a domain once proved or entered stays so and connections stay tested. `ListStands`: while
    the writers of the list do not overlap, the list one of them has read is still the list. `LoginInv`: a sign-in past the provider has
    such a connection, and past the account an account that is there.
  * Embedded surfaces (`HostInv`). `AnswerInv`: whoever still listens has given no answer and exchanges nothing, and one
    exchange is under way at most. `ToldInv`: who is to be told has a listener with its frame open, or a timer.
    `QueueInv`: a message of success carries a code.
  * Redirects (`BrowserInv`). `BundleInv`: a bundle lies in the tab and under the flow of its start, and starts that
    share the place are `browserCrossed`. `FinishInv`: what a page exchanges was made in its tab, with its own verifier.
    `MonitorInv`: until a monitor has asked, it has one check in flight at most.

  The assumptions: `None` differs from the ids, `Kinds` are the kinds of surface that `embed.js` has, `Codes` and
  `Windows` are numbers. `MCAccess` states them, so that its run evaluates them.

The invariants of these eight modules are proved, `TypeOK` among them, which no run of the first six lists.
Every invariant and every action property that a passing run checks is proved, and in the composed runs as the run states it
(`KeyStoredOnce` and `CodeUsedOnce` of the specification of `Authorizations`, those about owners of `OrganizationMembers`).

A proof that would not go through changed one model. In `Identities` a choice that overlapped no other choice or deletion
was taken to repair a doubtful account. But a creation that had counted no identity makes its own the primary
one, and when it inserts between the two statements of such a choice the account has two. That needs an account which
lost every identity to two deletions, and the instance has one, so that the run could not tell. With two deletions
TLC refuted `PrimaryExact` as it was, and confirms it (1.9 million states) now that `met` records these creations too.

In `Portal` and `Connectors` a set difference of a `SUBSET` was written without parentheses, which TLC and the
prover read in two ways; it is parenthesised now as TLC read it.

Only model-checked: `WaitingEnds`, which needs fairness, and the violations, `KeylessChangesNothing` among them.
The provers have no induction over data; no definition here is recursive.

## What the runs do not show

* The texts, keys, signatures and hashes are atoms: that a signature verifies or
  a token cannot be guessed is assumed.
* Refusals, those of a rate limit included, are abandonments of the request that is refused.
* A `db.batch` is atomic, as D1 says.
* Bounds: the sizes above, `MaxInbox`, `MaxFailures`, `Ops`, `GrantsForOthers`, `Posted`, `Windows`, `Tries`,
  `MaxVersion`, `FourRequests`, and the doubtful pages of the consoles, which start nothing.
  Rows never run out of ids in the code; in a run a handler that needs a fresh one stops.
* Deadlock is checked in `RefreshTokens`, `ClientSession` and `OrganizationKeys`. It is not in the
  others, which really stop: a signing instance when all its requests are resolved and its keys used,
  an organization when nobody is left who can administer it, a login request when it has ended
  and its page is gone, and the parts of the composed runs when each request has run.
* The findings are runs that end with a counterexample on purpose; each is listed
  with the sentence it contradicts in `PROJECT.json`.

## Not modelled

* Access tokens (read by digest until they expire), OIDC metadata, identity encryption keys (one
  statement behind a unique index), token verification and the SDK's helpers: no state that two steps can disturb.
* Background events, audit, push and export: written and never read to decide anything.
* Routing, CORS and the choice of replica, except where a lagging read matters (`LoginApproval`, `Authorizations`).
* The relay of the connector runtime, and the pages that only show and send forms.
* Liveness outside the login approval: the other handlers may stop at any statement, and a page whose request
  never returns waits for its user.

## Plan

The order is by how much of the platform rests on a component. Done: refresh tokens, signing, the client session, members
and keys of organizations, login approval; authorizations, connectors, enterprise SSO; sign-in, recovery,
keys, registration, identities, pictures, sockets, signing pages and limits of an account, with the proofs of all of them; the SDK's redirects and
the embedded surfaces; the portal and its consoles. All of their invariants are proved.

1. Composition: `RefreshTokens` under `ClientSession` in place of `Exchange`, as a second refinement, and `Sockets`
   under `LoginApproval`, whose socket is a subscription that may be lost.
2. An abstract authorization (a code is a permission that is used at most once, for the row it was made from) and
   the refinement by `Authorizations`.
3. Liveness of the SDK's refresh under its lock, once a request has a time limit; until then the lock is held for as
   long as the network likes.
