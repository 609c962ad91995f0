---------------------------- MODULE SignInSessions --------------------------
(***************************************************************************)
(* Passkeys, sign-in challenges, devices and sessions of one account:      *)
(*   ave-server/src/routes/login/start.ts, passkey.ts, shared.ts,          *)
(*     logout.ts, lib/challenge-store.ts, middleware/auth.ts,              *)
(*     routes/devices.ts (revoke, clean-up), routes/security.ts    *)
(*     (add and delete a passkey), db/schema.ts (the foreign keys)         *)
(*   ave-web .../lib/webauthn.ts, passkey-setup.ts, sections/Security.svelte *)
(*                                                                         *)
(* All sign-ins come from one browser, whose fingerprint finds its device  *)
(* row again.  A login request makes at most one session and inserts at    *)
(* most one device, which bear its name.                                   *)
(*                                                                         *)
(* Abstracted: rate limits, signatures and origins only refuse (Fail);     *)
(* the demo login is a login without challenge and passkey, and a code     *)
(* login (RecoveryCodes) and an approved one (LoginApproval) end in the    *)
(* same two steps.                                                         *)
(***************************************************************************)
EXTENDS Naturals, FiniteSets

CONSTANTS
  Challenges,  \* sign-ins started, each with its challenge
  Logins,      \* POST /login/passkey (or /demo), also their sessions, devices
  Calls,    \* authenticated requests, each of one session
  OldKeys,     \* the passkeys of the account at the start
  NewKeys,     \* registrations of a passkey, each with its credential
  Deletions,   \* DELETE /passkeys/:passkeyId
  None         \* nobody

\* Nobody is none of the logins; an account comes with a passkey (Registration).
ASSUME SessionsAssumption == None \notin Logins /\ OldKeys # {}

VARIABLES
  challenge,   \* ephemeral_challenges: none, live, expired or gone
  passkeys,    \* the rows of passkeys
  device,      \* the rows of devices: none, seen, stale or gone
  session,     \* the rows of sessions: none, live, ending, expired or gone
  on,          \* the device of each session
  lpc, chal, lkey, ldev,  \* each login: next step, challenge, passkey, device
  qpc, qof,    \* each request: next step, session it has read
  regChal,     \* the challenge of the account's passkey registration
  npc,         \* each registration
  dpc, dkey,   \* each deletion: next step, passkey
  crossed,     \* history: a deletion took effect while another was decided
  condemned    \* the devices a clean-up has read as stale

Keys == OldKeys \cup NewKeys
loginVars == <<lpc, chal, lkey, ldev>>
rowVars == <<device, session, on>>
requestVars == <<qpc, qof>>
keyVars == <<regChal, npc, dpc, dkey, crossed>>
vars == <<challenge, passkeys, rowVars, loginVars, requestVars, keyVars, condemned>>

TypeOK ==
  /\ challenge \in [Challenges -> {"none", "live", "expired", "gone"}]
  /\ passkeys \subseteq Keys
  /\ device \in [Logins -> {"none", "seen", "stale", "gone"}]
  /\ session \in [Logins -> {"none", "live", "ending", "expired", "gone"}]
  /\ on \in [Logins -> Logins \cup {None}]
  /\ lpc \in [Logins -> {"idle", "passkey", "spend", "device", "update", "insert", "session", "done", "failed"}]
  /\ chal \in [Logins -> Challenges \cup {None}]
  /\ lkey \in [Logins -> Keys \cup {None}]
  /\ ldev \in [Logins -> Logins \cup {None}]
  /\ qpc \in [Calls -> {"idle", "renew", "done"}]
  /\ qof \in [Calls -> Logins \cup {None}]
  /\ regChal \in NewKeys \cup {None}
  /\ npc \in [NewKeys -> {"idle", "asked", "spend", "insert", "done", "failed"}]
  /\ dpc \in [Deletions -> {"idle", "count", "delete", "done"}]
  /\ dkey \in [Deletions -> Keys \cup {None}]
  /\ crossed \in BOOLEAN
  /\ condemned \subseteq Logins

Init ==
  /\ challenge = [c \in Challenges |-> "none"]
  /\ passkeys = OldKeys
  /\ device = [l \in Logins |-> "none"]
  /\ session = [l \in Logins |-> "none"]
  /\ on = [l \in Logins |-> None]
  /\ lpc = [l \in Logins |-> "idle"]
  /\ chal = [l \in Logins |-> None]
  /\ lkey = [l \in Logins |-> None]
  /\ ldev = [l \in Logins |-> None]
  /\ qpc = [q \in Calls |-> "idle"]
  /\ qof = [q \in Calls |-> None]
  /\ regChal = None
  /\ npc = [k \in NewKeys |-> "idle"]
  /\ dpc = [d \in Deletions |-> "idle"]
  /\ dkey = [d \in Deletions |-> None]
  /\ crossed = FALSE
  /\ condemned = {}

Valid(l) == session[l] \in {"live", "ending"}
SomeSession == \E l \in Logins : Valid(l)

-----------------------------------------------------------------------------
(* Challenges (challenge-store.ts).                                        *)

\* POST /login/start stores a challenge if the account has a passkey.
Start(c) ==
  /\ challenge[c] = "none" /\ passkeys # {}
  /\ challenge' = [challenge EXCEPT ![c] = "live"]
  /\ UNCHANGED <<passkeys, rowVars, loginVars, requestVars, keyVars, condemned>>

\* Ten minutes pass.
Lapse(c) ==
  /\ challenge[c] = "live"
  /\ challenge' = [challenge EXCEPT ![c] = "expired"]
  /\ UNCHANGED <<passkeys, rowVars, loginVars, requestVars, keyVars, condemned>>

\* cleanupExpiredChallenges.
Sweep(c) ==
  /\ challenge[c] = "expired"
  /\ challenge' = [challenge EXCEPT ![c] = "gone"]
  /\ UNCHANGED <<passkeys, rowVars, loginVars, requestVars, keyVars, condemned>>

\* deleteChallenge.
Spent(ch, c) == [ch EXCEPT ![c] = "gone"]

-----------------------------------------------------------------------------
(* POST /login/passkey.                                                    *)

\* getChallenge, which deletes an expired one.  A browser may send its
\* assertion twice: two logins with one challenge.
Present(l) ==
  /\ lpc[l] = "idle"
  /\ \E c \in Challenges, k \in Keys :
       /\ challenge[c] # "none"
       /\ chal' = [chal EXCEPT ![l] = c]
       /\ lkey' = [lkey EXCEPT ![l] = k]
       /\ challenge' = IF challenge[c] = "expired" THEN Spent(challenge, c) ELSE challenge
       /\ lpc' = [lpc EXCEPT ![l] = IF challenge[c] = "live" THEN "passkey" ELSE "failed"]
  /\ UNCHANGED <<passkeys, rowVars, ldev, requestVars, keyVars, condemned>>

\* The passkey's row, and the verification against what has been read; the
\* update of its counter that follows changes nothing another step reads.
Verify(l) ==
  /\ lpc[l] = "passkey"
  /\ lpc' = [lpc EXCEPT ![l] = IF lkey[l] \in passkeys THEN "spend" ELSE "failed"]
  /\ UNCHANGED <<challenge, passkeys, rowVars, chal, lkey, ldev, requestVars, keyVars, condemned>>

Spend(l) ==
  /\ lpc[l] = "spend"
  /\ challenge' = Spent(challenge, chal[l])
  /\ lpc' = [lpc EXCEPT ![l] = "device"]
  /\ UNCHANGED <<passkeys, rowVars, chal, lkey, ldev, requestVars, keyVars, condemned>>

\* getOrCreateDevice looks for the fingerprint ...
FindDevice(l) ==
  /\ lpc[l] = "device"
  /\ \/ \E d \in Logins : /\ device[d] \in {"seen", "stale"}
                          /\ ldev' = [ldev EXCEPT ![l] = d]
                          /\ lpc' = [lpc EXCEPT ![l] = "update"]
     \/ /\ \A d \in Logins : device[d] \notin {"seen", "stale"}
        /\ lpc' = [lpc EXCEPT ![l] = "insert"]
        /\ UNCHANGED ldev
  /\ UNCHANGED <<challenge, passkeys, rowVars, chal, lkey, requestVars, keyVars, condemned>>

\* ... and updates the row it found by id ...
UpdateDevice(l) ==
  /\ lpc[l] = "update"
  /\ device' = [d \in Logins |-> IF d = ldev[l] /\ device[d] = "stale" THEN "seen" ELSE device[d]]
  /\ lpc' = [lpc EXCEPT ![l] = "session"]
  /\ UNCHANGED <<challenge, passkeys, session, on, chal, lkey, ldev, requestVars, keyVars, condemned>>

\* ... or inserts one.
InsertDevice(l) ==
  /\ lpc[l] = "insert"
  /\ device' = [device EXCEPT ![l] = "seen"]
  /\ ldev' = [ldev EXCEPT ![l] = l]
  /\ lpc' = [lpc EXCEPT ![l] = "session"]
  /\ UNCHANGED <<challenge, passkeys, session, on, chal, lkey, requestVars, keyVars, condemned>>

\* The foreign key of sessions.device_id.
Referenced(d) == device[d] \in {"seen", "stale"}

InsertSession(l) ==
  /\ lpc[l] = "session"
  /\ IF Referenced(ldev[l])
     THEN /\ session' = [session EXCEPT ![l] = "live"]
          /\ on' = [on EXCEPT ![l] = ldev[l]]
          /\ lpc' = [lpc EXCEPT ![l] = "done"]
     ELSE /\ lpc' = [lpc EXCEPT ![l] = "failed"]
          /\ UNCHANGED <<session, on>>
  /\ UNCHANGED <<challenge, passkeys, device, chal, lkey, ldev, requestVars, keyVars, condemned>>

\* A refusal, or the worker dies.
Fail(l) ==
  /\ lpc[l] \notin {"idle", "done", "failed"}
  /\ lpc' = [lpc EXCEPT ![l] = "failed"]
  /\ UNCHANGED <<challenge, passkeys, rowVars, chal, lkey, ldev, requestVars, keyVars, condemned>>

-----------------------------------------------------------------------------
(* Sessions (middleware/auth.ts, logout.ts).                               *)

\* Twenty-three days pass, then seven more.
Age(l) ==
  /\ Valid(l)
  /\ session' = [session EXCEPT ![l] = IF @ = "live" THEN "ending" ELSE "expired"]
  /\ UNCHANGED <<challenge, passkeys, device, on, loginVars, requestVars, keyVars, condemned>>

\* authMiddleware reads the session with its device; one that is about to end
\* is renewed, and a device not seen lately is marked in the background.
Authenticate(q) ==
  /\ qpc[q] = "idle"
  /\ \E l \in Logins :
       /\ Valid(l)
       /\ qof' = [qof EXCEPT ![q] = l]
       /\ qpc' = [qpc EXCEPT ![q] = IF session[l] = "ending" THEN "renew" ELSE "done"]
       /\ device' = [d \in Logins |-> IF d = on[l] /\ device[d] = "stale" THEN "seen" ELSE device[d]]
  /\ UNCHANGED <<challenge, passkeys, session, on, loginVars, keyVars, condemned>>

\* The renewal, by id: a session that has expired since lives again.
Renew(q) ==
  /\ qpc[q] = "renew"
  /\ session' = [l \in Logins |-> IF l = qof[q] /\ session[l] # "gone" THEN "live" ELSE session[l]]
  /\ qpc' = [qpc EXCEPT ![q] = "done"]
  /\ UNCHANGED <<challenge, passkeys, device, on, loginVars, qof, keyVars, condemned>>

\* POST /logout.
Logout(l) ==
  /\ session[l] \notin {"none", "gone"}
  /\ session' = [session EXCEPT ![l] = "gone"]
  /\ UNCHANGED <<challenge, passkeys, device, on, loginVars, requestVars, keyVars, condemned>>

-----------------------------------------------------------------------------
(* Devices.                                                                *)

CascadedBug(ds) == session

\* ON DELETE CASCADE of sessions.device_id.
Cascaded(ds) == [l \in Logins |-> IF on[l] \in ds THEN "gone" ELSE session[l]]

\* DELETE /devices/:deviceId, from a session on another device.
RevokeDevice(d) ==
  /\ device[d] \in {"seen", "stale"}
  /\ \E l \in Logins : Valid(l) /\ on[l] # d
  /\ device' = [device EXCEPT ![d] = "gone"]
  /\ session' = Cascaded({d})
  /\ UNCHANGED <<challenge, passkeys, on, loginVars, requestVars, keyVars, condemned>>

\* Fourteen days without a request from it.
Neglect(d) ==
  /\ device[d] = "seen"
  /\ device' = [device EXCEPT ![d] = "stale"]
  /\ UNCHANGED <<challenge, passkeys, session, on, loginVars, requestVars, keyVars, condemned>>

\* cleanupStaleDevices reads the stale devices ...
ReadStale ==
  /\ condemned = {}
  /\ condemned' = {d \in Logins : device[d] = "stale"}
  /\ condemned' # {}
  /\ UNCHANGED <<challenge, passkeys, rowVars, loginVars, requestVars, keyVars>>

\* ... and deletes what it has read by id.
RemoveStale ==
  /\ condemned # {}
  /\ device' = [d \in Logins |-> IF d \in condemned THEN "gone" ELSE device[d]]
  /\ session' = Cascaded(condemned)
  /\ condemned' = {}
  /\ UNCHANGED <<challenge, passkeys, on, loginVars, requestVars, keyVars>>

-----------------------------------------------------------------------------
(* Passkeys of a signed-in user (security.ts, passkey-setup.ts).           *)

\* POST /passkeys/register: one challenge per account, the last one asked for.
AskToRegister(k) ==
  /\ npc[k] = "idle" /\ SomeSession
  /\ regChal' = k
  /\ npc' = [npc EXCEPT ![k] = "asked"]
  /\ UNCHANGED <<challenge, passkeys, rowVars, loginVars, requestVars, dpc, dkey, crossed, condemned>>

\* POST /passkeys/complete, up to the verification.
Complete(k) ==
  /\ npc[k] = "asked"
  /\ npc' = [npc EXCEPT ![k] = IF regChal = k THEN "spend" ELSE "failed"]
  /\ UNCHANGED <<challenge, passkeys, rowVars, loginVars, requestVars, regChal, dpc, dkey, crossed, condemned>>

\* deleteChallenge takes whatever challenge the account has by now.
SpendRegistration(k) ==
  /\ npc[k] = "spend"
  /\ regChal' = None
  /\ npc' = [npc EXCEPT ![k] = "insert"]
  /\ UNCHANGED <<challenge, passkeys, rowVars, loginVars, requestVars, dpc, dkey, crossed, condemned>>

InsertPasskey(k) ==
  /\ npc[k] = "insert"
  /\ passkeys' = passkeys \cup {k}
  /\ npc' = [npc EXCEPT ![k] = "done"]
  /\ UNCHANGED <<challenge, rowVars, loginVars, requestVars, regChal, dpc, dkey, crossed, condemned>>

\* DELETE /passkeys/:passkeyId: the passkey is found ...
FindPasskey(d) ==
  /\ dpc[d] = "idle" /\ SomeSession
  /\ \E k \in passkeys : dkey' = [dkey EXCEPT ![d] = k]
  /\ dpc' = [dpc EXCEPT ![d] = "count"]
  /\ UNCHANGED <<challenge, passkeys, rowVars, loginVars, requestVars, regChal, npc, crossed, condemned>>

OnlyBug(n) == n = 0

\* "Cannot delete your only passkey".
Only(n) == n = 1

\* ... the passkeys are counted ...
CountPasskeys(d) ==
  /\ dpc[d] = "count"
  /\ dpc' = [dpc EXCEPT ![d] = IF Only(Cardinality(passkeys)) THEN "done" ELSE "delete"]
  /\ UNCHANGED <<challenge, passkeys, rowVars, loginVars, requestVars, regChal, npc, dkey, crossed, condemned>>

\* ... and it is deleted by id.
DeletePasskey(d) ==
  /\ dpc[d] = "delete"
  /\ passkeys' = passkeys \ {dkey[d]}
  /\ crossed' = (crossed \/ \E e \in Deletions \ {d} : dpc[e] \in {"count", "delete"})
  /\ dpc' = [dpc EXCEPT ![d] = "done"]
  /\ UNCHANGED <<challenge, rowVars, loginVars, requestVars, regChal, npc, dkey, condemned>>

-----------------------------------------------------------------------------
LoginStep(l) ==
  \/ Present(l) \/ Verify(l) \/ Spend(l) \/ FindDevice(l) \/ UpdateDevice(l)
  \/ InsertDevice(l) \/ InsertSession(l) \/ Fail(l) \/ Age(l) \/ Logout(l)
  \/ RevokeDevice(l) \/ Neglect(l)

Next ==
  \/ \E c \in Challenges : Start(c) \/ Lapse(c) \/ Sweep(c)
  \/ \E l \in Logins : LoginStep(l)
  \/ \E q \in Calls : Authenticate(q) \/ Renew(q)
  \/ \E k \in NewKeys : AskToRegister(k) \/ Complete(k) \/ SpendRegistration(k) \/ InsertPasskey(k)
  \/ \E d \in Deletions : FindPasskey(d) \/ CountPasskeys(d) \/ DeletePasskey(d)
  \/ ReadStale \/ RemoveStale

Spec == Init /\ [][Next]_vars

-----------------------------------------------------------------------------
(* Properties.                                                             *)

\* The account keeps a passkey, whatever is registered and deleted, unless two
\* deletions were decided at the same time: the count and the delete are two
\* statements.
LastPasskeyKept == passkeys = {} => crossed

\* A session that is answered for stands on a device the account still has:
\* removing a device, by the user or by the clean-up, ends its sessions, also
\* the one a sign-in that had found the device is about to make; and a sign-in
\* that has made one has spent its challenge.
SessionGrounded ==
  \A l \in Logins :
    /\ Valid(l) => device[on[l]] \in {"seen", "stale"}
    /\ session[l] # "none" => challenge[chal[l]] = "gone"

=============================================================================
