------------------------------ MODULE MasterKeys ----------------------------
(***************************************************************************)
(* The master key of whoever is signed in to one browser:                  *)
(*   ave-web .../surfaces/web/lib/crypto.ts   where a browser keeps it     *)
(*   ave-web .../surfaces/web/stores/auth.ts  init, login, logout          *)
(*   ave-web .../login/components/*.svelte, register/+page.svelte          *)
(*   lib/master-key-unlock.ts, passkey-setup.ts, app-key-recovery.ts       *)
(*   AuthorizeFlow.svelte, Security.svelte, surfaces/business              *)
(*                                                                         *)
(* The browser has one place for a master key, one mark that a key is      *)
(* there, and one session cookie; each tab remembers an account and        *)
(* perhaps a key.  A stored key does not say whose it is, so a key is      *)
(* named by its account here, and what a key encrypts is stored by the     *)
(* server for the account of the cookie.                                   *)
(*                                                                         *)
(* Abstracted: IndexedDB and its localStorage fallback are one place, and  *)
(* its transactions take effect in order; a failed request leaves all as   *)
(* it is.                                                                  *)
(***************************************************************************)
EXTENDS FiniteSets

CONSTANTS
  Accounts,
  Tabs,
  Apart,    \* whether an account signs in only where all others have signed out
  None      \* no account, no key

VARIABLES
  cookie,   \* the account of the session cookie
  stored,   \* the key in IndexedDB
  mark,     \* localStorage says that a key is there (hasMasterKey)
  signed,   \* the account each tab shows
  memory,   \* the key in each tab's auth store
  pc,       \* what each tab waits for
  who,      \* the account it is signing in
  key,      \* the key it has in its hands
  known,    \* accounts that exist
  backup,   \* server: the key each account's recovery codes open
  prf,      \* server: the key each account's passkey opens
  wrapped,  \* server: accounts with the keys their data is encrypted with
  unclean   \* history: accounts that were signed in and have not signed out

browserVars == <<cookie, stored, mark>>
tabVars == <<signed, memory, pc, who, key>>
serverVars == <<known, backup, prf, wrapped>>
vars == <<browserVars, tabVars, serverVars, unclean>>

Maybe == Accounts \cup {None}

TypeOK ==
  /\ cookie \in Maybe /\ stored \in Maybe /\ mark \in BOOLEAN
  /\ signed \in [Tabs -> Maybe] /\ memory \in [Tabs -> Maybe]
  /\ pc \in [Tabs -> {"closed", "ready", "answered", "locked", "entering", "backup", "prf", "data"}]
  /\ who \in [Tabs -> Maybe] /\ key \in [Tabs -> Maybe]
  /\ known \subseteq Accounts
  /\ backup \in [Accounts -> Maybe] /\ prf \in [Accounts -> Maybe]
  /\ wrapped \subseteq Accounts \X Accounts
  /\ unclean \subseteq Accounts

Init ==
  /\ cookie = None /\ stored = None /\ mark = FALSE
  /\ signed = [t \in Tabs |-> None] /\ memory = [t \in Tabs |-> None]
  /\ pc = [t \in Tabs |-> "closed"]
  /\ who = [t \in Tabs |-> None] /\ key = [t \in Tabs |-> None]
  /\ known \in SUBSET Accounts
  /\ backup \in [Accounts -> Maybe] /\ prf \in [Accounts -> Maybe]
  /\ \A a \in Accounts : backup[a] \in {None, a} /\ prf[a] \in {None, a}
                         /\ (a \notin known => backup[a] = None /\ prf[a] = None)
  /\ wrapped = {}
  /\ unclean = {}

-----------------------------------------------------------------------------
(* crypto.ts.                                                              *)

StoreMasterKey(k) == stored' = k /\ mark' = TRUE

\* loadMasterKey marks what it finds.
LoadMasterKey == mark' = (mark \/ stored # None)

ClearedBug(k) == k

\* What clearMasterKey leaves.
Cleared(k) == None

\* resolveActiveMasterKey: memory wins over storage, and repairs it.
Active(t) == IF memory[t] # None THEN memory[t] ELSE stored

-----------------------------------------------------------------------------
(* Signing in.                                                             *)

Joins(a) ==
  /\ Apart => unclean \subseteq {a}
  /\ unclean' = unclean \cup {a}

\* auth.init, on every page load: the session of the cookie, the stored key.
Load(t) ==
  /\ signed' = [signed EXCEPT ![t] = cookie]
  /\ memory' = [memory EXCEPT ![t] = IF cookie = None THEN None ELSE stored]
  /\ pc' = [pc EXCEPT ![t] = "ready"]
  /\ who' = [who EXCEPT ![t] = None]
  /\ key' = [key EXCEPT ![t] = None]
  /\ IF cookie = None THEN UNCHANGED mark ELSE LoadMasterKey
  /\ unclean' = unclean \cup ({cookie} \ {None})
  /\ UNCHANGED <<cookie, stored, serverVars>>

Close(t) ==
  /\ pc[t] # "closed"
  /\ pc' = [pc EXCEPT ![t] = "closed"]
  /\ signed' = [signed EXCEPT ![t] = None]
  /\ memory' = [memory EXCEPT ![t] = None]
  /\ who' = [who EXCEPT ![t] = None]
  /\ key' = [key EXCEPT ![t] = None]
  /\ UNCHANGED <<browserVars, serverVars, unclean>>

\* The server answers POST /login/passkey with a session for a.
PasskeyAnswer(t, a) ==
  /\ pc[t] = "ready" /\ signed[t] = None /\ a \in known
  /\ cookie' = a
  /\ pc' = [pc EXCEPT ![t] = "answered"]
  /\ who' = [who EXCEPT ![t] = a]
  /\ Joins(a)
  /\ UNCHANGED <<stored, mark, signed, memory, key, serverVars>>

\* auth.login without a key.
EnterKeyless(t, a) ==
  /\ signed' = [signed EXCEPT ![t] = a]
  /\ memory' = [memory EXCEPT ![t] = None]
  /\ pc' = [pc EXCEPT ![t] = "ready"]
  /\ who' = [who EXCEPT ![t] = None]

\* handlePasskeyLogin: with a key marked as present, that is all.
HasKey(t) ==
  /\ pc[t] = "answered" /\ mark
  /\ EnterKeyless(t, who[t])
  /\ UNCHANGED <<browserVars, key, serverVars, unclean>>

\* Otherwise the passkey may open the key the server keeps for it.
OpenWithPasskey(t) ==
  /\ pc[t] = "answered" /\ ~mark /\ prf[who[t]] # None
  /\ key' = [key EXCEPT ![t] = prf[who[t]]]
  /\ StoreMasterKey(prf[who[t]])
  /\ pc' = [pc EXCEPT ![t] = "entering"]
  /\ UNCHANGED <<cookie, signed, memory, who, serverVars, unclean>>

\* Otherwise a recovery code is asked for.
AskForCode(t) ==
  /\ pc[t] = "answered" /\ ~mark
  /\ pc' = [pc EXCEPT ![t] = "locked"]
  /\ UNCHANGED <<browserVars, signed, memory, who, key, serverVars, unclean>>

\* LoginTrustCode after a passkey: recover-key, and the passkey may be given
\* the key for the next time.
RecoverWithCode(t) ==
  LET k == backup[who[t]]
  IN  /\ pc[t] = "locked" /\ k # None
      /\ key' = [key EXCEPT ![t] = k]
      /\ StoreMasterKey(k)
      /\ prf' \in {prf, IF cookie = who[t] THEN [prf EXCEPT ![who[t]] = k] ELSE prf}
      /\ pc' = [pc EXCEPT ![t] = "entering"]
      /\ UNCHANGED <<cookie, signed, memory, who, known, backup, wrapped, unclean>>

\* LoginTrustCode alone: trust-code, whose backup may open or not; the demo
\* login never brings a key.
CodeAnswer(t, a) ==
  /\ pc[t] = "ready" /\ signed[t] = None /\ a \in known
  /\ cookie' = a
  /\ Joins(a)
  /\ \/ /\ backup[a] # None
        /\ key' = [key EXCEPT ![t] = backup[a]]
        /\ StoreMasterKey(backup[a])
        /\ pc' = [pc EXCEPT ![t] = "entering"]
        /\ who' = [who EXCEPT ![t] = a]
        /\ UNCHANGED <<signed, memory>>
     \/ EnterKeyless(t, a) /\ UNCHANGED <<stored, mark, key>>
  /\ UNCHANGED serverVars

\* completeRegistration: a new account brings a new key, and its passkey may
\* open it.
Register(t, a) ==
  /\ pc[t] = "ready" /\ signed[t] = None /\ a \notin known
  /\ known' = known \cup {a}
  /\ prf' \in {prf, [prf EXCEPT ![a] = a]}
  /\ cookie' = a
  /\ key' = [key EXCEPT ![t] = a]
  /\ who' = [who EXCEPT ![t] = a]
  /\ pc' = [pc EXCEPT ![t] = "entering"]
  /\ Joins(a)
  /\ UNCHANGED <<stored, mark, signed, memory, backup, wrapped>>

\* auth.login with a key stores it once more.
Enter(t) ==
  /\ pc[t] = "entering"
  /\ StoreMasterKey(key[t])
  /\ signed' = [signed EXCEPT ![t] = who[t]]
  /\ memory' = [memory EXCEPT ![t] = key[t]]
  /\ pc' = [pc EXCEPT ![t] = "ready"]
  /\ who' = [who EXCEPT ![t] = None]
  /\ key' = [key EXCEPT ![t] = None]
  /\ UNCHANGED <<cookie, serverVars, unclean>>

\* A signed-in tab obtains the key from a device that approves the request
\* for this account (setMasterKey) ...
UnlockFromDevice(t) ==
  /\ pc[t] = "ready" /\ signed[t] # None
  /\ StoreMasterKey(signed[t])
  /\ memory' = [memory EXCEPT ![t] = signed[t]]
  /\ UNCHANGED <<cookie, signed, pc, who, key, serverVars, unclean>>

\* ... from a passkey of the session's account ...
UnlockWithPasskey(t) ==
  /\ pc[t] = "ready" /\ signed[t] # None
  /\ cookie # None /\ prf[cookie] # None
  /\ StoreMasterKey(prf[cookie])
  /\ UNCHANGED <<cookie, tabVars, serverVars, unclean>>

\* ... or from a recovery code of this account.
UnlockWithCode(t) ==
  /\ pc[t] = "ready" /\ signed[t] # None
  /\ backup[signed[t]] # None
  /\ StoreMasterKey(backup[signed[t]])
  /\ UNCHANGED <<cookie, tabVars, serverVars, unclean>>

-----------------------------------------------------------------------------
(* Signing out.                                                            *)

Others(t) == ({signed[u] : u \in Tabs \ {t}} \cup {who[u] : u \in Tabs \ {t}}) \ {None}

\* auth.logout: the request may fail, and the rest is done all the same.
Logout(t) ==
  /\ pc[t] = "ready" /\ signed[t] # None
  /\ cookie' \in {cookie, None}
  /\ stored' = Cleared(stored) /\ mark' = FALSE
  /\ signed' = [signed EXCEPT ![t] = None]
  /\ memory' = [memory EXCEPT ![t] = None]
  /\ unclean' = Others(t)
  /\ UNCHANGED <<pc, who, key, serverVars>>

\* The session expires or is ended on another device; the tabs do not know.
SessionEnds ==
  /\ cookie # None
  /\ cookie' = None
  /\ UNCHANGED <<stored, mark, tabVars, serverVars, unclean>>

-----------------------------------------------------------------------------
(* Using the key.                                                          *)

\* finalizeRecoveryCodes, setUpPasskeyForCurrentDevice, and the signing and
\* identity keys, take the stored key ...
TakeStored(t) ==
  /\ pc[t] = "ready" /\ signed[t] # None /\ stored # None
  /\ LoadMasterKey
  /\ key' = [key EXCEPT ![t] = stored]
  /\ \E use \in {"backup", "prf", "data"} : pc' = [pc EXCEPT ![t] = use]
  /\ UNCHANGED <<cookie, stored, signed, memory, who, serverVars, unclean>>

\* ... handleAuthorize and recoverAppKey the active one.
TakeActive(t) ==
  /\ pc[t] = "ready" /\ signed[t] # None /\ Active(t) # None
  /\ StoreMasterKey(Active(t))
  /\ key' = [key EXCEPT ![t] = Active(t)]
  /\ pc' = [pc EXCEPT ![t] = "data"]
  /\ UNCHANGED <<cookie, signed, memory, who, serverVars, unclean>>

\* The request: the server acts for the account of the cookie ...
Sent(t) ==
  /\ pc' = [pc EXCEPT ![t] = "ready"]
  /\ key' = [key EXCEPT ![t] = None]
  /\ UNCHANGED <<browserVars, signed, memory, who, known, unclean>>

SendBackup(t) ==
  /\ pc[t] = "backup"
  /\ backup' = IF cookie # None THEN [backup EXCEPT ![cookie] = key[t]] ELSE backup
  /\ Sent(t)
  /\ UNCHANGED <<prf, wrapped>>

SendPrf(t) ==
  /\ pc[t] = "prf"
  /\ prf' = IF cookie # None THEN [prf EXCEPT ![cookie] = key[t]] ELSE prf
  /\ Sent(t)
  /\ UNCHANGED <<backup, wrapped>>

\* ... and refuses data of an identity that is not the account's.
SendData(t) ==
  /\ pc[t] = "data"
  /\ wrapped' = IF cookie = signed[t] THEN wrapped \cup {<<cookie, key[t]>>} ELSE wrapped
  /\ Sent(t)
  /\ UNCHANGED <<backup, prf>>

-----------------------------------------------------------------------------
TabStep(t) ==
  \/ Load(t) \/ Close(t) \/ HasKey(t) \/ OpenWithPasskey(t) \/ AskForCode(t)
  \/ RecoverWithCode(t) \/ Enter(t) \/ UnlockFromDevice(t) \/ UnlockWithPasskey(t)
  \/ UnlockWithCode(t) \/ Logout(t)
  \/ TakeStored(t) \/ TakeActive(t) \/ SendBackup(t) \/ SendPrf(t) \/ SendData(t)

Next ==
  \/ \E t \in Tabs : TabStep(t)
  \/ \E t \in Tabs, a \in Accounts : PasskeyAnswer(t, a) \/ CodeAnswer(t, a) \/ Register(t, a)
  \/ SessionEnds

Spec == Init /\ [][Next]_vars

-----------------------------------------------------------------------------
(* Properties.                                                             *)

OwnKey(a, k) == k \in {None, a}

KeysAreOwn ==
  /\ \A a \in Accounts : OwnKey(a, backup[a]) /\ OwnKey(a, prf[a])
  /\ \A w \in wrapped : OwnKey(w[1], w[2])

\* What the server keeps for an account is encrypted with that account's key,
\* in any order of signing in and out, of losing the session and of working in
\* several tabs, as long as no account signs in to a browser where another one
\* has not signed out everywhere.
KeysStayApart == Apart => KeysAreOwn

\* "Great, we have the master key - complete login normally"
\* (LoginMethods.svelte:85): the key that is there is the account's.
LoginFindsOwnKey ==
  \A t \in Tabs : pc[t] = "answered" /\ mark => OwnKey(who[t], stored)
=============================================================================
