--------------------------- MODULE ClientSession ---------------------------
(***************************************************************************)
(* The browser session of the SDK, shared by the tabs of one application:  *)
(*   sdks/ave-sdk/src/session.ts          AveSession                       *)
(*   sdks/ave-sdk/src/session-storage.ts  createLocalStorageAdapter        *)
(*   sdks/ave-sdk/src/oauth-token.ts      refreshAccessToken               *)
(*                                                                         *)
(* A tab keeps a snapshot in memory, all tabs share the one in storage, a  *)
(* tab that writes it tells the others over a BroadcastChannel, and a      *)
(* refresh runs under a Web Lock where the browser has them.  The storage  *)
(* adapter does its work before its promise is returned, so what a method  *)
(* does between two messages, lock grants or network answers is one step.  *)
(* The token endpoint is RefreshTokens seen from outside: a live token is  *)
(* exchanged for a new one, or refused for its age or by the organization; *)
(* any other ends its family.                                              *)
(*                                                                         *)
(* Abstracted: a snapshot is its refresh token (each comes with its own    *)
(* access token, JWTs and expiry) and whether it holds an app key; the     *)
(* clock (a refresh may become due at any time); listeners.  An operator   *)
(* in -Bug is a fault the properties must notice.                          *)
(***************************************************************************)
EXTENDS Naturals, Sequences

CONSTANTS
  Tabs,
  Tokens,           \* refresh tokens the server may ever issue
  NoTab, NoSnapshot,
  Refused,          \* the answer of the token endpoint that a token is no good
  Denied,           \* the answer that a good token is of no use for now: 403
  Locks,            \* the browser has navigator.locks
  RefusalSignsOut,  \* the refusal reaches the tab as shouldSignOutAfterRefreshError knows it
  AppKeys,          \* may a snapshot hold an app key? {FALSE} without encryption
  MaxInbox          \* bound: the user does nothing in a tab from which more
                    \* messages wait at another

ASSUME ConstantsAssumption ==
  /\ NoTab \notin Tabs /\ Refused \notin Tokens /\ Denied \notin Tokens \cup {Refused}
  /\ NoSnapshot \notin [tok : Tokens, key : AppKeys]
  /\ FALSE \in AppKeys /\ AppKeys \subseteq BOOLEAN
  /\ Locks \in BOOLEAN /\ RefusalSignsOut \in BOOLEAN
  /\ MaxInbox \in Nat

VARIABLES
  disk,       \* the snapshot in localStorage
  mem,        \* this.snapshot of each tab
  signedIn,   \* tabs whose status is "signedIn"
  open,       \* tabs that exist
  hydrated,   \* tabs whose `hydrated' is set
  step,       \* where each tab's refresh is: "idle", "waiting", "sent", "answered"
  prev,       \* the snapshot it refreshes
  answer,     \* what the server answered
  lock,       \* the tab that holds the refresh lock
  inbox,      \* inbox[r][s]: messages of s that r has not handled, oldest first
  issued,     \* refresh tokens that exist
  accepted,   \* those the server still exchanges
  family,     \* the first token of each token's family
  orphans,    \* tokens in requests whose tab no longer waits for the answer
  disturbed,  \* history: what may cost a session has happened: a lost answer, a
              \* sign-out, a write of an outdated snapshot, a token too old
  forced      \* history: some tab signed out without being asked to

tabVars == <<mem, signedIn, hydrated>>
refreshVars == <<step, prev, answer, lock>>
serverVars == <<issued, accepted, family>>
vars == <<disk, tabVars, open, refreshVars, inbox, serverVars, orphans,
          disturbed, forced>>

Snapshots == [tok : Tokens, key : AppKeys]
Messages == {"session_updated", "session_cleared"}
Replies == Tokens \cup {Refused, Denied}

TypeOK ==
  /\ disk \in Snapshots \cup {NoSnapshot}
  /\ mem \in [Tabs -> Snapshots \cup {NoSnapshot}]
  /\ signedIn \subseteq Tabs /\ open \subseteq Tabs /\ hydrated \subseteq Tabs
  /\ step \in [Tabs -> {"idle", "waiting", "sent", "answered"}]
  /\ prev \in [Tabs -> Snapshots \cup {NoSnapshot}]
  /\ answer \in [Tabs -> Replies]
  /\ lock \in Tabs \cup {NoTab}
  /\ inbox \in [Tabs -> [Tabs -> Seq(Messages)]]
  /\ accepted \subseteq issued /\ issued \subseteq Tokens
  /\ family \in [Tokens -> Tokens]
  /\ orphans \subseteq Tokens
  /\ disturbed \in BOOLEAN /\ forced \in BOOLEAN

Init ==
  /\ disk = NoSnapshot
  /\ mem = [t \in Tabs |-> NoSnapshot]
  /\ signedIn = {} /\ open = {} /\ hydrated = {}
  /\ step = [t \in Tabs |-> "idle"]
  /\ prev = [t \in Tabs |-> NoSnapshot]
  /\ answer = [t \in Tabs |-> Refused]
  /\ lock = NoTab
  /\ inbox = [r \in Tabs |-> [s \in Tabs |-> <<>>]]
  /\ issued = {} /\ accepted = {} /\ family = [k \in Tokens |-> k]
  /\ orphans = {} /\ disturbed = FALSE /\ forced = FALSE

----------------------------------------------------------------------------

SetMem(t, snap) == mem' = [mem EXCEPT ![t] = snap]

\* postMessage: every other open tab will get it; senders keep their order.
Post(t, msg) ==
  inbox' = [r \in Tabs |->
    IF r \in open \ {t} THEN [inbox[r] EXCEPT ![t] = Append(@, msg)]
                        ELSE inbox[r]]

\* The bound.  A refresh may go one beyond it, so that the user cannot keep
\* one from ending.
Room(t, n) == \A r \in open \ {t} : Len(inbox[r][t]) < n
UserRoom(t) == t \in open /\ Room(t, MaxInbox)
RefreshRoom(t) == Room(t, MaxInbox + 1)

\* A snapshot is saved, kept and announced.
Save(t, snap) ==
  /\ disk' = snap
  /\ SetMem(t, snap)
  /\ Post(t, "session_updated")

\* signOut: the session is cleared here, in storage and in the other tabs.
ClearSession(t) ==
  /\ disk' = NoSnapshot
  /\ SetMem(t, NoSnapshot)
  /\ Post(t, "session_cleared")
  /\ signedIn' = signedIn \ {t}
  /\ hydrated' = hydrated \cup {t}

\* What a token response makes of the previous snapshot: the key it brings,
\* or the one there was (snapshotFromTokenResponse).
Merged(tok, key, previous) ==
  [tok |-> tok,
   key |-> key \/ (previous # NoSnapshot /\ previous.key)]

\* A tab takes the stored snapshot over, if there is one.
Adopt(t) ==
  IF disk = NoSnapshot THEN UNCHANGED <<mem, signedIn>>
  ELSE SetMem(t, disk) /\ signedIn' = signedIn \cup {t}

\* The refresh ends and its lock is released.
EndRefresh(t) ==
  /\ step' = [step EXCEPT ![t] = "idle"]
  /\ prev' = [prev EXCEPT ![t] = NoSnapshot]
  /\ answer' = [answer EXCEPT ![t] = Refused]
  /\ lock' = IF lock = t THEN NoTab ELSE lock

----------------------------------------------------------------------------

\* A page of the application is opened.
OpenTab(t) ==
  /\ t \notin open
  /\ open' = open \cup {t}
  /\ UNCHANGED <<disk, tabVars, refreshVars, inbox, serverVars, orphans>>
  /\ UNCHANGED <<disturbed, forced>>

\* It is closed: its memory, its messages and its lock are gone, a request it
\* sent is not.
CloseTab(t) ==
  /\ t \in open
  /\ open' = open \ {t}
  /\ SetMem(t, NoSnapshot)
  /\ signedIn' = signedIn \ {t} /\ hydrated' = hydrated \ {t}
  /\ EndRefresh(t)
  /\ inbox' = [inbox EXCEPT ![t] = [s \in Tabs |-> <<>>]]
  /\ orphans' = IF step[t] = "sent" THEN orphans \cup {prev[t].tok} ELSE orphans
  /\ disturbed' = (disturbed \/ step[t] \in {"sent", "answered"})
  /\ UNCHANGED <<disk, serverVars, forced>>

Hydrate(t) ==
  /\ t \in open \ hydrated
  /\ hydrated' = hydrated \cup {t}
  /\ SetMem(t, disk)
  /\ signedIn' = IF disk = NoSnapshot THEN signedIn \ {t} ELSE signedIn \cup {t}
  /\ UNCHANGED <<disk, open, refreshVars, inbox, serverVars, orphans>>
  /\ UNCHANGED <<disturbed, forced>>

\* setTokensFromResponse: the user has signed in, in this tab.
SignIn(t, tok, key) ==
  /\ UserRoom(t)
  /\ tok \notin issued
  /\ issued' = issued \cup {tok} /\ accepted' = accepted \cup {tok}
  /\ Save(t, Merged(tok, key, mem[t]))
  /\ hydrated' = hydrated \cup {t} /\ signedIn' = signedIn \cup {t}
  /\ UNCHANGED <<open, refreshVars, family, orphans, disturbed, forced>>

\* setAppKeyBase64 writes the tab's snapshot, which may not be the stored one.
SetAppKey(t, key) ==
  /\ UserRoom(t)
  /\ mem[t] # NoSnapshot
  /\ Save(t, [mem[t] EXCEPT !.key = key])
  /\ disturbed' = (disturbed \/ (disk # NoSnapshot /\ disk.tok # mem[t].tok))
  /\ UNCHANGED <<signedIn, hydrated, open, refreshVars, serverVars, orphans>>
  /\ UNCHANGED <<forced>>

SignOut(t) ==
  /\ UserRoom(t)
  /\ ClearSession(t)
  /\ disturbed' = TRUE
  /\ UNCHANGED <<open, refreshVars, serverVars, orphans, forced>>

----------------------------------------------------------------------------

\* ensureFresh: one refresh at a time in a tab; the others join it.
StartRefresh(t) ==
  /\ t \in signedIn /\ mem[t] # NoSnapshot
  /\ step[t] = "idle"
  /\ step' = [step EXCEPT ![t] = "waiting"]
  /\ UNCHANGED <<disk, tabVars, open, prev, answer, lock, inbox, serverVars>>
  /\ UNCHANGED <<orphans, disturbed, forced>>

\* withRefreshLock: without navigator.locks the refresh just runs.
GrantedBug(t) == step[t] = "waiting"
Granted(t) == step[t] = "waiting" /\ (Locks => lock = NoTab)

\* diskFresh: another tab has stored other tokens than this one remembers.
DiskFreshBug(t) == FALSE
DiskFresh(t) == disk # NoSnapshot /\ mem[t] # NoSnapshot /\ disk.tok # mem[t].tok

\* The lock is granted and the stored snapshot is read.  It is taken over,
AdoptStored(t) ==
  /\ Granted(t) /\ DiskFresh(t)
  /\ SetMem(t, Merged(disk.tok, disk.key, mem[t]))
  /\ signedIn' = signedIn \cup {t}
  /\ EndRefresh(t)
  /\ UNCHANGED <<disk, hydrated, open, inbox, serverVars, orphans>>
  /\ UNCHANGED <<disturbed, forced>>

\* or the session has gone in the meantime,
RefreshNothing(t) ==
  /\ Granted(t) /\ mem[t] = NoSnapshot /\ RefreshRoom(t)
  /\ ClearSession(t)
  /\ EndRefresh(t)
  /\ forced' = TRUE
  /\ UNCHANGED <<open, serverVars, orphans, disturbed>>

\* or the token is sent.
Send(t) ==
  /\ Granted(t) /\ ~DiskFresh(t) /\ mem[t] # NoSnapshot
  /\ step' = [step EXCEPT ![t] = "sent"]
  /\ prev' = [prev EXCEPT ![t] = mem[t]]
  /\ lock' = IF Locks THEN t ELSE lock
  /\ UNCHANGED <<disk, tabVars, open, answer, inbox, serverVars, orphans>>
  /\ UNCHANGED <<disturbed, forced>>

\* The token endpoint: a live token gives a new one, is retired when it is too
\* old, or is left alone when the membership has ended or single sign-on is
\* required; any other ends its family.
Exchange(tok, reply) ==
  \/ /\ tok \in accepted /\ reply \in Tokens \ issued
     /\ issued' = issued \cup {reply}
     /\ accepted' = (accepted \ {tok}) \cup {reply}
     /\ family' = [family EXCEPT ![reply] = family[tok]]
     /\ UNCHANGED disturbed
  \/ /\ tok \in accepted /\ reply = Refused
     /\ accepted' = accepted \ {tok}
     /\ disturbed' = TRUE
     /\ UNCHANGED <<issued, family>>
  \/ /\ tok \in accepted /\ reply = Denied
     /\ UNCHANGED <<serverVars, disturbed>>
  \/ /\ tok \notin accepted /\ reply = Refused
     /\ accepted' = {k \in accepted : family[k] # family[tok]}
     /\ UNCHANGED <<issued, family, disturbed>>

Serve(t, reply) ==
  /\ step[t] = "sent"
  /\ Exchange(prev[t].tok, reply)
  /\ step' = [step EXCEPT ![t] = "answered"]
  /\ answer' = [answer EXCEPT ![t] = reply]
  /\ UNCHANGED <<disk, tabVars, open, prev, lock, inbox, orphans, forced>>

\* A request whose tab has gone, or given up, still arrives.
ServeOrphan(tok, reply) ==
  /\ tok \in orphans
  /\ Exchange(tok, reply)
  /\ orphans' = orphans \ {tok}
  /\ UNCHANGED <<disk, tabVars, open, refreshVars, inbox, forced>>

\* New tokens: the snapshot is built from the one that was sent, whatever has
\* become of the session since.  The status is left alone.
ReceiveTokens(t) ==
  /\ step[t] = "answered" /\ answer[t] \in Tokens /\ RefreshRoom(t)
  /\ Save(t, Merged(answer[t], FALSE, prev[t]))
  /\ EndRefresh(t)
  /\ UNCHANGED <<signedIn, hydrated, open, serverVars, orphans>>
  /\ UNCHANGED <<disturbed, forced>>

\* A refusal: the tab signs out if it recognises it, and throws.  It does not
\* recognise a 403.
ReceiveRefusal(t) ==
  /\ step[t] = "answered" /\ answer[t] \in {Refused, Denied} /\ RefreshRoom(t)
  /\ IF RefusalSignsOut /\ answer[t] = Refused
     THEN ClearSession(t) /\ forced' = TRUE
     ELSE UNCHANGED <<disk, tabVars, inbox, forced>>
  /\ EndRefresh(t)
  /\ UNCHANGED <<open, serverVars, orphans, disturbed>>

\* fetch fails: the request or its answer is lost, and the session kept.
LoseRequest(t) ==
  /\ step[t] \in {"sent", "answered"}
  /\ EndRefresh(t)
  /\ orphans' = IF step[t] = "sent" THEN orphans \cup {prev[t].tok} ELSE orphans
  /\ disturbed' = TRUE
  /\ UNCHANGED <<disk, tabVars, open, inbox, serverVars, forced>>

----------------------------------------------------------------------------

Received(t, s, msg) ==
  /\ t \in open
  /\ inbox[t][s] # <<>> /\ Head(inbox[t][s]) = msg
  /\ inbox' = [inbox EXCEPT ![t][s] = Tail(@)]

\* reloadFromStorage: what is stored now, not when the message was posted.
ReloadBug(t) == UNCHANGED <<mem, signedIn>>
Reload(t) == Adopt(t)

PeerUpdated(t, s) ==
  /\ Received(t, s, "session_updated")
  /\ Reload(t)
  /\ UNCHANGED <<disk, hydrated, open, refreshVars, serverVars, orphans>>
  /\ UNCHANGED <<disturbed, forced>>

\* applyPeerSignOut: the storage is not read.
PeerCleared(t, s) ==
  /\ Received(t, s, "session_cleared")
  /\ SetMem(t, NoSnapshot)
  /\ signedIn' = signedIn \ {t} /\ hydrated' = hydrated \cup {t}
  /\ UNCHANGED <<disk, open, refreshVars, serverVars, orphans>>
  /\ UNCHANGED <<disturbed, forced>>

----------------------------------------------------------------------------

Lifecycle(t) == OpenTab(t) \/ CloseTab(t) \/ Hydrate(t)
UserAct(t) ==
  \/ \E tok \in Tokens, key \in AppKeys : SignIn(t, tok, key)
  \/ \E key \in AppKeys : SetAppKey(t, key)
  \/ SignOut(t)
Proceed(t) == AdoptStored(t) \/ RefreshNothing(t) \/ Send(t)
Network(t) == (\E reply \in Replies : Serve(t, reply)) \/ LoseRequest(t)
Receive(t) == ReceiveTokens(t) \/ ReceiveRefusal(t)
Deliver(t, s) == PeerUpdated(t, s) \/ PeerCleared(t, s)

Next ==
  \/ \E t \in Tabs :
       \/ Lifecycle(t) \/ UserAct(t) \/ StartRefresh(t)
       \/ Proceed(t) \/ Network(t) \/ Receive(t)
       \/ \E s \in Tabs : Deliver(t, s)
  \/ \E tok \in orphans, reply \in Replies : ServeOrphan(tok, reply)

Spec == Init /\ [][Next]_vars

----------------------------------------------------------------------------

\* A request has the server's new token for the stored one on its way back.
BeingReplaced(tok) ==
  \E t \in Tabs : /\ step[t] = "answered" /\ prev[t].tok = tok
                  /\ answer[t] \in accepted

(* The stored refresh token is one the server accepts, or its replacement  *)
(* is on its way: with the lock held over read, request and save           *)
(* (session.ts:332-388), only a lost answer, a sign-out, a write of an     *)
(* outdated snapshot or the token's age leaves a dead token behind.        *)
StoredTokenGood ==
  Locks /\ ~disturbed /\ disk # NoSnapshot =>
    disk.tok \in accepted \/ BeingReplaced(disk.tok)

(* No session ends by itself: a tab signs out unasked (session.ts:356,377) *)
(* only after one of those.                                                *)
NoSpontaneousSignOut == Locks /\ forced => disturbed

\* No refresh is on its way and no message waits.
Quiet ==
  /\ \A t \in Tabs : step[t] = "idle"
  /\ \A t, s \in Tabs : inbox[t][s] = <<>>

(* When everything has settled, the tabs that hold tokens hold the stored  *)
(* ones (session.ts:148-183): no update is missed.                         *)
QuietTabsAgree ==
  Quiet => \A t \in Tabs :
             mem[t] # NoSnapshot => disk # NoSnapshot /\ mem[t].tok = disk.tok

\* The stored snapshot loses its key, and the application did not ask for it.
LosesKey ==
  /\ disk # NoSnapshot /\ disk' # NoSnapshot
  /\ disk.key /\ ~disk'.key
  /\ issued' = issued
  /\ \A t \in Tabs : ~SetAppKey(t, FALSE)

(* session.ts:267: setAppKeyBase64 persists the key.                       *)
AppKeyPersists == [][~LosesKey]_vars

(* session.ts:260,295: sign-out clears the session, and there is no app    *)
(* key after it: only a sign-in stores one again.                          *)
OnlySignInStores ==
  [][disk = NoSnapshot /\ disk' # NoSnapshot => issued' # issued]_vars

=============================================================================
