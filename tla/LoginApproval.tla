--------------------------- MODULE LoginApproval ----------------------------
(***************************************************************************)
(* One login request, from the page that waits for it to the devices that  *)
(* decide it:                                                              *)
(*   ave-server/src/routes/login/approval.ts   request-status              *)
(*   ave-server/src/routes/devices.ts          approve, deny, notify       *)
(*   ave-server/src/lib/websocket.ts           the requester's socket      *)
(*   ave-web/.../components/LoginWaiting.svelte  the waiting page          *)
(* Requests share no state, so one stands for all.  The page asks every    *)
(* two seconds, without waiting for the answer before, and also listens on *)
(* a socket.  A poll is a GET: its first read may see a lagging replica.   *)
(*                                                                         *)
(* Abstracted: the key, present in every approval; the device row, which   *)
(* no statement reads; the rate limits, which can only refuse a poll.      *)
(***************************************************************************)
EXTENDS Naturals

CONSTANTS
  Approvers,    \* requests to approve or deny that may be in progress at once
  Polls,        \* polls of the page that may be in progress at once
  MaxFailures,  \* bound on the polls that die or go unanswered
  None

ASSUME ApprovalAssumption ==
  /\ MaxFailures \in Nat
  /\ None \notin {"pending", "approved", "denied", "expired", "error", "timer", "fetch"}

VARIABLES
  mode,      \* the page waits to sign in, or only for the encryption key
  \* The server:
  row,       \* status column of the request, "deleted" when it is gone
  replica,   \* the status a lagging replica shows
  expired,   \* expiresAt has passed
  sessions,  \* sessions inserted for the request
  decided,   \* the decisions whose update took effect
  apc,       \* next statement of each approver's handler
  verdict,   \* what it decides
  ppc,       \* next statement of each poll's handler
  \* The page:
  asker,     \* what waits for a poll: the timer, fetchSessionAndLogin, nothing
  answer,    \* the answer on its way back
  socket,    \* the page's subscription
  wire,      \* the status on its way over the socket
  mounted,   \* the component is on the page
  page,      \* the status it shows
  hasKey,    \* it has received the encryption key
  signedIn,  \* it has completed the login
  \* For the properties and the bound:
  lost,      \* an answer that cannot be given twice went astray
  failures   \* polls that died or went unanswered

rowVars == <<row, replica, expired, sessions, decided>>
approverVars == <<apc, verdict>>
pollVars == <<ppc, asker, answer>>
socketVars == <<socket, wire>>
pageVars == <<mounted, page, hasKey, signedIn>>
vars == <<mode, rowVars, approverVars, pollVars, socketVars, pageVars, lost, failures>>

Decisions == {"approved", "denied"}
Rows == {"pending", "approved", "denied", "consumed", "deleted"}
Answers == {"pending", "approved", "denied", "expired", "error"}

TypeOK ==
  /\ mode \in {"login", "unlock"}
  /\ row \in Rows /\ replica \in Rows
  /\ expired \in BOOLEAN
  /\ sessions \in Nat
  /\ decided \subseteq Decisions
  /\ apc \in [Approvers -> {"idle", "update", "notify"}]
  /\ verdict \in [Approvers -> Decisions \cup {None}]
  /\ ppc \in [Polls -> {"idle", "read", "claim", "session", "delete", "forget", "answered"}]
  /\ asker \in [Polls -> {"timer", "fetch", None}]
  /\ answer \in [Polls -> Answers \cup {None}]
  /\ socket \in {"connecting", "subscribed", "closed"}
  /\ wire \in Decisions \cup {None}
  /\ mounted \in BOOLEAN
  /\ page \in {"waiting", "approved", "denied", "expired"}
  /\ hasKey \in BOOLEAN /\ signedIn \in BOOLEAN
  /\ lost \in BOOLEAN
  /\ failures \in 0..MaxFailures

\* The request has been inserted and the page that made it is mounted.
Init ==
  /\ mode \in {"login", "unlock"}
  /\ row = "pending" /\ replica = "pending"
  /\ expired = FALSE
  /\ sessions = 0
  /\ decided = {}
  /\ apc = [a \in Approvers |-> "idle"]
  /\ verdict = [a \in Approvers |-> None]
  /\ ppc = [p \in Polls |-> "idle"]
  /\ asker = [p \in Polls |-> None]
  /\ answer = [p \in Polls |-> None]
  /\ socket = "connecting" /\ wire = None
  /\ mounted = TRUE /\ page = "waiting"
  /\ hasKey = FALSE /\ signedIn = FALSE
  /\ lost = FALSE /\ failures = 0

----------------------------------------------------------------------------
(* The approving devices; the -Bug forms are faults the properties must    *)
(* notice.                                                                 *)

\* A denial looks only for the request, an approval also at its state.
Open(a, v) ==
  /\ apc[a] = "idle"
  /\ row # "deleted"
  /\ v = "approved" => row = "pending" /\ ~expired
  /\ apc' = [apc EXCEPT ![a] = "update"]
  /\ verdict' = [verdict EXCEPT ![a] = v]
  /\ UNCHANGED <<mode, rowVars, pollVars, socketVars, pageVars, lost, failures>>

\* The condition of the update.
MayDecideBug == row \in {"pending", "denied"} /\ ~expired
MayDecide == row = "pending" /\ ~expired

Decide(a) ==
  /\ apc[a] = "update"
  /\ MayDecide
  /\ row' = verdict[a]
  /\ decided' = decided \cup {verdict[a]}
  /\ apc' = [apc EXCEPT ![a] = "notify"]
  /\ UNCHANGED <<mode, replica, expired, sessions, verdict, pollVars, socketVars, pageVars, lost, failures>>

\* The subscriber is told once and then forgotten; without one the
\* notification is dropped.
Notify(a) ==
  /\ apc[a] = "notify"
  /\ IF socket = "subscribed"
       THEN socket' = "closed" /\ wire' = verdict[a]
       ELSE UNCHANGED socketVars
  /\ apc' = [apc EXCEPT ![a] = "idle"]
  /\ verdict' = [verdict EXCEPT ![a] = None]
  /\ UNCHANGED <<mode, rowVars, pollVars, pageVars, lost, failures>>

\* "Request already handled", another refusal, or the death of the worker.
GiveUp(a) ==
  /\ apc[a] # "idle"
  /\ apc' = [apc EXCEPT ![a] = "idle"]
  /\ verdict' = [verdict EXCEPT ![a] = None]
  /\ UNCHANGED <<mode, rowVars, pollVars, socketVars, pageVars, lost, failures>>

----------------------------------------------------------------------------
(* GET /request-status/:requestId.                                         *)

\* A poll holds what the server will not give a second time.
Holds(p) ==
  \/ ppc[p] \in {"session", "delete"}
  \/ ppc[p] = "answered" /\ answer[p] \in Decisions

Reply(p, s) ==
  /\ ppc' = [ppc EXCEPT ![p] = "answered"]
  /\ answer' = [answer EXCEPT ![p] = s]

\* What a read of status s leads to: an answer at once, or a statement.
StatusReplyBug(s) == CASE s = "deleted" -> "error" [] OTHER -> "pending"
StatusReply(s) ==
  CASE s = "deleted" -> "error" [] expired -> "expired" [] OTHER -> "pending"

Read(p, s) ==
  /\ ppc[p] = "read"
  /\ s \in {row, replica}
  /\ IF s \in Decisions /\ ~expired
       THEN /\ ppc' = [ppc EXCEPT ![p] = IF s = "approved" THEN "claim" ELSE "forget"]
            /\ UNCHANGED answer
       ELSE Reply(p, StatusReply(s))
  /\ UNCHANGED <<mode, rowVars, approverVars, asker, socketVars, pageVars, lost, failures>>

\* The update that claims an approval.
ClaimableBug == row \in {"approved", "consumed"}
Claimable == row = "approved"

Claim(p) ==
  /\ ppc[p] = "claim"
  /\ IF Claimable
       THEN /\ row' = "consumed"
            /\ ppc' = [ppc EXCEPT ![p] = "session"]
            /\ lost' = (lost \/ asker[p] = None)
            /\ UNCHANGED answer
       ELSE Reply(p, "pending") /\ UNCHANGED <<row, lost>>
  /\ UNCHANGED <<mode, replica, expired, sessions, decided, approverVars, asker, socketVars, pageVars, failures>>

\* The identity is gone, or its organization now requires enterprise sign-on.
Refuse(p) ==
  /\ ppc[p] = "session"
  /\ Reply(p, "error")
  /\ lost' = TRUE
  /\ UNCHANGED <<mode, rowVars, approverVars, asker, socketVars, pageVars, failures>>

InsertSession(p) ==
  /\ ppc[p] = "session"
  /\ sessions' = sessions + 1
  /\ ppc' = [ppc EXCEPT ![p] = "delete"]
  /\ UNCHANGED <<mode, row, replica, expired, decided, approverVars, asker, answer, socketVars, pageVars, lost, failures>>

Delete(p) ==
  /\ ppc[p] = "delete"
  /\ row' = "deleted"
  /\ Reply(p, "approved")
  /\ UNCHANGED <<mode, replica, expired, sessions, decided, approverVars, asker, socketVars, pageVars, lost, failures>>

\* A denied request is deleted when the page learns of it.
Forget(p) ==
  /\ ppc[p] = "forget"
  /\ row' = "deleted"
  /\ Reply(p, "denied")
  /\ lost' = (lost \/ asker[p] = None)
  /\ UNCHANGED <<mode, replica, expired, sessions, decided, approverVars, asker, socketVars, pageVars, failures>>

----------------------------------------------------------------------------
(* The waiting page.                                                       *)

\* checkStatus or fetchSessionAndLogin sends a poll.
Ask(p, w) ==
  /\ ppc' = [ppc EXCEPT ![p] = "read"]
  /\ asker' = [asker EXCEPT ![p] = w]
  /\ answer' = [answer EXCEPT ![p] = None]

EndPoll(p) ==
  /\ ppc' = [ppc EXCEPT ![p] = "idle"]
  /\ asker' = [asker EXCEPT ![p] = None]
  /\ answer' = [answer EXCEPT ![p] = None]

\* The timer fires; it is cleared once the page has its status.
Poll(p) ==
  /\ mounted /\ page = "waiting"
  /\ ppc[p] = "idle"
  /\ Ask(p, "timer")
  /\ UNCHANGED <<mode, rowVars, approverVars, socketVars, pageVars, lost, failures>>

\* The answer to a poll and the message of the socket leave the session token
\* to a cookie, which the page cannot read.
TokenInAnswer == FALSE

\* handleStatusUpdate, for a poll or a message; it may ask again on slot p.
ShowStatus(s, p) ==
  /\ page' = IF s \in Decisions \cup {"expired"} THEN s ELSE page
  /\ hasKey' = (hasKey \/ (s = "approved" /\ mode = "unlock"))
  /\ signedIn' = (signedIn \/ (s = "approved" /\ mode = "login" /\ TokenInAnswer))
  /\ IF s = "approved" /\ mode = "login" /\ ~TokenInAnswer
       THEN Ask(p, "fetch")
       ELSE EndPoll(p)
  /\ UNCHANGED mounted

\* checkStatus has its answer: errors are logged.
ReceiveStatus(p) ==
  /\ ppc[p] = "answered" /\ asker[p] = "timer"
  /\ ShowStatus(answer[p], p)
  /\ UNCHANGED <<mode, rowVars, approverVars, socketVars, lost, failures>>

\* fetchSessionAndLogin has its answer, which must carry a token to be of use.
ReceiveFetched(p) ==
  /\ ppc[p] = "answered" /\ asker[p] = "fetch"
  /\ signedIn' = (signedIn \/ (answer[p] = "approved" /\ TokenInAnswer))
  /\ EndPoll(p)
  /\ UNCHANGED <<mode, rowVars, approverVars, socketVars, mounted, page, hasKey, lost, failures>>

\* Nobody waits for this answer any more.
DropAnswer(p) ==
  /\ ppc[p] = "answered" /\ asker[p] = None
  /\ EndPoll(p)
  /\ UNCHANGED <<mode, rowVars, approverVars, socketVars, pageVars, lost, failures>>

\* The connection fails, or 15 seconds pass; the handler goes on.
TimeOut(p) ==
  /\ ppc[p] # "idle" /\ asker[p] # None
  /\ failures < MaxFailures
  /\ failures' = failures + 1
  /\ asker' = [asker EXCEPT ![p] = None]
  /\ lost' = (lost \/ Holds(p))
  /\ UNCHANGED <<mode, rowVars, approverVars, ppc, answer, socketVars, pageVars>>

\* The worker of a poll dies.
Die(p) ==
  /\ ppc[p] \notin {"idle", "answered"}
  /\ failures < MaxFailures
  /\ failures' = failures + 1
  /\ EndPoll(p)
  /\ lost' = (lost \/ Holds(p))
  /\ UNCHANGED <<mode, rowVars, approverVars, socketVars, pageVars>>

\* The socket opens and is the request's subscriber; it is not reopened.
Subscribe ==
  /\ mounted /\ socket = "connecting"
  /\ socket' = "subscribed"
  /\ UNCHANGED <<mode, rowVars, approverVars, pollVars, wire, pageVars, lost, failures>>

Disconnect ==
  /\ socket # "closed" \/ wire # None
  /\ socket' = "closed" /\ wire' = None
  /\ UNCHANGED <<mode, rowVars, approverVars, pollVars, pageVars, lost, failures>>

\* A message arrives; p is a free slot, should the page ask again.
ReceiveMessage(p) ==
  /\ mounted /\ wire # None
  /\ ppc[p] = "idle"
  /\ ShowStatus(wire, p)
  /\ wire' = None
  /\ UNCHANGED <<mode, rowVars, approverVars, socket, lost, failures>>

\* The component goes: cancelled, replaced on an error, or done.  Polls in
\* flight are not aborted, and what they bring is still handled.
Unmount ==
  /\ mounted
  /\ mounted' = FALSE
  /\ socket' = "closed" /\ wire' = None
  /\ UNCHANGED <<mode, rowVars, approverVars, pollVars, page, hasKey, signedIn, lost, failures>>

----------------------------------------------------------------------------
(* Time and replication.                                                   *)

Expire ==
  /\ ~expired
  /\ expired' = TRUE
  /\ UNCHANGED <<mode, row, replica, sessions, decided, approverVars, pollVars, socketVars, pageVars, lost, failures>>

CatchUp ==
  /\ replica # row
  /\ replica' = row
  /\ UNCHANGED <<mode, row, expired, sessions, decided, approverVars, pollVars, socketVars, pageVars, lost, failures>>

----------------------------------------------------------------------------

ApproverStep(a) ==
  (\E v \in Decisions : Open(a, v)) \/ Decide(a) \/ Notify(a) \/ GiveUp(a)

Handle(p) ==
  \/ \E s \in Rows : Read(p, s)
  \/ Claim(p) \/ Refuse(p) \/ InsertSession(p) \/ Delete(p) \/ Forget(p)

Receive(p) == ReceiveStatus(p) \/ ReceiveFetched(p) \/ DropAnswer(p)

PollStep(p) ==
  Poll(p) \/ Handle(p) \/ Receive(p) \/ ReceiveMessage(p) \/ TimeOut(p) \/ Die(p)

Next ==
  \/ \E a \in Approvers : ApproverStep(a)
  \/ \E p \in Polls : PollStep(p)
  \/ Subscribe \/ Disconnect \/ Unmount \/ Expire \/ CatchUp

Spec == Init /\ [][Next]_vars

\* The timer keeps firing, handlers run to their end, answers arrive, time
\* passes.  Nobody has to decide, and no socket has to open.
FairSpec ==
  /\ Spec
  /\ WF_vars(Expire)
  /\ \A p \in Polls : WF_vars(Poll(p)) /\ WF_vars(Handle(p)) /\ WF_vars(Receive(p))

----------------------------------------------------------------------------
(* Properties.                                                             *)

\* However many polls find the approval, the request signs in at most once.
OneSession == sessions <= 1

\* Whoever decides first decides alone: nothing a denied page does, or that
\* is still in flight, gets it a session or the key.
OneDecision ==
  /\ decided # Decisions
  /\ sessions > 0 \/ hasKey \/ signedIn => decided = {"approved"}
  /\ page \in Decisions => decided = {page}

\* An approval for a page that wants the key is there to be claimed, on its way
\* to the page, or there, until the request expires or its one answer is lost.
ApprovalReachesPage ==
  mode = "unlock" /\ "approved" \in decided /\ ~expired /\ ~lost =>
    \/ row = "approved"
    \/ \E p \in Polls : Holds(p) /\ asker[p] # None
    \/ hasKey

\* A page that waits learns how its request ended, unless the answer is lost.
WaitingEnds == (mounted /\ page = "waiting") ~> (~mounted \/ page # "waiting" \/ lost)

\* "Open the Ave app and tap "Approve" to sign in." (LoginWaiting.svelte:220):
\* the page that asked for a session and has its answer is signed in.
SessionSignsIn ==
  mode = "login" /\ sessions > 0 /\ failures = 0 => signedIn \/ \E p \in Polls : ppc[p] # "idle"

=============================================================================
