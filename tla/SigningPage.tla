------------------------------ MODULE SigningPage ------------------------------
(***************************************************************************)
(* The page on which the user signs or denies a request, and what the host *)
(* that embeds it hears:                                                   *)
(*   ave-web .../web/sign/+page.svelte, lib/signing.ts                     *)
(*   ave-web lib/storage-access.ts, lib/master-key-unlock.ts               *)
(* over the server of SignatureRequests, of which a page is a client.      *)
(*                                                                         *)
(* A page is a frame in the host, or a window of its own.  A frame without *)
(* a session asks for storage access and, when that takes too long, opens  *)
(* a window for the same request; the session that it gave up waiting for  *)
(* may still come, so that two pages are at it.                            *)
(*                                                                         *)
(* Abstracted: the payload, what a page displays and the end of a session  *)
(* while its page is open; all pages are in one browser, of one user.  A   *)
(* broken connection is noticed when the server is done with what it had   *)
(* of the request, and an error stays on the screen.                       *)
(***************************************************************************)
EXTENDS Naturals

CONSTANTS
  Pages,      \* openings of the page
  Clients,    \* handlers that serve the application and other devices
  Request,    \* the request
  Keys, LegacyKey, None

VARIABLES
  status, signature, overdue, key, firstRow, pc, req, arg,  \* SignatureRequests
  generated, current, lostKey, contested,
  screen,    \* what each page shows
  embedded,  \* open pages with a host that listens
  shown,     \* the key each page offers to sign with
  call,      \* its decision, and how far that is
  sent,      \* the key it signed with
  making,    \* the key it is having stored, as far
  master,    \* the browser holds the master key
  heard      \* history: what was posted to the host

serverVars ==
  <<status, signature, overdue, key, firstRow, pc, req, arg, generated, current,
    lostKey, contested>>
vars == <<serverVars, screen, embedded, shown, call, sent, making, master, heard>>

\* The handlers of a page: one for its decision and one for its key.
Maker(p) == <<p>>
S == INSTANCE SignatureRequests WITH
       Requests <- {Request},
       Handlers <- Pages \cup Clients \cup {Maker(p) : p \in Pages}

\* generateSigningKeyPair: a key nobody has, whichever it is.
Generated == CHOOSE k \in Keys \ generated : TRUE

Screens == {"closed", "gate", "waiting", "loading", "ask", "setup", "locked", "error", "ended"}
Progress == {"idle", "sent", "taken", "done", "refused"}
NoCall == [kind |-> "none", at |-> "idle"]
Messages == [type : {"signed"}, sig : Keys, key : Keys] \cup [type : {"denied"}]

TypeOK ==
  /\ S!TypeOK
  /\ screen \in [Pages -> Screens] /\ embedded \subseteq Pages
  /\ shown \in [Pages -> Keys \cup {None}]
  /\ call \in [Pages -> [kind : {"none", "sign", "deny"}, at : Progress]]
  /\ sent \in [Pages -> Keys \cup {None}]
  /\ making \in [Pages -> Progress]
  /\ master \in BOOLEAN
  /\ heard \subseteq Messages

Init ==
  /\ S!Init
  /\ screen = [p \in Pages |-> "closed"] /\ embedded = {}
  /\ shown = [p \in Pages |-> None]
  /\ call = [p \in Pages |-> NoCall] /\ sent = [p \in Pages |-> None]
  /\ making = [p \in Pages |-> "idle"]
  /\ master \in BOOLEAN
  /\ heard = {}

IsOpen(p) == screen[p] \notin {"closed", "ended"}
Shows(p, s, k) == screen' = [screen EXCEPT ![p] = s] /\ shown' = [shown EXCEPT ![p] = k]
Go(p, s) == Shows(p, s, None)
Stays == UNCHANGED <<screen, shown>>
Undecided(p) == call[p] = NoCall
At(p, kind, at) == call[p] = [kind |-> kind, at |-> at]
Forgets(p) == call' = [call EXCEPT ![p] = NoCall] /\ sent' = [sent EXCEPT ![p] = None]
\* How far its request is concerns the page while it is open.
Moves(p, at) ==
  IF IsOpen(p) THEN call' = [call EXCEPT ![p].at = at] /\ UNCHANGED sent ELSE Forgets(p)

-----------------------------------------------------------------------------
(* Getting in.                                                             *)

\* The page is opened, with a session or, in a frame, without.
Open(p) ==
  /\ screen[p] = "closed" /\ status[Request] # "absent"
  /\ \/ Go(p, "loading") /\ embedded' \in {embedded, embedded \cup {p}}
     \/ Go(p, "gate") /\ embedded' = embedded \cup {p}
  /\ UNCHANGED <<serverVars, call, sent, making, master, heard>>

\* tryAutoStorageAccess, requestStorageAccessFromUserAction: there is a session,
\* perhaps after the wait for it was given up (withTimeout), and the effect loads.
Enter(p) ==
  /\ screen[p] \in {"gate", "waiting"}
  /\ Go(p, "loading")
  /\ UNCHANGED <<serverVars, embedded, call, sent, making, master, heard>>

\* openSigningPopupHere: a window on this very address, which posts to the
\* parent of its opener.
OpenPopup(p, q) ==
  /\ screen[p] = "gate" /\ screen[q] = "closed"
  /\ screen' = [screen EXCEPT ![p] = "waiting", ![q] = "loading"]
  /\ embedded' = embedded \cup {q}
  /\ UNCHANGED <<serverVars, shown, call, sent, making, master, heard>>

\* fallbackToTopLevelSigning, when the window is blocked: the page goes on
\* without embed=1.
LeaveHost(p) ==
  /\ screen[p] = "gate"
  /\ Go(p, "loading") /\ embedded' = embedded \ {p}
  /\ UNCHANGED <<serverVars, call, sent, making, master, heard>>

\* The window or the frame is closed, and what the server has of it takes its
\* course.  A page that has nothing on its way is as good as closed when nobody
\* touches it; so is one whose load has failed.
Close(p) ==
  /\ IsOpen(p) /\ (~Undecided(p) \/ making[p] # "idle")
  /\ Go(p, "ended")
  /\ embedded' = embedded \ {p}
  /\ IF call[p].at = "sent" THEN UNCHANGED <<call, sent>> ELSE Forgets(p)
  /\ making' = [making EXCEPT ![p] = IF @ = "sent" THEN "sent" ELSE "idle"]
  /\ UNCHANGED <<serverVars, master, heard>>

-----------------------------------------------------------------------------
(* What the page does.                                                     *)

\* loadRequest, answered by GET /requests/:requestId; a request that is not
\* pending is shown as such.
Load(p) ==
  LET k == IF S!HasKey THEN key ELSE None
  IN  /\ screen[p] = "loading"
      /\ CASE status[Request] # "pending" -> Go(p, "error")
           [] status[Request] = "pending" /\ k = None -> Go(p, "setup")
           [] status[Request] = "pending" /\ k # None -> Shows(p, "ask", k)
      /\ UNCHANGED <<serverVars, embedded, call, sent, making, master, heard>>

\* handleSign up to its request: signWithIdentityKey returns null without the
\* master key.
StartToSign(p) ==
  /\ screen[p] = "ask" /\ Undecided(p)
  /\ IF master
     THEN /\ call' = [call EXCEPT ![p] = [kind |-> "sign", at |-> "sent"]]
          /\ sent' = [sent EXCEPT ![p] = shown[p]]
          /\ Stays
     ELSE Go(p, "locked") /\ UNCHANGED <<call, sent>>
  /\ UNCHANGED <<serverVars, embedded, making, master, heard>>

\* handleDeny up to its request; its button waits for a key that is being made.
StartToDeny(p) ==
  /\ screen[p] \in {"ask", "setup"} /\ Undecided(p) /\ making[p] = "idle"
  /\ call' = [call EXCEPT ![p] = [kind |-> "deny", at |-> "sent"]]
  /\ UNCHANGED <<serverVars, screen, embedded, shown, sent, making, master, heard>>

\* handleSetupSigningKey up to its request; its button does not wait for a
\* decision.
StartToMake(p) ==
  /\ screen[p] = "setup" /\ making[p] = "idle"
  /\ IF master
     THEN making' = [making EXCEPT ![p] = "sent"] /\ Stays
     ELSE Go(p, "locked") /\ UNCHANGED making
  /\ UNCHANGED <<serverVars, embedded, call, sent, master, heard>>

\* handleUnlockMasterKey, and the load that follows.
Unlock(p) ==
  /\ screen[p] = "locked"
  /\ master' = TRUE /\ Go(p, "loading")
  /\ UNCHANGED <<serverVars, embedded, call, sent, making, heard>>

-----------------------------------------------------------------------------
(* Its requests at the server.                                             *)

\* A handler reads, and goes on or refuses.
Decide(p) ==
  /\ \/ At(p, "sign", "sent") /\ S!ReadToSign(p, Request, sent[p]) /\ Moves(p, "taken")
     \/ At(p, "deny", "sent") /\ S!ReadToDeny(p, Request) /\ Moves(p, "taken")
     \/ /\ call[p].at = "sent"
        /\ \/ status[Request] # "pending"
           \/ call[p].kind = "sign" /\ (Request \in overdue \/ sent[p] # key)
        /\ Moves(p, "refused") /\ UNCHANGED serverVars
  /\ UNCHANGED <<screen, embedded, shown, making, master, heard>>

\* It writes; one that dies is a request that was lost.
Write(p) ==
  /\ S!Sign(p) \/ S!Deny(p)
  /\ Moves(p, "done")
  /\ UNCHANGED <<screen, embedded, shown, making, master, heard>>

Make(p) ==
  LET Moved(at) == making' = [making EXCEPT ![p] = IF IsOpen(p) THEN at ELSE "idle"]
  IN  /\ \/ /\ making[p] = "sent"
            /\ \/ S!HasKey /\ Moved("refused") /\ UNCHANGED serverVars
               \/ generated # Keys /\ S!ReadToAddKey(Maker(p), Generated) /\ Moved("taken")
         \/ S!ReplaceKey(Maker(p)) /\ Moved("done")
         \/ S!AddKey(Maker(p)) /\ Moved(IF key = None THEN "done" ELSE "refused")
      /\ UNCHANGED <<screen, embedded, shown, call, sent, master, heard>>

-----------------------------------------------------------------------------
(* Its answers.                                                            *)

AnsweredBug(p, kind) ==  \* does not wait for the answer
  call[p].kind = kind /\ call[p].at # "idle"

Answered(p, kind) == At(p, kind, "done")

\* The end of handleSign and of handleDeny: the host is told and the page stays
\* as it is, or the page shows the end and closes.
Resolve(p) ==
  /\ IsOpen(p)
  /\ \E kind \in {"sign", "deny"} :
       /\ Answered(p, kind)
       /\ heard' = heard \cup
            IF p \notin embedded THEN {}
            ELSE IF kind = "sign" THEN {[type |-> "signed", sig |-> sent[p], key |-> shown[p]]}
            ELSE {[type |-> "denied"]}
  /\ IF p \in embedded THEN Stays ELSE Go(p, "ended")
  /\ Forgets(p)
  /\ UNCHANGED <<serverVars, embedded, making, master>>

\* Refused, or lost on the way there or back, whatever became of it.
DecisionFails(p) ==
  /\ IsOpen(p) /\ call[p].at \in {"sent", "done", "refused"}
  /\ Go(p, "error")
  /\ Forgets(p)
  /\ UNCHANGED <<serverVars, embedded, making, master, heard>>

\* The key is there, and the page loads again.
Made(p) ==
  /\ IsOpen(p) /\ making[p] = "done"
  /\ making' = [making EXCEPT ![p] = "idle"]
  /\ IF screen[p] = "error" THEN Stays ELSE Go(p, "loading")
  /\ UNCHANGED <<serverVars, embedded, call, sent, master, heard>>

\* The page offers to try again.
MakingFails(p) ==
  /\ IsOpen(p) /\ making[p] \in {"sent", "done", "refused"}
  /\ making' = [making EXCEPT ![p] = "idle"]
  /\ UNCHANGED <<serverVars, screen, embedded, shown, call, sent, master, heard>>

-----------------------------------------------------------------------------
\* The application asks, and polls until the request is overdue; another device
\* rotates the key.  Once the request is resolved neither begins anything that
\* a page would notice.
Elsewhere ==
  /\ \/ \E demo \in BOOLEAN : S!Create(Request, demo)
     \/ /\ status[Request] = "pending"
        /\ \/ S!PassDeadline(Request)
           \/ \E h \in Clients :
                \/ S!ReadToExpire(h, Request)
                \/ generated # Keys /\ S!StartRotation(h, Generated)
     \/ \E h \in Clients : S!MarkExpired(h) \/ S!DeleteKey(h) \/ S!InsertKey(h)
  /\ UNCHANGED <<screen, embedded, shown, call, sent, making, master, heard>>

Next ==
  \/ Elsewhere
  \/ \E p \in Pages :
       \/ Open(p) \/ Enter(p) \/ LeaveHost(p) \/ Close(p) \/ Load(p)
       \/ StartToSign(p) \/ StartToDeny(p) \/ StartToMake(p) \/ Unlock(p)
       \/ Decide(p) \/ Write(p) \/ Make(p)
       \/ Resolve(p) \/ DecisionFails(p) \/ Made(p) \/ MakingFails(p)
       \/ \E q \in Pages : OpenPopup(p, q)

Spec == Init /\ [][Next]_vars

-----------------------------------------------------------------------------
(* Properties.                                                             *)

\* The host hears of a signature with the key it verifies under, one that the
\* identity had while the request was pending; and unless two were deciding at
\* once, what it hears is what the server keeps (handleSign, handleDeny).
HostHearsTruth ==
  \A m \in heard :
    /\ m.type = "signed" => m.sig = m.key /\ m.key \in current[Request]
    /\ Request \notin contested =>
         /\ status[Request] = m.type
         /\ m.type = "signed" => signature[Request] = m.sig
=============================================================================
