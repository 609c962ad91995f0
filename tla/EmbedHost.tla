------------------------------- MODULE EmbedHost -------------------------------
(***************************************************************************)
(* A page of an application that opens surfaces of Ave and waits for their *)
(* answers:                                                                *)
(*   sdks/ave-embed/src/embed.js                                           *)
(*   ave-web .../web/authorize/AuthorizeFlow.svelte, the embedded page     *)
(*   ave-web .../web/connect/+page.svelte, .../web/sign/+page.svelte       *)
(*                                                                         *)
(* A surface is a frame in the page or a popup.  Pages answer by messages  *)
(* that every listener of the host hears, and popups of one purpose share  *)
(* a window by its name, so surfaces that are open together meet.          *)
(*                                                                         *)
(* Abstracted: the origin of a message is the issuer's; a login succeeds   *)
(* or the user closes the window; an application that opens a surface for  *)
(* sign-in passes onTokens and asks for an ID token.                       *)
(***************************************************************************)
EXTENDS Integers, Sequences, FiniteSets

CONSTANTS
  Surfaces,  \* calls of the open functions of embed.js
  Kinds,     \* the functions called
  Codes,     \* bound: codes the server issues
  Windows,   \* bound: windows opened under one name
  Posted,    \* bound: messages that wait in the host
  None

VARIABLES
  kind,      \* the function of each call, None before it
  frame,     \* where the page in the frame of a surface is
  window,    \* by name: [gen, of, at], the window that has the name last
  handle,    \* the popup a surface holds: its gen, 0 for null
  listening, \* the message handler is registered
  resolved,  \* the flag of a sheet
  closing,   \* timeouts of 200 ms under way that remove a sheet; bound: 2
  polling,   \* the timer of a popup runs
  queue,     \* messages posted to the host and not dispatched
  code,      \* codes issued: [of, spent], of being None without a challenge
  exchanging,\* codes each surface is exchanging
  decided,   \* signature requests the server has an answer to
  results,   \* history: results each surface has called back with, up to 2
  got,       \* history: the surfaces whose tokens a surface was given
  told       \* history: a callback has been called, the application has
             \* closed the surface, or has left with its page

hostVars == <<kind, listening, resolved, closing, polling>>
pageVars == <<frame, window, handle>>
serverVars == <<code, decided>>
historyVars == <<results, got, told>>
vars == <<hostVars, pageVars, queue, serverVars, exchanging, historyVars>>

Signing == {"signingSheet", "signingPopup"}
Sheets == {"sheet", "connectorSheet", "signingSheet"}
Framed == Sheets \cup {"mount"}
Connecting == {"connectorSheet", "connectorPopup"}
TakesTokens == {"mount", "sheet", "popup"}
PolledBug == {"popup"}
\* The popups whose closing is noticed.
Polled == {"popup", "signingPopup"}

Names == {"auth", "connector", "signing"}
Name(k) == IF k \in Signing THEN "signing"
           ELSE IF k = "connectorPopup" THEN "connector" ELSE "auth"

Ats == {"closed", "opening", "gate", "ready", "sent"}
Messages == [type : {"success", "error", "close", "auth", "signed"},
             code : 0..Codes]

TypeOK ==
  /\ kind \in [Surfaces -> Kinds \cup {None}]
  /\ frame \in [Surfaces -> Ats]
  /\ window \in [Names -> [gen : 0..Windows, of : Surfaces \cup {None}, at : Ats]]
  /\ handle \in [Surfaces -> 0..Windows]
  /\ listening \in [Surfaces -> BOOLEAN]
  /\ resolved \in [Surfaces -> BOOLEAN]
  /\ closing \in [Surfaces -> 0..2]
  /\ polling \in [Surfaces -> BOOLEAN]
  /\ queue \in Seq(Messages)
  /\ code \in Seq([of : Surfaces \cup {None}, spent : BOOLEAN])
  /\ exchanging \in [Surfaces -> SUBSET (1..Codes)]
  /\ decided \subseteq Surfaces
  /\ results \in [Surfaces -> 0..2]
  /\ got \in [Surfaces -> SUBSET Surfaces]
  /\ told \in [Surfaces -> BOOLEAN]

Init ==
  /\ kind = [s \in Surfaces |-> None]
  /\ frame = [s \in Surfaces |-> "closed"]
  /\ window = [n \in Names |-> [gen |-> 0, of |-> None, at |-> "closed"]]
  /\ handle = [s \in Surfaces |-> 0]
  /\ listening = [s \in Surfaces |-> FALSE]
  /\ resolved = [s \in Surfaces |-> FALSE]
  /\ closing = [s \in Surfaces |-> 0]
  /\ polling = [s \in Surfaces |-> FALSE]
  /\ queue = <<>> /\ code = <<>> /\ decided = {}
  /\ exchanging = [s \in Surfaces |-> {}]
  /\ results = [s \in Surfaces |-> 0]
  /\ got = [s \in Surfaces |-> {}]
  /\ told = [s \in Surfaces |-> FALSE]

\* The function r with one more result for each surface of S.
Counted(S) == [s \in Surfaces |->
  IF s \in S THEN IF results[s] = 2 THEN 2 ELSE results[s] + 1 ELSE results[s]]
Told(S) == [s \in Surfaces |-> told[s] \/ s \in S]
Off(f, S) == [s \in Surfaces |-> f[s] /\ s \notin S]

-----------------------------------------------------------------------------
(* Opening                                                                   *)

\* A window opened under a name in use is the window that has it.
OpenIn(n, s) ==
  LET w == window[n] IN
    [window EXCEPT ![n] =
       [gen |-> IF w.at = "closed" THEN w.gen + 1 ELSE w.gen, of |-> s, at |-> "opening"]]
ClosedWindow(n) == [gen |-> window[n].gen, of |-> None, at |-> "closed"]
CanOpen(n) == window[n].at # "closed" \/ window[n].gen < Windows

HoldsOpen(s) ==
  LET w == window[Name(kind[s])] IN
    handle[s] # 0 /\ w.gen = handle[s] /\ w.at # "closed"

\* mountAveEmbed, openAveSheet, openAveConnectorSheet, openAveSigningSheet.
OpenFrame(s, k) ==
  /\ kind[s] = None /\ ~told[s] /\ k \in Framed
  /\ kind' = [kind EXCEPT ![s] = k]
  /\ frame' = [frame EXCEPT ![s] = "opening"]
  /\ listening' = [listening EXCEPT ![s] = TRUE]
  /\ UNCHANGED <<resolved, closing, polling, window, handle, queue,
                 serverVars, exchanging, historyVars>>

\* openAvePopup, openAveConnectorPopup, openAveSigningPopup.
OpenPopup(s, k) ==
  /\ kind[s] = None /\ ~told[s] /\ k \notin Framed /\ CanOpen(Name(k))
  /\ kind' = [kind EXCEPT ![s] = k]
  /\ window' = OpenIn(Name(k), s)
  /\ handle' = [handle EXCEPT ![s] = window'[Name(k)].gen]
  /\ listening' = [listening EXCEPT ![s] = TRUE]
  /\ polling' = [polling EXCEPT ![s] = k \in Polled]
  /\ UNCHANGED <<resolved, closing, frame, queue, serverVars, exchanging, historyVars>>

\* The browser blocks the popup: the error is the result.
PopupBlocked(s, k) ==
  /\ kind[s] = None /\ ~told[s] /\ k \notin Framed
  /\ kind' = [kind EXCEPT ![s] = k]
  /\ results' = Counted({s}) /\ told' = Told({s})
  /\ UNCHANGED <<listening, resolved, closing, polling, pageVars, queue,
                 serverVars, exchanging, got>>

-----------------------------------------------------------------------------
(* The pages of Ave                                                          *)

\* The page at a place goes on; in a frame or in the window of a name.
InFrame(s, from, to) ==
  /\ frame[s] = from
  /\ frame' = [frame EXCEPT ![s] = to]
  /\ UNCHANGED <<window, handle>>
InWindow(n, from, to) ==
  /\ window[n].at = from
  /\ window' = [window EXCEPT ![n].at = to]
  /\ UNCHANGED <<frame, handle>>
Page(s, from, to) ==
  \/ InFrame(s, from, to)
  \/ \E n \in Names : window[n].of = s /\ InWindow(n, from, to)

StillUnread == UNCHANGED <<hostVars, serverVars, exchanging, historyVars>>
Post(type, c) == Len(queue) < Posted /\ queue' = Append(queue, [type |-> type, code |-> c])

\* The session of the user is found by the cookie; a page at the gate has been
\* granted the storage it is in.
Enter(s) ==
  /\ Page(s, "opening", "ready") \/ InFrame(s, "gate", "ready")
  /\ UNCHANGED queue /\ StillUnread

\* No session: a sign-in or signing page in a frame asks for its storage.
AskForStorage(s) ==
  /\ kind[s] \notin Connecting
  /\ InFrame(s, "opening", "gate")
  /\ UNCHANGED queue /\ StillUnread

\* No session: a window, and the connect page anywhere, goes to the login and
\* comes back, which all but the signing page announce.
GoToLogin(s) ==
  /\ \/ kind[s] \in Connecting /\ InFrame(s, "opening", "ready")
     \/ \E n \in Names : window[n].of = s /\ InWindow(n, "opening", "ready")
  /\ IF kind[s] \in Signing THEN UNCHANGED queue ELSE Post("auth", 0)
  /\ StillUnread

\* The storage is refused: the page opens itself in a window and is done.
OpenHere(s) ==
  /\ frame[s] = "gate" /\ CanOpen(Name(kind[s]))
  /\ window' = OpenIn(Name(kind[s]), s)
  /\ frame' = [frame EXCEPT ![s] = "sent"]
  /\ UNCHANGED handle
  /\ UNCHANGED queue /\ StillUnread

\* The window is blocked too: the frame goes on as a page that is not
\* embedded and answers nobody.
LeaveEmbed(s) ==
  /\ InFrame(s, "gate", "sent")
  /\ UNCHANGED queue /\ StillUnread

\* Agreeing: a code is issued, bound to the challenge in the page's address.
Approve(s) ==
  /\ kind[s] \notin Signing /\ Len(code) < Codes
  /\ Page(s, "ready", "sent")
  /\ code' = Append(code,
       [of |-> IF kind[s] \in TakesTokens THEN s ELSE None, spent |-> FALSE])
  /\ Post("success", Len(code) + 1)
  /\ UNCHANGED <<hostVars, decided, exchanging, historyVars>>

\* Declining, which the connect page calls closing.
Decline(s) ==
  /\ kind[s] \notin Signing
  /\ Page(s, "ready", "sent")
  /\ Post(IF kind[s] \in Connecting THEN "close" ELSE "error", 0)
  /\ StillUnread

\* Signing or denying, which the server accepts once and the host hears alike.
DecideSignature(s) ==
  /\ kind[s] \in Signing /\ s \notin decided
  /\ Page(s, "ready", "sent")
  /\ decided' = decided \cup {s}
  /\ Post("signed", 0)
  /\ UNCHANGED <<hostVars, code, exchanging, historyVars>>

\* A window goes: closed by its page after the answer, or by the user.
WindowCloses(n) ==
  /\ window[n].at # "closed"
  /\ window' = [window EXCEPT ![n] = ClosedWindow(n)]
  /\ UNCHANGED <<frame, handle, queue>> /\ StillUnread

-----------------------------------------------------------------------------
(* The messages                                                              *)

Heard(k) ==
  CASE k \in {"sheet", "connectorSheet"} -> {"success", "error", "close", "auth"}
    [] k = "signingSheet" -> {"signed", "auth"}
    [] k = "signingPopup" -> {"signed"}
    [] OTHER -> {"success", "error", "close"}

TakesBug(m) == {s \in Surfaces : listening[s] /\ m.type \in Heard(kind[s])}

\* The surfaces whose handler does not return at once.
Takes(m) ==
  {s \in Surfaces :
     /\ listening[s] /\ m.type \in Heard(kind[s])
     /\ kind[s] \in Sheets => ~resolved[s]}

Started(S) == [s \in Surfaces |->
  IF s \in S /\ closing[s] < 2 THEN closing[s] + 1 ELSE closing[s]]
\* popup.close() of each surface of S.
Shut(S) == [n \in Names |->
  IF \E s \in S : Name(kind[s]) = n /\ handle[s] = window[n].gen
  THEN ClosedWindow(n) ELSE window[n]]

\* An answer: a popup stops listening, a sheet is resolved and begins to go,
\* and who waits for tokens exchanges the code.
DispatchAnswer ==
  /\ queue # <<>> /\ Head(queue).type # "auth"
  /\ LET m == Head(queue)
         S == Takes(m)
         popups == {s \in S : kind[s] \notin Framed}
         sheets == {s \in S : kind[s] \in Sheets}
         waiting == {s \in S : m.type = "success" /\ kind[s] \in TakesTokens}
         closers == IF m.type = "close" THEN S ELSE {}
     IN /\ listening' = Off(listening, popups)
        /\ resolved' = [s \in Surfaces |-> resolved[s] \/ s \in sheets]
        /\ closing' = Started(sheets)
        /\ window' = Shut(popups \cup sheets)
        /\ exchanging' = [s \in Surfaces |->
             exchanging[s] \cup (IF s \in waiting THEN {m.code} ELSE {})]
        /\ results' = Counted(S \ (waiting \cup closers))
        /\ told' = Told(S \ (waiting \cup (closers \cap sheets)))
  /\ queue' = Tail(queue)
  /\ UNCHANGED <<kind, polling, frame, handle, serverVars, got>>

\* A page has gone to the login: a sheet without an open popup opens one, and
\* a sheet for sign-in that may not leaves the host's page.
DispatchLogin ==
  /\ queue # <<>> /\ Head(queue).type = "auth"
  /\ LET opening == {s \in Takes(Head(queue)) : ~HoldsOpen(s)} IN
       \E last \in SUBSET opening, blocked \in SUBSET {s \in opening : kind[s] \in Signing} :
         /\ \A s \in opening \ blocked :
              /\ CanOpen(Name(kind[s]))
              /\ Cardinality({t \in last : Name(kind[t]) = Name(kind[s])}) = 1
         /\ last \cap blocked = {}
         /\ window' = [n \in Names |->
              IF \E s \in last : Name(kind[s]) = n
              THEN OpenIn(n, CHOOSE s \in last : Name(kind[s]) = n)[n] ELSE window[n]]
         /\ handle' = [s \in Surfaces |->
              IF s \in opening \ blocked THEN window'[Name(kind[s])].gen
              ELSE IF s \in blocked THEN 0 ELSE handle[s]]
  /\ queue' = Tail(queue)
  /\ UNCHANGED <<hostVars, frame, serverVars, exchanging, historyVars>>

\* The sheet's popup is blocked: the host goes to the page itself, and every
\* surface with it.
LeaveHost ==
  /\ queue # <<>> /\ Head(queue).type = "auth"
  /\ \E s \in Takes(Head(queue)) : ~HoldsOpen(s) /\ kind[s] # "signingSheet"
  /\ listening' = [s \in Surfaces |-> FALSE]
  /\ polling' = [s \in Surfaces |-> FALSE]
  /\ closing' = [s \in Surfaces |-> 0]
  /\ frame' = [s \in Surfaces |-> "closed"]
  /\ queue' = <<>>
  /\ exchanging' = [s \in Surfaces |-> {}]
  /\ told' = [s \in Surfaces |-> TRUE]
  /\ UNCHANGED <<kind, resolved, window, handle, serverVars, results, got>>

-----------------------------------------------------------------------------
(* The exchange of a code, the timers, and closing                           *)

\* The verifier of the surface is that of the challenge.
Redeems(s, c) == code[c].of = s

\* The server spends the code before it compares the verifier.
Exchange(s) == \E c \in exchanging[s] :
  /\ exchanging' = [exchanging EXCEPT ![s] = @ \ {c}]
  /\ code' = [code EXCEPT ![c].spent = TRUE]
  /\ got' = IF ~code[c].spent /\ Redeems(s, c)
            THEN [got EXCEPT ![s] = @ \cup {code[c].of}] ELSE got
  /\ results' = Counted({s}) /\ told' = Told({s})
  /\ UNCHANGED <<hostVars, pageVars, queue, decided>>

\* The exchange fails on the way, whether or not the server had it.
ExchangeFails(s) == \E c \in exchanging[s] :
  /\ exchanging' = [exchanging EXCEPT ![s] = @ \ {c}]
  /\ code' \in {code, [code EXCEPT ![c].spent = TRUE]}
  /\ results' = Counted({s}) /\ told' = Told({s})
  /\ UNCHANGED <<hostVars, pageVars, queue, decided, got>>

\* The user, or the application, closes a sheet, which stays for 200 ms.
CloseSheet(s) ==
  /\ kind[s] \in Sheets /\ frame[s] # "closed" /\ closing[s] < 2
  /\ closing' = Started({s})
  /\ window' = Shut({s})
  /\ UNCHANGED <<kind, listening, resolved, polling, frame, handle, queue,
                 serverVars, exchanging, historyVars>>

SheetGoes(s) ==
  /\ closing[s] > 0
  /\ closing' = [closing EXCEPT ![s] = @ - 1]
  /\ listening' = Off(listening, {s})
  /\ frame' = [frame EXCEPT ![s] = "closed"]
  /\ handle' = [handle EXCEPT ![s] = 0]
  /\ told' = Told({s})
  /\ UNCHANGED <<kind, resolved, polling, window, queue, serverVars,
                 exchanging, results, got>>

\* The timer of a popup finds it closed.
Poll(s) ==
  /\ polling[s] /\ ~HoldsOpen(s)
  /\ polling' = Off(polling, {s})
  /\ listening' = Off(listening, {s})
  /\ handle' = [handle EXCEPT ![s] = 0]
  /\ told' = Told({s})
  /\ UNCHANGED <<kind, resolved, closing, frame, window, queue, serverVars,
                 exchanging, results, got>>

\* destroy() of a mount, close() of a popup.
Release(s) ==
  /\ kind[s] # None /\ kind[s] \notin Sheets
  /\ told' = Told({s})
  /\ listening' = Off(listening, {s})
  /\ polling' = Off(polling, {s})
  /\ frame' = [frame EXCEPT ![s] = "closed"]
  /\ window' = Shut({s} \ {t \in Surfaces : kind[t] = "mount"})
  /\ UNCHANGED <<kind, resolved, closing, handle, queue, serverVars,
                 exchanging, results, got>>

Next ==
  \/ \E s \in Surfaces, k \in Kinds : OpenFrame(s, k) \/ OpenPopup(s, k) \/ PopupBlocked(s, k)
  \/ \E s \in Surfaces :
       \/ Enter(s) \/ AskForStorage(s) \/ GoToLogin(s) \/ OpenHere(s) \/ LeaveEmbed(s)
       \/ Approve(s) \/ Decline(s) \/ DecideSignature(s)
       \/ Exchange(s) \/ ExchangeFails(s)
       \/ CloseSheet(s) \/ SheetGoes(s) \/ Poll(s) \/ Release(s)
  \/ \E n \in Names : WindowCloses(n)
  \/ DispatchAnswer \/ DispatchLogin \/ LeaveHost

Spec == Init /\ [][Next]_vars

-----------------------------------------------------------------------------
(* Properties                                                                *)

\* A surface gives the application one result at most, whatever its frame and
\* its popup both answer and however often it is closed, and tokens only for
\* the code that was asked for with its own challenge, although it hears the
\* answers to every other surface.  (embed.js: resolved and the removal of
\* the handlers; a mounted frame has neither and repeats what it hears.)
OneOwnAnswer ==
  \A s \in Surfaces :
    /\ kind[s] # "mount" => results[s] <= 1
    /\ got[s] \subseteq {s}

\* Until a sheet, or a popup for a sign-in or a signature, has called back, or
\* its own application has closed it, something is under way that will: an
\* exchange, the timeout that removes it, the timer, or a sheet the user can
\* still close.  (embed.js: the timers and the removal of the handlers.)
SomebodyIsTold ==
  \A s \in Surfaces :
    kind[s] \in Sheets \cup {"popup", "signingPopup"} =>
      \/ told[s] \/ exchanging[s] # {} \/ closing[s] > 0
      \/ polling[s]
      \/ kind[s] \in Sheets /\ listening[s] /\ frame[s] # "closed"
==============================================================================
