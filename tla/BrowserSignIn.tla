----------------------------- MODULE BrowserSignIn -----------------------------
(***************************************************************************)
(* Signing in by redirect, in the browser of an application:               *)
(*   sdks/ave-sdk/src/client.ts                                            *)
(*   ave-server/src/routes/oauth/authorization-code.ts                     *)
(*                                                                         *)
(* A start keeps its verifier, state and nonce in the storage of its tab,  *)
(* one entry per flow, and leaves for Ave; the callback page reads the     *)
(* entry back and exchanges the code.  A start bears the name of the       *)
(* verifier, state and nonce it generates, and so does its code.           *)
(*                                                                         *)
(* Abstracted: the answer of a login is a code or none; ages are fresh or  *)
(* past the limit; the connector flow, which no function finishes.         *)
(***************************************************************************)
EXTENDS Integers

CONSTANTS
  Tabs,
  Starts,    \* calls of startPkceLogin, startQuickSignIn and signIn
  Finishes,  \* calls of finishPkceLogin and finishQuickSignIn
  None

VARIABLES
  step,      \* of each start: idle, hashing, left, or with FedCM asking,
             \* asserted; then done or failed
  made,      \* where and how it was made: [tab, flow]
  entry,     \* sessionStorage: the start whose bundle each entry holds
  old,       \* the entry is past its limit
  returnTo,  \* sessionStorage: the start that said where to go afterwards
  going,     \* the start whose address a tab is about to load
  at,        \* what a tab shows: [page, of]
  code,      \* of each start: none, issued or spent
  fin,       \* each finish: [at, tab, of, verifier], of being the start whose
             \* code and state are in its page's address
  identity,  \* localStorage: the start whose identity is kept
  monitor,   \* of each tab: [run, checks], checks being those in flight;
             \* bound: one monitor until it has asked
  signedIn,  \* history: the starts each tab has finished, and for whom
  asked,     \* history: times onLoginRequired was called, up to 2
  crossed    \* history: starts that shared a tab's entry with another, aged,
             \* or had their code refused before it was looked at

storageVars == <<entry, old, returnTo, identity>>
tabVars == <<going, at>>
startVars == <<step, made>>
historyVars == <<signedIn, asked, crossed>>
vars == <<startVars, storageVars, tabVars, code, fin, monitor, historyVars>>

Protocols == {"oidc", "quick"}
Maybe == Starts \cup {None}
Idle == [at |-> "idle", tab |-> None, of |-> None, verifier |-> None]

TypeOK ==
  /\ step \in [Starts -> {"idle", "hashing", "left", "asking", "asserted", "done", "failed"}]
  /\ made \in [Starts -> [tab : Tabs \cup {None}, flow : Protocols \cup {"fedcm", None}]]
  /\ entry \in [Tabs -> [Protocols -> Maybe]]
  /\ old \in [Tabs -> [Protocols -> BOOLEAN]]
  /\ returnTo \in [Tabs -> Maybe]
  /\ going \in [Tabs -> Maybe]
  /\ at \in [Tabs -> [page : {"app", "ave", "callback"}, of : Maybe]]
  /\ code \in [Starts -> {"none", "issued", "spent"}]
  /\ fin \in [Finishes -> [at : {"idle", "sent", "granted", "done", "failed"},
                           tab : Tabs \cup {None}, of : Maybe, verifier : Maybe]]
  /\ identity \in Maybe
  /\ monitor \in [Tabs -> [run : {"off", "on", "stopped"}, checks : 0..2]]
  /\ signedIn \in [Tabs -> SUBSET Starts]
  /\ asked \in [Tabs -> 0..2]
  /\ crossed \subseteq Starts

Init ==
  /\ step = [n \in Starts |-> "idle"]
  /\ made = [n \in Starts |-> [tab |-> None, flow |-> None]]
  /\ entry = [t \in Tabs |-> [f \in Protocols |-> None]]
  /\ old = [t \in Tabs |-> [f \in Protocols |-> FALSE]]
  /\ returnTo = [t \in Tabs |-> None]
  /\ going = [t \in Tabs |-> None]
  /\ at = [t \in Tabs |-> [page |-> "app", of |-> None]]
  /\ code = [n \in Starts |-> "none"]
  /\ fin = [x \in Finishes |-> Idle]
  /\ identity = None
  /\ monitor = [t \in Tabs |-> [run |-> "off", checks |-> 0]]
  /\ signedIn = [t \in Tabs |-> {}]
  /\ asked = [t \in Tabs |-> 0]
  /\ crossed = {}

\* The starts that meet in an entry with n.
Meets(n, t, f) == {m \in Starts : made[m] = [tab |-> t, flow |-> f]}
Crosses(S) == crossed' = crossed \cup S

-----------------------------------------------------------------------------
(* Starting                                                                  *)

\* The bundle is generated, and its challenge is being hashed; a quick start
\* has noted where to return to.
Start(n, t, f) ==
  /\ step[n] = "idle" /\ at[t].page # "ave"
  /\ step' = [step EXCEPT ![n] = "hashing"]
  /\ made' = [made EXCEPT ![n] = [tab |-> t, flow |-> f]]
  /\ returnTo' = IF f = "quick" THEN [returnTo EXCEPT ![t] = n] ELSE returnTo
  /\ Crosses(IF Meets(n, t, f) # {} THEN {n} \cup Meets(n, t, f) ELSE {})
  /\ UNCHANGED <<entry, old, identity, tabVars, code, fin, monitor, signedIn, asked>>

\* Storing the bundle and naming the next page are one step.
Store(n) == LET t == made[n].tab IN LET f == made[n].flow IN
  /\ step[n] = "hashing" /\ f \in Protocols
  /\ step' = [step EXCEPT ![n] = "left"]
  /\ entry' = [entry EXCEPT ![t][f] = n]
  /\ old' = [old EXCEPT ![t][f] = FALSE]
  /\ going' = [going EXCEPT ![t] = n]
  /\ UNCHANGED <<made, returnTo, identity, at, code, fin, monitor, historyVars>>

\* A page is unloaded: what it had sent may or may not arrive.
Unload(t) ==
  /\ fin' = [x \in Finishes |->
       IF fin[x].tab = t /\ fin[x].at \in {"sent", "granted"}
       THEN [Idle EXCEPT !.at = "failed"] ELSE fin[x]]
  /\ code' \in {code, [n \in Starts |->
       IF \E x \in Finishes : fin[x].tab = t /\ fin[x].at = "sent" /\ fin[x].of = n
       THEN "spent" ELSE code[n]]}
  /\ step' = [n \in Starts |->
       IF made[n].tab = t /\ step[n] \in {"hashing", "asking", "asserted"} THEN "failed" ELSE step[n]]
  /\ monitor' = [monitor EXCEPT ![t] = [run |-> "off", checks |-> 0]]

Leave(t) ==
  /\ going[t] # None
  /\ at' = [at EXCEPT ![t] = [page |-> "ave", of |-> going[t]]]
  /\ going' = [going EXCEPT ![t] = None]
  /\ Unload(t)
  /\ UNCHANGED <<made, storageVars, historyVars>>

\* Ave sends the tab back with a code, or with an error and no code.
ComeBack(t) ==
  /\ at[t].page = "ave"
  /\ \/ /\ code[at[t].of] = "none"
        /\ at' = [at EXCEPT ![t].page = "callback"]
        /\ code' = [code EXCEPT ![at[t].of] = "issued"]
     \/ /\ at' = [at EXCEPT ![t] = [page |-> "app", of |-> None]]
        /\ UNCHANGED code
  /\ UNCHANGED <<startVars, storageVars, going, fin, monitor, historyVars>>

\* The address of a callback is loaded again: the page is reloaded, or the
\* address is found in the history or copied to another tab.
Revisit(t, n) ==
  /\ code[n] # "none" /\ at[t].page # "ave" /\ going[t] = None
  /\ \E x \in Finishes : fin[x].at = "idle"
  /\ at' = [at EXCEPT ![t] = [page |-> "callback", of |-> n]]
  /\ Unload(t)
  /\ UNCHANGED <<made, storageVars, going, historyVars>>

-----------------------------------------------------------------------------
(* Finishing                                                                 *)

\* readPkceState: too old an entry is removed.
Expired(x, t, f) ==
  /\ fin[x].at = "idle" /\ at[t].page = "callback"
  /\ entry[t][f] # None /\ old[t][f]
  /\ fin' = [fin EXCEPT ![x].at = "failed"]
  /\ entry' = [entry EXCEPT ![t][f] = None]
  /\ old' = [old EXCEPT ![t][f] = FALSE]
  /\ UNCHANGED <<startVars, returnTo, identity, tabVars, code, monitor, historyVars>>

BelongsBug(t, f, n) == TRUE
\* The state in the address is the one in the entry.
Belongs(t, f, n) == entry[t][f] = n

Send(x, t, f) ==
  /\ fin[x].at = "idle" /\ at[t].page = "callback"
  /\ entry[t][f] # None /\ ~old[t][f] /\ Belongs(t, f, at[t].of)
  /\ fin' = [fin EXCEPT ![x] =
       [at |-> "sent", tab |-> t, of |-> at[t].of, verifier |-> entry[t][f]]]
  /\ UNCHANGED <<startVars, storageVars, tabVars, code, monitor, historyVars>>

\* No entry, or one of another start: the page has an error to show.
Refuse(x, t, f) ==
  /\ fin[x].at = "idle" /\ at[t].page = "callback"
  /\ entry[t][f] = None \/ (~old[t][f] /\ ~Belongs(t, f, at[t].of))
  /\ fin' = [fin EXCEPT ![x].at = "failed"]
  /\ UNCHANGED <<startVars, storageVars, tabVars, code, monitor, historyVars>>

Flow(x) == made[fin[x].verifier].flow
Forgotten(x) == [entry EXCEPT ![fin[x].tab][Flow(x)] = None]
Ends(x, result) == fin' = [fin EXCEPT ![x] = [Idle EXCEPT !.at = result]]

\* The server spends the code and compares the verifier.
Granted(x) ==
  /\ fin[x].at = "sent" /\ code[fin[x].of] = "issued" /\ fin[x].verifier = fin[x].of
  /\ code' = [code EXCEPT ![fin[x].of] = "spent"]
  /\ fin' = [fin EXCEPT ![x].at = "granted"]
  /\ UNCHANGED <<startVars, storageVars, tabVars, monitor, historyVars>>

RefusalForgetsBug(f, answer) == TRUE
\* The standard flow keeps its entry when the exchange fails, a quick start
\* when the server has not said no.
RefusalForgets(f, answer) == f = "quick" /\ answer = "refused"

\* The exchange fails: the code is spent already or not this verifier's, the
\* request is one too many (refused unread), or the server or the network
\* fails before or after the code is spent.
Failed(x) ==
  /\ fin[x].at = "sent"
  /\ \E answer \in {"refused", "limited", "lost"} :
       /\ answer = "refused" => code[fin[x].of] = "spent" \/ fin[x].verifier # fin[x].of
       /\ code' \in {code} \cup (IF answer = "limited" THEN {}
                                 ELSE {[code EXCEPT ![fin[x].of] = "spent"]})
       /\ answer = "refused" => code'[fin[x].of] = "spent"
       /\ entry' = IF RefusalForgets(Flow(x), IF answer = "limited" THEN "refused" ELSE answer)
                   THEN Forgotten(x) ELSE entry
       /\ Crosses(IF answer = "limited" THEN {fin[x].of} ELSE {})
  /\ Ends(x, "failed")
  /\ UNCHANGED <<startVars, old, returnTo, identity, tabVars, monitor, signedIn, asked>>

\* A signature, an audience, a nonce or a subject that is not as expected ends
\* the call with an error.
VerifyReturnedTokens == BOOLEAN

\* The tokens are there: the entry is forgotten, they are verified, a quick
\* identity is kept and the tab goes where it came from.
Finish(x) == LET t == fin[x].tab IN
  /\ fin[x].at = "granted"
  /\ entry' = Forgotten(x)
  /\ \E verified \in VerifyReturnedTokens :
       /\ signedIn' = IF verified THEN [signedIn EXCEPT ![t] = @ \cup {fin[x].of}] ELSE signedIn
       /\ identity' = IF verified /\ Flow(x) = "quick" THEN fin[x].of ELSE identity
       /\ returnTo' = IF verified /\ Flow(x) = "quick"
                      THEN [returnTo EXCEPT ![t] = None] ELSE returnTo
       /\ at' = IF verified THEN [at EXCEPT ![t] = [page |-> "app", of |-> None]] ELSE at
  /\ Ends(x, "done")
  /\ UNCHANGED <<startVars, old, going, code, monitor, asked, crossed>>

\* signIn where the browser has FedCM: an assertion, then its exchange.
AskBrowser(n, t) ==
  /\ step[n] = "idle" /\ at[t].page = "app"
  /\ step' = [step EXCEPT ![n] = "asking"]
  /\ made' = [made EXCEPT ![n] = [tab |-> t, flow |-> "fedcm"]]
  /\ UNCHANGED <<storageVars, tabVars, code, fin, monitor, historyVars>>
Asserted(n) ==
  /\ step[n] = "asking"
  /\ \E r \in {"asserted", "failed"} : step' = [step EXCEPT ![n] = r]
  /\ UNCHANGED <<made, storageVars, tabVars, code, fin, monitor, historyVars>>
ExchangeAssertion(n) ==
  /\ step[n] = "asserted"
  /\ \E r \in {"done", "failed"} :
       /\ step' = [step EXCEPT ![n] = r]
       /\ signedIn' = IF r = "done" THEN [signedIn EXCEPT ![made[n].tab] = @ \cup {n}] ELSE signedIn
  /\ UNCHANGED <<made, storageVars, tabVars, code, fin, monitor, asked, crossed>>

-----------------------------------------------------------------------------
(* Time, and the monitor of a quick session                                  *)

Age(t, f) ==
  /\ entry[t][f] # None /\ ~old[t][f]
  /\ old' = [old EXCEPT ![t][f] = TRUE]
  /\ Crosses({entry[t][f]})
  /\ UNCHANGED <<startVars, entry, returnTo, identity, tabVars, code, fin,
                 monitor, signedIn, asked>>

\* clearQuickIdentity, or getQuickIdentity of one whose time is over.
Forget ==
  /\ identity # None
  /\ identity' = None
  /\ UNCHANGED <<startVars, entry, old, returnTo, tabVars, code, fin, monitor, historyVars>>

StartMonitor(t) ==
  /\ monitor[t].run = "off" /\ at[t].page = "app" /\ asked[t] = 0
  /\ monitor' = [monitor EXCEPT ![t].run = "on"]
  /\ UNCHANGED <<startVars, storageVars, tabVars, code, fin, historyVars>>

TicksBug(t) == monitor[t].run = "on" /\ monitor[t].checks < 2
Ticks(t) == monitor[t].run = "on" /\ monitor[t].checks = 0

RunCheck(t) ==
  /\ Ticks(t)
  /\ monitor' = [monitor EXCEPT ![t].checks = @ + 1]
  /\ UNCHANGED <<startVars, storageVars, tabVars, code, fin, historyVars>>

\* checkQuickSession: without an identity the answer is known.
Checked(t) ==
  /\ monitor[t].checks > 0
  /\ \/ /\ monitor' = [monitor EXCEPT ![t] = [run |-> "stopped", checks |-> @.checks - 1]]
        /\ asked' = [asked EXCEPT ![t] = IF @ = 2 THEN 2 ELSE @ + 1]
     \/ /\ identity # None
        /\ monitor' = [monitor EXCEPT ![t].checks = @ - 1]
        /\ UNCHANGED asked
  /\ UNCHANGED <<startVars, storageVars, tabVars, code, fin, signedIn, crossed>>

StopMonitor(t) ==
  /\ monitor[t].run = "on"
  /\ monitor' = [monitor EXCEPT ![t].run = "stopped"]
  /\ UNCHANGED <<startVars, storageVars, tabVars, code, fin, historyVars>>

Next ==
  \/ \E n \in Starts :
       \/ Store(n) \/ Asserted(n) \/ ExchangeAssertion(n)
       \/ \E t \in Tabs : Revisit(t, n) \/ AskBrowser(n, t) \/ \E f \in Protocols : Start(n, t, f)
  \/ \E t \in Tabs :
       \/ Leave(t) \/ ComeBack(t)
       \/ StartMonitor(t) \/ RunCheck(t) \/ Checked(t) \/ StopMonitor(t)
       \/ \E f \in Protocols : Age(t, f)
  \/ \E x \in Finishes :
       \/ Granted(x) \/ Failed(x) \/ Finish(x)
       \/ \E t \in Tabs, f \in Protocols : Expired(x, t, f) \/ Send(x, t, f) \/ Refuse(x, t, f)
  \/ Forget

Spec == Init /\ [][Next]_vars

-----------------------------------------------------------------------------
(* Properties                                                                *)

\* A code goes to the server with the verifier it was asked for with, so that
\* no exchange spends a code in vain, and a tab is signed in by its own starts
\* only, whatever other starts, tabs, reloads and copied addresses there are.
\* (finishPkceLogin and finishQuickSignIn compare the state first.)
OwnVerifier ==
  /\ \A x \in Finishes : fin[x].at \in {"sent", "granted"} => fin[x].verifier = fin[x].of
  /\ \A t \in Tabs : \A n \in signedIn[t] : made[n].tab = t

\* A start that is alone in its tab's entry keeps its bundle until its code is
\* spent, so that an exchange that never reached the server can be repeated.
\* (finishQuickSignIn: only a refusal removes the entry.)
LoneStartKeepsBundle ==
  \A n \in Starts \ crossed :
    step[n] = "left" /\ code[n] # "spent" => entry[made[n].tab][made[n].flow] = n

\* A monitor calls onLoginRequired once, however its checks overlap with its
\* ticks and with being stopped.  (startQuickSessionMonitor: inFlight, stopped.)
MonitorAsksOnce == \A t \in Tabs : asked[t] <= 1
==============================================================================
