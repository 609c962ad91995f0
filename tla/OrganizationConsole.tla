------------------------- MODULE OrganizationConsole -------------------------
(***************************************************************************)
(* The organizations page, ave-web/src/routes/business/+page.svelte, with  *)
(* its panels, and what the server answers it.                             *)
(*                                                                         *)
(* A change is signed, sent and followed by a load; the page reads its     *)
(* `detail` again after each wait.  `busy` keeps two changes apart, but    *)
(* neither loads nor the upload of a logo, which has a flag of its own.    *)
(* The signed text does not name the organization.                         *)
(*                                                                         *)
(* Abstracted: what a change writes is a version of the organization, a    *)
(* logo its own.  Who may do what is in OrganizationMembers; a refusal, a  *)
(* lost answer and a signature that fails are Fail.                        *)
(***************************************************************************)
EXTENDS Naturals

CONSTANTS
  Orgs, First,  \* the organizations, and the one that is there at the start
  Clicks,       \* handlers that run at the same time
  MaxVersion,   \* how often an organization changes
  None

VARIABLES
  orgs, version, logo,               \* the server
  listed, selected, detail,          \* the page: logos of the list, what is open
  section, audited,                  \* the section, whose audit is loaded
  busy, uploading, loading,          \* its flags
  pc, kind, about, next, full, row,  \* the handlers; next: what a creation loads
  doubtful,                          \* history: handlers overlapped or one failed
  astray                             \* history: a change of one organization went to another

Versions == 0 .. MaxVersion
serverVars == <<orgs, version, logo>>
shownVars == <<selected, detail, section, audited>>
flagVars == <<busy, uploading, loading>>
handlerVars == <<pc, kind, about, next, full, row>>
historyVars == <<doubtful, astray>>
vars == <<serverVars, listed, shownVars, flagVars, handlerVars, historyVars>>

Rows == [Orgs -> (Versions \X Versions) \cup {None}]
Nothing == [o \in Orgs |-> None]
Answered(S) == [o \in Orgs |-> IF o \in S THEN <<version[o], logo[o]>> ELSE None]

TypeOK ==
  /\ orgs \subseteq Orgs /\ version \in [Orgs -> Versions] /\ logo \in [Orgs -> Versions]
  /\ listed \in [Orgs -> Versions \cup {None}] /\ selected \in Orgs \cup {None}
  /\ detail.org \in Orgs \cup {None} /\ detail.row \in (Versions \X Versions) \cup {None}
  /\ section \in {"overview", "audit"} /\ audited \in Orgs \cup {None}
  /\ busy \in BOOLEAN /\ uploading \in BOOLEAN /\ loading \in BOOLEAN
  /\ pc \in [Clicks -> {"idle", "bootstrap", "list", "ask", "show", "sign", "applied", "found", "founded", "logo"}]
  /\ kind \in [Clicks -> {"read", "page", "panel"}]
  /\ about \in [Clicks -> Orgs \cup {None}] /\ next \in [Clicks -> Orgs \cup {None}]
  /\ full \in [Clicks -> BOOLEAN] /\ row \in [Clicks -> Rows]
  /\ doubtful \in BOOLEAN /\ astray \in BOOLEAN

Closed == [org |-> None, row |-> None]

Asks(x) == [y \in Clicks |-> IF y = x THEN "bootstrap" ELSE "idle"]

\* onMount: the page asks for the list.
Init ==
  /\ orgs = {First} /\ version = [o \in Orgs |-> 0] /\ logo = [o \in Orgs |-> 0]
  /\ listed = Nothing /\ selected = None /\ detail = Closed
  /\ section = "overview" /\ audited = None
  /\ busy = FALSE /\ uploading = FALSE /\ loading = TRUE
  /\ \E x \in Clicks : pc = Asks(x)
  /\ kind = [x \in Clicks |-> "read"] /\ about = [x \in Clicks |-> None] /\ next = [x \in Clicks |-> None]
  /\ full = [x \in Clicks |-> FALSE] /\ row = [x \in Clicks |-> Nothing]
  /\ doubtful = FALSE /\ astray = FALSE

Busy == {x \in Clicks : pc[x] # "idle"}

\* The user clicks.  In a page in doubt nobody clicks on: this bounds the
\* instances.
Starts(x) ==
  /\ pc[x] = "idle" /\ ~doubtful
  /\ doubtful' = (Busy # {})

Goes(x, step) == pc' = [pc EXCEPT ![x] = step]

Ends(x) ==
  /\ Goes(x, "idle")
  /\ busy' = (busy /\ kind[x] = "read")
  /\ kind' = [kind EXCEPT ![x] = "read"]
  /\ about' = [about EXCEPT ![x] = None]
  /\ next' = [next EXCEPT ![x] = None]
  /\ full' = [full EXCEPT ![x] = FALSE]
  /\ row' = [row EXCEPT ![x] = Nothing]

-----------------------------------------------------------------------------
(* Loading.                                                                *)

\* loadOrganization, up to its request.
Load(x, o, audit) ==
  /\ Goes(x, "ask")
  /\ selected' = o
  /\ about' = [about EXCEPT ![x] = o]
  /\ full' = [full EXCEPT ![x] = audit]
  /\ row' = [row EXCEPT ![x] = Nothing]

\* selectOrganization.
SelectOrganization(x) ==
  /\ Starts(x)
  /\ \E o \in Orgs : listed[o] # None /\ Load(x, o, FALSE)
  /\ section' = "overview" /\ audited' = None
  /\ UNCHANGED <<serverVars, listed, detail, flagVars, kind, next, astray>>

\* selectSection: the audit of an organization is loaded when it is opened.
SelectAudit(x) ==
  /\ Starts(x) /\ detail.org # None
  /\ section' = "audit"
  /\ IF audited # detail.org
       THEN Load(x, detail.org, TRUE)
       ELSE UNCHANGED <<selected, pc, about, full, row>>
  /\ UNCHANGED <<serverVars, listed, detail, audited, flagVars, kind, next, astray>>

LeaveAudit ==
  /\ ~doubtful /\ section' = "overview"
  /\ UNCHANGED <<serverVars, listed, selected, detail, audited, flagVars, handlerVars, historyVars>>

\* GET /organizations/:organizationId.
Answer(x) ==
  /\ pc[x] = "ask"
  /\ Goes(x, "show")
  /\ row' = [row EXCEPT ![x] = Answered({about[x]})]
  /\ UNCHANGED <<serverVars, listed, shownVars, flagVars, kind, about, next, full, historyVars>>

\* After loadBootstrap a creation loads the organization it made.
Onwards(x) ==
  /\ loading' = FALSE
  /\ IF next[x] # None
       THEN /\ section' = "overview" /\ audited' = None
            /\ Load(x, next[x], FALSE)
            /\ next' = [next EXCEPT ![x] = None]
            /\ UNCHANGED <<kind, busy>>
       ELSE Ends(x) /\ UNCHANGED <<section, selected>>

\* loadOrganization, from the answer on: it is shown whatever is selected now.
ShowOrganization(x) ==
  LET o == about[x] IN
  /\ pc[x] = "show"
  /\ detail' = [org |-> o, row |-> row[x][o]]
  /\ IF next[x] # None
       THEN Onwards(x)
       ELSE /\ audited' = IF full[x] THEN o ELSE None
            /\ Ends(x)
            /\ UNCHANGED <<selected, section, loading>>
  /\ UNCHANGED <<serverVars, listed, uploading, historyVars>>

\* GET /organizations/bootstrap.
AnswerList(x) ==
  /\ pc[x] = "bootstrap"
  /\ Goes(x, "list")
  /\ row' = [row EXCEPT ![x] = Answered(orgs)]
  /\ UNCHANGED <<serverVars, listed, shownVars, flagVars, kind, about, next, full, historyVars>>

\* loadBootstrap, from the answer on; what is selected is loaded again.
ShowList(x) ==
  /\ pc[x] = "list"
  /\ listed' = [o \in Orgs |-> IF row[x][o] = None THEN None ELSE row[x][o][2]]
  /\ IF selected # None /\ row[x][selected] # None
       THEN Load(x, selected, FALSE) /\ UNCHANGED <<detail, section, audited, busy, loading, kind, next>>
       ELSE /\ detail' = Closed
            /\ IF next[x] # None THEN Onwards(x)
               ELSE Ends(x) /\ loading' = FALSE /\ selected' = None /\ UNCHANGED <<section, audited>>
  /\ UNCHANGED <<serverVars, uploading, historyVars>>

-----------------------------------------------------------------------------
(* Changes.                                                                *)

StartsChange(x, by) ==
  /\ Starts(x) /\ ~busy
  /\ busy' = TRUE
  /\ kind' = [kind EXCEPT ![x] = by]
  /\ UNCHANGED <<serverVars, listed, shownVars, uploading, loading, next, full, row, astray>>

Signs(x) ==
  /\ detail.org # None
  /\ Goes(x, "sign")
  /\ about' = [about EXCEPT ![x] = detail.org]

\* addIdentity, updateRole, removeMember, toggleSsoRequired: signBusinessAction
\* for the organization that is shown.
Change(x) == StartsChange(x, "page") /\ Signs(x)

\* The panels' createKey, rotateKey, savePolicy, addDomain, verifyDomain.
ChangeInPanel(x) == StartsChange(x, "panel") /\ Signs(x)

\* What was signed is sent for the organization that is shown by now, and done.
Apply(x) ==
  LET o == detail.org IN
  /\ pc[x] = "sign" /\ o # None
  /\ version[o] < MaxVersion
  /\ version' = [version EXCEPT ![o] = @ + 1]
  /\ astray' = (astray \/ o # about[x])
  /\ Goes(x, "applied")
  /\ UNCHANGED <<orgs, logo, listed, shownVars, flagVars, kind, about, next, full, row, doubtful>>

\* Then the organization shown by now is loaded again; reloadDetail loads its
\* audit again too, if it was there.
Applied(x) ==
  LET audit == section = "audit" \/ (kind[x] = "panel" /\ audited = detail.org) IN
  /\ pc[x] = "applied" /\ detail.org # None
  /\ Load(x, detail.org, audit)
  /\ UNCHANGED <<serverVars, listed, detail, section, audited, flagVars, kind, next, historyVars>>

\* createOrganization: signed, done, and everything loaded again.
CreateOrganization(x) ==
  /\ StartsChange(x, "page")
  /\ Goes(x, "found")
  /\ UNCHANGED about

Found(x) ==
  /\ pc[x] = "found"
  /\ \E o \in Orgs \ orgs :
       /\ orgs' = orgs \cup {o}
       /\ next' = [next EXCEPT ![x] = o]
  /\ Goes(x, "founded")
  /\ UNCHANGED <<version, logo, listed, shownVars, flagVars, kind, about, full, row, historyVars>>

Founded(x) ==
  /\ pc[x] = "founded"
  /\ loading' = TRUE
  /\ Goes(x, "bootstrap")
  /\ UNCHANGED <<serverVars, listed, shownVars, busy, uploading, kind, about, next, full, row, historyVars>>

\* uploadOrganizationLogo, which remembers the organization it is for.
UploadLogo(x) ==
  LET o == detail.org IN
  /\ Starts(x) /\ o # None /\ ~uploading
  /\ uploading' = TRUE
  /\ logo[o] < MaxVersion
  /\ logo' = [logo EXCEPT ![o] = @ + 1]
  /\ Goes(x, "logo")
  /\ about' = [about EXCEPT ![x] = o]
  /\ row' = [row EXCEPT ![x] = [Nothing EXCEPT ![o] = <<version[o], logo[o] + 1>>]]
  /\ UNCHANGED <<orgs, version, listed, shownVars, busy, loading, kind, next, full, astray>>

ShowLogo(x) ==
  LET o == about[x]  l == row[x][o][2] IN
  /\ pc[x] = "logo"
  /\ uploading' = FALSE
  /\ listed' = [listed EXCEPT ![o] = IF @ = None THEN None ELSE l]
  /\ detail' = IF detail.org = o THEN [detail EXCEPT !.row = <<@[1], l>>] ELSE detail
  /\ Ends(x)
  /\ UNCHANGED <<serverVars, selected, section, audited, loading, historyVars>>

\* Something fails; a load that fails closes the organization, and a creation
\* goes on after its list.
Fail(x) ==
  /\ pc[x] # "idle"
  /\ doubtful' = TRUE
  /\ uploading' = (uploading /\ pc[x] # "logo")
  /\ detail' = IF pc[x] \in {"ask", "show"} THEN Closed ELSE detail
  /\ IF pc[x] \in {"bootstrap", "list", "ask", "show"} /\ next[x] # None
       THEN Onwards(x)
       ELSE /\ loading' = (loading /\ pc[x] \notin {"bootstrap", "list"})
            /\ selected' = IF pc[x] \in {"ask", "show"} THEN None ELSE selected
            /\ Ends(x)
            /\ UNCHANGED <<section, audited>>
  /\ UNCHANGED <<serverVars, listed, astray>>

\* The page is loaded again.
Reload ==
  /\ listed' = Nothing /\ selected' = None /\ detail' = Closed
  /\ section' = "overview" /\ audited' = None
  /\ busy' = FALSE /\ uploading' = FALSE /\ loading' = TRUE
  /\ \E x \in Clicks : pc' = Asks(x)
  /\ kind' = [x \in Clicks |-> "read"] /\ about' = [x \in Clicks |-> None] /\ next' = [x \in Clicks |-> None]
  /\ full' = [x \in Clicks |-> FALSE] /\ row' = [x \in Clicks |-> Nothing]
  /\ doubtful' = FALSE /\ astray' = FALSE
  /\ UNCHANGED serverVars

Next ==
  \/ \E x \in Clicks :
       \/ SelectOrganization(x) \/ SelectAudit(x) \/ Answer(x) \/ ShowOrganization(x)
       \/ AnswerList(x) \/ ShowList(x) \/ Change(x) \/ ChangeInPanel(x) \/ Apply(x) \/ Applied(x)
       \/ CreateOrganization(x) \/ Found(x) \/ Founded(x) \/ UploadLogo(x) \/ ShowLogo(x) \/ Fail(x)
  \/ LeaveAudit \/ Reload

Spec == Init /\ [][Next]_vars

-----------------------------------------------------------------------------
(* Properties.                                                             *)

\* At rest no flag is left set, however the handlers ended.  Unless handlers
\* overlapped or one failed, what was signed for an organization was done to
\* it, and a page at rest shows the selected one, its logo in the list and in
\* the audit section its audit, as the server has them.
QuietPageAgrees ==
  /\ Busy = {} => ~busy /\ ~uploading /\ ~loading
  /\ ~doubtful =>
       /\ ~astray
       /\ Busy = {} => /\ detail.org = selected
                       /\ detail.row = Answered({selected} \cap Orgs)[IF selected = None THEN First ELSE selected]
                       /\ \A o \in Orgs : listed[o] = IF o \in orgs THEN logo[o] ELSE None
                       /\ section = "audit" /\ selected # None => audited = selected
=============================================================================
