--------------------------- MODULE RefreshTokens ---------------------------
(***************************************************************************)
(* The refresh-token grant of the token endpoint:                          *)
(*   ave-server/src/routes/oauth/refresh-token.ts  handleRefreshToken      *)
(*   ave-server/src/routes/oauth/shared.ts  markRefreshTokenFamilyReuse,   *)
(*     the first row of a family in buildTokenResponseFromAuthorizationCode*)
(*   ave-server/src/db/schema.ts  oauthRefreshTokens                       *)
(*                                                                         *)
(* A handler is a sequence of database statements with an await between    *)
(* them, and there is no transaction: every statement is one step here,    *)
(* and the steps of different handlers interleave.  What a handler decides *)
(* from the row it has read is decided in the step that reads it, since no *)
(* await separates the two.  A worker may die between two statements.      *)
(*                                                                         *)
(* Abstracted: the token string (a token is its row id), the access token  *)
(* and the JWTs (written with the rotated row, in the same batch), the     *)
(* client secret (a request with wrong credentials returns before it       *)
(* changes anything) and the clock (`expired' grows at any time).          *)
(***************************************************************************)
EXTENDS Naturals

CONSTANTS
  Tokens,    \* ids of the rows oauth_refresh_tokens may come to hold
  Requests,  \* handler invocations that may be in progress at once
  NoToken    \* null: rotatedFromId of the first token of a family

ASSUME NoTokenAssumption == NoToken \notin Tokens

VARIABLES
  issued,       \* ids of the rows that exist
  family,       \* familyId of each row (its own id before it exists)
  parent,       \* rotatedFromId of each row
  revoked,      \* rows whose revokedAt is set
  reused,       \* rows whose reuseDetectedAt is set
  expired,      \* rows whose expiresAt has passed
  orgBound,     \* rows that carry an organizationId and organizationMemberId
  ssoBound,     \* rows whose enterpriseSsoOrganizationId is the organization
  pc,           \* the next statement of each handler
  tok,          \* the row each handler has read (storedRefresh)
  nxt,          \* the token it generated for the rotation
  ctxSso,       \* handlers whose context says organizationAuthMethod "enterprise_sso"
  presented,    \* history: tokens some handler has looked up
  replayed,     \* history: tokens looked up at least twice
  orphaned      \* history: tokens whose handler died after the claim

rowVars == <<issued, family, parent, revoked, reused, expired>>
orgRowVars == <<orgBound, ssoBound>>
handlerVars == <<pc, tok, nxt, ctxSso>>
historyVars == <<presented, replayed, orphaned>>
vars == <<rowVars, orgRowVars, handlerVars, historyVars>>

PCs == {"idle", "context", "claim", "insert", "mark", "expire"}

TypeOK ==
  /\ issued \subseteq Tokens
  /\ family \in [Tokens -> Tokens]
  /\ parent \in [Tokens -> Tokens \cup {NoToken}]
  /\ revoked \subseteq issued
  /\ reused \subseteq issued
  /\ expired \subseteq issued
  /\ orgBound \subseteq issued
  /\ ssoBound \subseteq orgBound
  /\ pc \in [Requests -> PCs]
  /\ tok \in [Requests -> Tokens \cup {NoToken}]
  /\ nxt \in [Requests -> Tokens \cup {NoToken}]
  /\ ctxSso \subseteq Requests
  /\ presented \subseteq issued
  /\ replayed \subseteq presented
  /\ orphaned \subseteq issued

Init ==
  /\ issued = {} /\ revoked = {} /\ reused = {} /\ expired = {}
  /\ family = [t \in Tokens |-> t]
  /\ parent = [t \in Tokens |-> NoToken]
  /\ orgBound = {} /\ ssoBound = {}
  /\ pc = [r \in Requests |-> "idle"]
  /\ tok = [r \in Requests |-> NoToken]
  /\ nxt = [r \in Requests |-> NoToken]
  /\ ctxSso = {}
  /\ presented = {} /\ replayed = {} /\ orphaned = {}

----------------------------------------------------------------------------

\* A token the grant still accepts: neither column is set (lines 72, 175).
Unused(t) == t \notin revoked /\ t \notin reused
Live == {t \in issued : Unused(t)}

SameFamily(t, u) == family[t] = family[u]

\* The rows a reuse marks and the row an expiry revokes; what identifies the
\* row a claim updates, and where the successor says it comes from.  The
\* operators in -Bug are faults the properties below must notice.
FamilyOfBug(t) == issued
FamilyOf(t) == {u \in issued : SameFamily(u, t)}

RetiredBug(t) == FamilyOf(t)
Retired(t) == {t}

ClaimableBug(t) == t \in issued
Claimable(t) == Unused(t)

RotatedFrom(r) == tok[r]

\* The lookup by token hash finds a row.
Found(t) == t \in issued

\* generateRefreshToken never returns a token that exists or that another
\* handler has generated.
Fresh(u) == u \notin issued /\ \A r \in Requests : nxt[r] # u

\* The handler returns its response, or its worker dies.
Finish(r) ==
  /\ pc' = [pc EXCEPT ![r] = "idle"]
  /\ tok' = [tok EXCEPT ![r] = NoToken]
  /\ nxt' = [nxt EXCEPT ![r] = NoToken]
  /\ ctxSso' = ctxSso \ {r}

Goto(r, to) == pc' = [pc EXCEPT ![r] = to]

----------------------------------------------------------------------------

(* The code exchange inserts the first row of a family: its own id is the  *)
(* family id.  Whether the sign-in was an enterprise SSO one was settled   *)
(* when the code was issued, so it is independent of ssoRequired now.      *)
Issue(t, org, sso) ==
  /\ Fresh(t)
  /\ sso => org
  /\ issued' = issued \cup {t}
  /\ orgBound' = IF org THEN orgBound \cup {t} ELSE orgBound
  /\ ssoBound' = IF sso THEN ssoBound \cup {t} ELSE ssoBound
  /\ UNCHANGED <<family, parent, revoked, reused, expired>>
  /\ UNCHANGED <<handlerVars, historyVars>>

(* Where the handler goes after it has read the row, in the order of its   *)
(* early returns.                                                          *)
AfterRead(t) ==
  CASE ~Unused(t) -> "mark"
    [] Unused(t) /\ t \in expired -> "expire"
    [] Unused(t) /\ t \notin expired /\ t \in orgBound -> "context"
    [] OTHER -> "claim"

(* A client presents token t: the handler reads the row, its application   *)
(* and its identity.  If it goes on to rotate, the token it rotates to is  *)
(* one generateRefreshToken has not returned before.                       *)
Present(r, t) ==
  /\ pc[r] = "idle"
  /\ Found(t)
  /\ pc' = [pc EXCEPT ![r] = AfterRead(t)]
  /\ tok' = [tok EXCEPT ![r] = t]
  /\ IF AfterRead(t) \in {"context", "claim"}
     THEN \E u \in Tokens : Fresh(u) /\ nxt' = [nxt EXCEPT ![r] = u]
     ELSE UNCHANGED nxt
  /\ presented' = presented \cup {t}
  /\ replayed' = replayed \cup ({t} \cap presented)
  /\ UNCHANGED <<rowVars, orgRowVars, ctxSso, orphaned>>

(* The organization context of the token, read before the claim: whether   *)
(* the member row is active and whether the organization requires SSO may  *)
(* have changed at any time.  Without an active member, or when an SSO     *)
(* sign-in is required that this family does not descend from, the handler *)
(* returns and the token stays as it is.                                   *)
ContextRefusedBug(t, active, required) == ~active
ContextRefused(t, active, required) ==
  ~active \/ (required /\ t \notin ssoBound)

ReadContext(r) ==
  /\ pc[r] = "context"
  /\ \E active, required \in BOOLEAN :
       IF ContextRefused(tok[r], active, required)
       THEN Finish(r)
       ELSE /\ Goto(r, "claim")
            /\ ctxSso' = IF required THEN ctxSso \cup {r} ELSE ctxSso
            /\ UNCHANGED <<tok, nxt>>
  /\ UNCHANGED <<rowVars, orgRowVars, historyVars>>

(* UPDATE ... SET revokedAt WHERE both columns are null, RETURNING: at most *)
(* one handler gets the row.  The expiry is not looked at again.           *)
Claim(r) ==
  /\ pc[r] = "claim"
  /\ IF Claimable(tok[r])
     THEN /\ revoked' = revoked \cup {tok[r]}
          /\ Goto(r, "insert")
     ELSE /\ Goto(r, "mark")
          /\ UNCHANGED revoked
  /\ UNCHANGED <<issued, family, parent, reused, expired, tok, nxt, ctxSso>>
  /\ UNCHANGED <<orgRowVars, historyVars>>

(* The batch that writes the access token and the rotated row.             *)
Insert(r) ==
  /\ pc[r] = "insert"
  /\ issued' = issued \cup {nxt[r]}
  /\ family' = [family EXCEPT ![nxt[r]] = family[tok[r]]]
  /\ parent' = [parent EXCEPT ![nxt[r]] = RotatedFrom(r)]
  /\ orgBound' = IF tok[r] \in orgBound THEN orgBound \cup {nxt[r]} ELSE orgBound
  /\ ssoBound' = IF r \in ctxSso THEN ssoBound \cup {nxt[r]} ELSE ssoBound
  /\ Finish(r)
  /\ UNCHANGED <<revoked, reused, expired, historyVars>>

(* markRefreshTokenFamilyReuse: the rows of the family that exist now.     *)
MarkFamily(r) ==
  /\ pc[r] = "mark"
  /\ reused' = reused \cup FamilyOf(tok[r])
  /\ Finish(r)
  /\ UNCHANGED <<issued, family, parent, revoked, expired>>
  /\ UNCHANGED <<orgRowVars, historyVars>>

(* An expired token is revoked by id, whatever the row says by then.       *)
RetireExpired(r) ==
  /\ pc[r] = "expire"
  /\ revoked' = revoked \cup Retired(tok[r])
  /\ Finish(r)
  /\ UNCHANGED <<issued, family, parent, reused, expired>>
  /\ UNCHANGED <<orgRowVars, historyVars>>

(* The worker dies, or a statement throws, between two statements.         *)
Crash(r) ==
  /\ pc[r] # "idle"
  /\ orphaned' = IF pc[r] = "insert" THEN orphaned \cup {tok[r]} ELSE orphaned
  /\ Finish(r)
  /\ UNCHANGED <<rowVars, orgRowVars, presented, replayed>>

\* A token's expiresAt passes.
Expire(t) ==
  /\ t \in issued \ expired
  /\ expired' = expired \cup {t}
  /\ UNCHANGED <<issued, family, parent, revoked, reused>>
  /\ UNCHANGED <<orgRowVars, handlerVars, historyVars>>

Handler(r) ==
  ReadContext(r) \/ Claim(r) \/ Insert(r) \/ MarkFamily(r) \/ RetireExpired(r)

Next ==
  \/ \E t \in Tokens, org, sso \in BOOLEAN : Issue(t, org, sso)
  \/ \E r \in Requests, t \in Tokens : Present(r, t)
  \/ \E r \in Requests : Handler(r)
  \/ \E r \in Requests : Crash(r)
  \/ \E t \in Tokens : Expire(t)

Spec == Init /\ [][Next]_vars

----------------------------------------------------------------------------
(* Properties.                                                             *)

(* A sign-in is one session: whatever handlers race, crash or replay, a    *)
(* family never has two tokens the grant would accept                      *)
(* (claim of refresh-token.ts 170-178 before the insert of 211-227).       *)
AtMostOneLive == \A t, u \in Live : SameFamily(t, u) => t = u

(* A token is exchanged at most once: no two rows are rotated from the     *)
(* same row, and a row that was rotated is revoked ("Each successful       *)
(* refresh invalidates the old token and issues a new one").               *)
LinearRotation ==
  \A t, u \in issued :
    parent[u] = t =>
      /\ t \in revoked
      /\ SameFamily(t, u)
      /\ \A v \in issued : parent[v] = t => v = u

(* Reuse detection is scoped to the lineage that was reused: a token is    *)
(* marked only if some token of its own family was presented twice         *)
(* (oauth-endpoints.mdx 131; markRefreshTokenFamilyReuse).                 *)
ReuseOnlyAfterReplay ==
  \A t \in reused : \E u \in replayed : SameFamily(t, u)

(* A refresh never upgrades how the user signed in: a token, and so the    *)
(* auth_method claim minted with it, is bound to enterprise SSO only if    *)
(* the sign-in that started its family was, and it carries an organization *)
(* exactly if that sign-in did, through every change of the organization's *)
(* policy (refresh-token.ts 97-143, 222-225).                              *)
SsoLineage ==
  \A t \in issued :
    /\ t \in ssoBound => family[t] \in ssoBound
    /\ t \in orgBound <=> family[t] \in orgBound

(* A session does not end silently: the newest token of a family is        *)
(* accepted unless it expired, was marked as reused, is being rotated, or  *)
(* was claimed by a worker that died before it wrote the successor.        *)
TipAccounted ==
  \A t \in issued :
    (\A u \in issued : parent[u] # t) =>
      \/ t \notin revoked
      \/ t \in expired \cup reused \cup orphaned
      \/ \E r \in Requests : pc[r] = "insert" /\ tok[r] = t

(* "Ave only invalidates the rotated token lineage that was reused"        *)
(* (common-mistakes-and-edge-cases.mdx 67): once reuse is detected, no     *)
(* token of the lineage is accepted.                                       *)
LineageInvalidated ==
  \A t \in Live, u \in reused : ~SameFamily(t, u)

(* The lineages as TokenLineage promises them.                             *)
LiveOf(f) ==
  IF \E t \in Live : family[t] = f
  THEN CHOOSE t \in Live : family[t] = f
  ELSE NoToken

Lineage == INSTANCE TokenLineage WITH
  live <- [f \in Tokens |-> LiveOf(f)],
  rotating <- {f \in Tokens : \E r \in Requests :
                  pc[r] = "insert" /\ family[tok[r]] = f},
  used <- issued

(* The grant implements TokenLineage: one token at a time is handed over   *)
(* within a lineage, and a lineage that has neither a token nor a rotation *)
(* in progress is over for good.                                           *)
ImplementsLineage == Lineage!Spec

============================================================================
