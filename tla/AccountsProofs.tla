--------------------------- MODULE AccountsProofs ----------------------------
(***************************************************************************)
(* What the ten parts of MCAccounts guarantee for every value of the       *)
(* constants: for each part an invariant that its steps preserve and the   *)
(* properties that follow from it, and at the end the properties of the    *)
(* parts side by side. The part that signs rests on the invariant of       *)
(* SignatureRequestsProofs, for it runs the server's handlers.             *)
(***************************************************************************)
EXTENDS MCAccounts, FiniteSetTheorems, TLAPS

-----------------------------------------------------------------------------
(* Sign-ins, sessions and passkeys (SignInSessions).                       *)

\* What a login has found is there, and it spends its challenge before it
\* looks for a device.
LoginSound(l) ==
  /\ lpc[l] \in {"passkey", "spend"} => chal[l] \in Challenges
  /\ lpc[l] \in {"device", "update", "insert", "session", "done"} =>
       chal[l] \in Challenges /\ challenge[chal[l]] = "gone"
  /\ lpc[l] \in {"update", "session"} => ldev[l] \in Logins
  /\ session[l] = "none" => on[l] = None
  /\ session[l] # "none" => lpc[l] = "done" /\ on[l] \in Logins
  /\ session[l] \in {"live", "ending", "expired"} => Referenced(on[l])

SessionInv ==
  /\ TypeOK
  /\ \A l \in Logins : LoginSound(l)
  /\ \A q \in Calls : qpc[q] = "renew" => qof[q] \in Logins /\ session[qof[q]] # "none"

LEMMA SessionInit == Init => SessionInv
<1>1. ASSUME Init PROVE TypeOK
  <2>1. dkey \in [Deletions -> Keys \cup {None}] /\ lkey \in [Logins -> Keys \cup {None}] /\ passkeys \subseteq Keys
    BY <1>1 DEF Init, Keys
  <2> QED BY <1>1, <2>1 DEF Init, TypeOK
<1>2. ASSUME Init, NEW l \in Logins PROVE LoginSound(l)
  BY <1>2 DEF Init, LoginSound
<1>3. Init => \A q \in Calls : qpc[q] # "renew"
  BY DEF Init
<1> QED BY <1>1, <1>2, <1>3 DEF SessionInv

LEMMA ChallengeSteps ==
  ASSUME SessionInv, NEW c \in Challenges, Start(c) \/ Lapse(c) \/ Sweep(c)
  PROVE  SessionInv'
<1>1. /\ challenge' \in [Challenges -> {"none", "live", "expired", "gone"}]
      /\ \A d \in Challenges : challenge[d] = "gone" => challenge'[d] = "gone"
  BY DEF Start, Lapse, Sweep, SessionInv, TypeOK
<1>2. UNCHANGED <<passkeys, rowVars, loginVars, requestVars, keyVars, condemned>>
  BY DEF Start, Lapse, Sweep
<1> QED BY <1>1, <1>2 DEF SessionInv, TypeOK, LoginSound, Referenced, rowVars, loginVars, requestVars, keyVars

LEMMA LoginType ==
  ASSUME TypeOK, NEW l \in Logins, LoginStep(l)
  PROVE  TypeOK'
BY DEF TypeOK, LoginStep, Present, Verify, Spend, Spent, FindDevice, UpdateDevice, InsertDevice, InsertSession,
       Fail, Age, Logout, RevokeDevice, Neglect, Cascaded, rowVars, loginVars, requestVars, keyVars

\* No step of a login brings back a challenge, makes a session of another
\* login, or moves a session to another device.
LEMMA LoginFrame ==
  ASSUME SessionInv, NEW l \in Logins, LoginStep(l)
  PROVE  /\ \A c \in Challenges : challenge[c] = "gone" => challenge'[c] = "gone"
         /\ \A m \in Logins : session[m] # "none" => session'[m] # "none"
         /\ UNCHANGED requestVars
<1> USE DEF SessionInv, TypeOK, LoginSound
<1>1. CASE Present(l) \/ Verify(l) \/ Spend(l) \/ FindDevice(l) \/ Fail(l)
  BY <1>1 DEF Present, Verify, Spend, Spent, FindDevice, Fail, rowVars, requestVars
<1>2. CASE UpdateDevice(l) \/ InsertDevice(l) \/ InsertSession(l)
  BY <1>2 DEF UpdateDevice, InsertDevice, InsertSession, requestVars
<1>3. CASE Age(l) \/ Logout(l) \/ RevokeDevice(l) \/ Neglect(l)
  BY <1>3 DEF Age, Logout, RevokeDevice, Neglect, Cascaded, requestVars
<1> QED BY <1>1, <1>2, <1>3 DEF LoginStep

LEMMA LoginSteps ==
  ASSUME SessionInv, NEW l \in Logins, LoginStep(l)
  PROVE  SessionInv'
<1> USE DEF SessionInv, TypeOK
<1>1. ASSUME NEW m \in Logins PROVE LoginSound(m)'
  <2>1. CASE Present(l) \/ Verify(l) \/ Spend(l)
    BY <2>1, LoginFrame DEF LoginSound, Referenced, Present, Verify, Spend, Spent, rowVars
  <2>2. CASE FindDevice(l) \/ Fail(l)
    BY <2>2 DEF LoginSound, Referenced, FindDevice, Fail, rowVars
  <2>3. CASE UpdateDevice(l) \/ InsertDevice(l) \/ Neglect(l)
    BY <2>3 DEF LoginSound, Referenced, UpdateDevice, InsertDevice, Neglect, loginVars
  <2>4. CASE InsertSession(l)
    BY <2>4 DEF LoginSound, Referenced, InsertSession
  <2>5. CASE Age(l) \/ Logout(l)
    BY <2>5 DEF LoginSound, Referenced, Age, Logout, Valid, loginVars
  <2>6. CASE RevokeDevice(l)
    BY <2>6, SessionsAssumption DEF LoginSound, Referenced, RevokeDevice, Cascaded, loginVars
  <2> QED BY <2>1, <2>2, <2>3, <2>4, <2>5, <2>6 DEF LoginStep
<1> QED BY <1>1, LoginType, LoginFrame DEF requestVars

LEMMA CallSteps ==
  ASSUME SessionInv, NEW q \in Calls, Authenticate(q) \/ Renew(q)
  PROVE  SessionInv'
<1> USE DEF SessionInv, TypeOK
<1>1. TypeOK'
  BY DEF Authenticate, Renew, loginVars, keyVars
<1>2. ASSUME NEW m \in Logins PROVE LoginSound(m)'
  BY DEF Authenticate, Renew, LoginSound, Referenced, loginVars
<1>3. \A r \in Calls : qpc'[r] = "renew" => qof'[r] \in Logins /\ session'[qof'[r]] # "none"
  BY DEF Authenticate, Renew, Valid
<1> QED BY <1>1, <1>2, <1>3

LEMMA CleanUpSteps ==
  ASSUME SessionInv, ReadStale \/ RemoveStale
  PROVE  SessionInv'
<1> USE DEF SessionInv, TypeOK
<1>1. TypeOK'
  BY DEF ReadStale, RemoveStale, Cascaded, loginVars, keyVars, rowVars, requestVars
<1>2. ASSUME NEW m \in Logins PROVE LoginSound(m)'
  BY SessionsAssumption DEF ReadStale, RemoveStale, Cascaded, LoginSound, Referenced, loginVars, rowVars
<1>3. \A r \in Calls : qpc'[r] = "renew" => qof'[r] \in Logins /\ session'[qof'[r]] # "none"
  BY DEF ReadStale, RemoveStale, Cascaded, rowVars, requestVars
<1> QED BY <1>1, <1>2, <1>3

LEMMA KeySteps ==
  ASSUME SessionInv,
         \/ \E k \in NewKeys : AskToRegister(k) \/ Complete(k) \/ SpendRegistration(k) \/ InsertPasskey(k)
         \/ \E d \in Deletions : FindPasskey(d) \/ CountPasskeys(d) \/ DeletePasskey(d)
  PROVE  SessionInv'
<1>1. TypeOK'
  <2>1. ASSUME NEW k \in NewKeys, AskToRegister(k) \/ Complete(k) \/ SpendRegistration(k) \/ InsertPasskey(k)
        PROVE  TypeOK'
    BY <2>1 DEF SessionInv, TypeOK, AskToRegister, Complete, SpendRegistration, InsertPasskey, Keys, loginVars,
                rowVars, requestVars
  <2>2. ASSUME NEW d \in Deletions, FindPasskey(d) \/ CountPasskeys(d) PROVE TypeOK'
    BY <2>2 DEF SessionInv, TypeOK, FindPasskey, CountPasskeys, loginVars, rowVars, requestVars
  <2>3. ASSUME NEW d \in Deletions, DeletePasskey(d) PROVE TypeOK'
    BY <2>3 DEF SessionInv, TypeOK, DeletePasskey, loginVars, rowVars, requestVars
  <2> QED BY <2>1, <2>2, <2>3
<1>2. UNCHANGED <<challenge, rowVars, loginVars, requestVars>>
  BY DEF AskToRegister, Complete, SpendRegistration, InsertPasskey, FindPasskey, CountPasskeys, DeletePasskey
<1> QED BY <1>1, <1>2 DEF SessionInv, LoginSound, Referenced, rowVars, loginVars, requestVars

LEMMA SessionNext == SessionInv /\ [Next]_vars => SessionInv'
<1> SUFFICES ASSUME SessionInv, [Next]_vars PROVE SessionInv'
  OBVIOUS
<1>1. CASE UNCHANGED vars
  BY <1>1 DEF SessionInv, TypeOK, LoginSound, Referenced, vars, rowVars, loginVars, requestVars, keyVars
<1> QED BY <1>1, ChallengeSteps, LoginSteps, CallSteps, CleanUpSteps, KeySteps DEF Next

\* The foreign keys between sessions, devices and challenges hold in every
\* state (schema.ts; deleteChallenge before getOrCreateDevice).
THEOREM SessionInvariance == Spec => []SessionInv
BY SessionInit, SessionNext, PTL DEF Spec

\* A session that still signs somebody in names a device that is there: what
\* removes the device takes its sessions along (sessions.deviceId, cascade).
THEOREM SessionsAreGrounded == Spec => []SessionGrounded
<1>1. SessionInv => SessionGrounded
  BY DEF SessionInv, LoginSound, SessionGrounded, Valid, Referenced
<1> QED BY <1>1, SessionInvariance, PTL

\* Unless deletions have crossed, the one that has counted leaves a passkey.
KeyInv ==
  crossed \/ /\ passkeys # {}
             /\ \A d \in Deletions : dpc[d] = "delete" => \E k \in passkeys : k # dkey[d]

LEMMA KeyNext == TypeOK /\ KeyInv /\ [Next]_vars => KeyInv'
<1> SUFFICES ASSUME TypeOK, KeyInv, ~crossed, [Next]_vars PROVE KeyInv'
  <2> SUFFICES ASSUME crossed, [Next]_vars PROVE crossed'
    BY DEF KeyInv
  <2> QED BY DEF Next, vars, keyVars, LoginStep, Start, Lapse, Sweep, Present, Verify, Spend, FindDevice,
        UpdateDevice, InsertDevice, InsertSession, Fail, Age, Logout, RevokeDevice, Neglect, Authenticate, Renew,
        AskToRegister, Complete, SpendRegistration, InsertPasskey, FindPasskey, CountPasskeys, DeletePasskey,
        ReadStale, RemoveStale
<1> USE DEF KeyInv, TypeOK
<1>1. CASE \E d \in Deletions : FindPasskey(d)
  BY <1>1 DEF FindPasskey
<1>2. CASE \E d \in Deletions : CountPasskeys(d)
  <2>1. PICK d \in Deletions : CountPasskeys(d)
    BY <1>2
  <2>2. CASE Cardinality(passkeys) = 1
    BY <2>1, <2>2 DEF CountPasskeys, Only
  <2>3. CASE Cardinality(passkeys) # 1
    <3>1. \E k \in passkeys : k # dkey[d]
      <4> SUFFICES ASSUME \A k \in passkeys : k = dkey[d] PROVE FALSE
        OBVIOUS
      <4>1. passkeys = {dkey[d]}
        OBVIOUS
      <4> QED BY <4>1, <2>3, FS_Singleton
    <3> QED BY <2>1, <3>1 DEF CountPasskeys, Only
  <2> QED BY <2>2, <2>3
<1>3. CASE \E d \in Deletions : DeletePasskey(d)
  <2>1. PICK d \in Deletions : DeletePasskey(d)
    BY <1>3
  <2> QED BY <2>1 DEF DeletePasskey
<1>4. CASE \E k \in NewKeys : InsertPasskey(k)
  BY <1>4 DEF InsertPasskey
<1>5. CASE UNCHANGED <<passkeys, dpc, dkey, crossed>>
  BY <1>5
<1> QED BY <1>1, <1>2, <1>3, <1>4, <1>5
    DEF Next, vars, keyVars, LoginStep, Start, Lapse, Sweep, Present, Verify, Spend, FindDevice,
        UpdateDevice, InsertDevice, InsertSession, Fail, Age, Logout, RevokeDevice, Neglect, Authenticate, Renew,
        AskToRegister, Complete, SpendRegistration, ReadStale, RemoveStale

\* The account keeps a passkey unless two deletions were decided at the same
\* time (DELETE /passkeys/:passkeyId counts, then deletes).
THEOREM LastPasskeyIsKept == Spec => []LastPasskeyKept
<1>1. Init => KeyInv
  BY SessionsAssumption DEF Init, KeyInv
<1>2. SessionInv => TypeOK
  BY DEF SessionInv
<1>3. KeyInv => LastPasskeyKept
  BY DEF KeyInv, LastPasskeyKept
<1> QED BY <1>1, <1>2, <1>3, KeyNext, SessionInvariance, PTL DEF Spec

-----------------------------------------------------------------------------
(* Recovery codes.                                                         *)

\* A code somebody brings is one that its page shows.
EnteredShown ==
  \A u \in Uses : upc[u] # "idle" => entered[u] \in R!Codes /\ pc[entered[u][1]] = "shown"

\* A code that has passed the claim is not good any more.
SpentStays == \A u \in R!Spent : rows[entered[u]] \in {"used", "gone"}

\* What an undisturbed page may rely on, statement after statement.
QuietRun(p) ==
  /\ pc[p] = "insert" => R!Unused = {}
  /\ pc[p] \in {"answered", "seal", "shown"} => \A c \in R!Unused : c[1] = p
  /\ pc[p] = "shown" => backup = p
  /\ \A u \in Uses : upc[u] # "idle" /\ entered[u][1] = p =>
       /\ upc[u] \in {"session", "answered"} => got[u] = p
       /\ upc[u] # "closed"

CodesInv ==
  /\ R!TypeOK /\ EnteredShown /\ SpentStays /\ R!CodeSpentOnce
  /\ \A p \in Pages \ disturbed : QuietRun(p)

LEMMA CodesInit == R!Init => CodesInv
BY DEF R!Init, CodesInv, R!TypeOK, EnteredShown, SpentStays, R!CodeSpentOnce, R!Spent, QuietRun, R!Unused, R!Codes, R!Backups

\* The steps of a page.
LEMMA CodePageType ==
  ASSUME R!TypeOK, NEW p \in Pages, R!PageStep(p)
  PROVE  R!TypeOK'
BY DEF R!TypeOK, R!PageStep, R!Begin, R!Count, R!Delete, R!Deleted, R!InsertCodes, R!Keyless, R!Seal, R!Finalize, R!Stop,
       R!useVars, R!Codes, R!Backups, R!OpenPages

\* A page that shows its codes takes no step: the uses of them are as before.
LEMMA CodePageUses ==
  ASSUME CodesInv, NEW p \in Pages, R!PageStep(p)
  PROVE  (EnteredShown /\ SpentStays /\ R!CodeSpentOnce)'
<1>1. UNCHANGED R!useVars /\ pc[p] # "shown" /\ \A q \in Pages \ {p} : pc'[q] = pc[q]
  BY DEF CodesInv, R!TypeOK, R!PageStep, R!Begin, R!Count, R!Delete, R!InsertCodes, R!Keyless, R!Seal, R!Finalize, R!Stop, R!useVars
<1>2. EnteredShown'
  BY <1>1 DEF CodesInv, EnteredShown, R!Codes, R!useVars
<1>3. ASSUME NEW c \in R!Codes, rows[c] \in {"used", "gone"}, pc[c[1]] = "shown"
      PROVE  rows'[c] \in {"used", "gone"}
  BY <1>1, <1>3 DEF R!PageStep, R!Begin, R!Count, R!Delete, R!Deleted, R!InsertCodes, R!Keyless, R!Seal, R!Finalize, R!Stop
<1>4. SpentStays'
  BY <1>1, <1>3 DEF CodesInv, SpentStays, EnteredShown, R!Spent, R!useVars
<1>5. R!CodeSpentOnce'
  BY <1>1 DEF CodesInv, R!CodeSpentOnce, R!Spent, R!useVars
<1> QED BY <1>2, <1>4, <1>5

\* A page that writes disturbs the others that have begun; the rest have
\* nothing to rely on.
LEMMA CodePageQuiet ==
  ASSUME CodesInv, NEW p \in Pages, R!PageStep(p), NEW q \in Pages \ disturbed'
  PROVE  QuietRun(q)'
<1> USE DEF CodesInv, R!TypeOK
<1>1. q \in Pages \ disturbed /\ QuietRun(q)
  BY DEF R!PageStep, R!Begin, R!Count, R!Delete, R!InsertCodes, R!Keyless, R!Seal, R!Finalize, R!Stop
<1>2. CASE R!Begin(p) \/ R!Count(p) \/ R!Keyless(p) \/ R!Seal(p) \/ R!Stop(p)
  BY <1>1, <1>2 DEF QuietRun, R!Unused, R!Begin, R!Count, R!Keyless, R!Seal, R!Stop, R!useVars
<1>3. CASE R!Delete(p)
  <2>1. R!Unused' = {}
    BY <1>3 DEF R!Delete, R!Deleted, R!Unused
  <2>2. q = p \/ pc[q] = "idle"
    BY <1>3 DEF R!Delete, R!OpenPages
  <2> QED BY <1>1, <1>3, <2>1, <2>2 DEF QuietRun, R!Delete, R!useVars, EnteredShown
<1>4. CASE R!InsertCodes(p)
  <2>1. q = p \/ pc[q] = "idle"
    BY <1>4 DEF R!InsertCodes, R!OpenPages
  <2>2. q = p => \A c \in R!Unused' : c[1] = p
    BY <1>1, <1>4 DEF R!InsertCodes, QuietRun, R!Unused
  <2> QED BY <1>1, <1>4, <2>1, <2>2 DEF QuietRun, R!InsertCodes, R!useVars, EnteredShown
<1>5. CASE R!Finalize(p)
  <2>1. q = p \/ pc[q] = "idle"
    BY <1>5 DEF R!Finalize, R!OpenPages
  <2> QED BY <1>1, <1>5, <2>1 DEF QuietRun, R!Finalize, R!Unused, R!useVars, EnteredShown
<1> QED BY <1>2, <1>3, <1>4, <1>5 DEF R!PageStep

-----------------------------------------------------------------------------
\* The steps of a use.
LEMMA CodeUseType ==
  ASSUME R!TypeOK, NEW u \in Uses, R!UseStep(u)
  PROVE  R!TypeOK'
BY DEF R!TypeOK, R!UseStep, R!Enter, R!Find, R!Claim, R!ReadBackup, R!SignIn, R!Open, R!Lose, R!pageVars, R!Codes, R!Backups

\* A use leaves the pages alone, and the uses that are not its own.
LEMMA CodeUseFrame ==
  ASSUME R!TypeOK, NEW u \in Uses, R!UseStep(u)
  PROVE  /\ UNCHANGED <<pc, disturbed, backup>>
         /\ \A v \in Uses \ {u} : upc'[v] = upc[v] /\ entered'[v] = entered[v] /\ got'[v] = got[v]
BY DEF R!TypeOK, R!UseStep, R!Enter, R!Find, R!Claim, R!ReadBackup, R!SignIn, R!Open, R!Lose, R!pageVars

LEMMA CodeUseUses ==
  ASSUME CodesInv, NEW u \in Uses, R!UseStep(u)
  PROVE  (EnteredShown /\ SpentStays /\ R!CodeSpentOnce)'
<1> USE DEF CodesInv, R!TypeOK
<1>0. entered'[u] \in R!Codes /\ pc[entered'[u][1]] = "shown"
  <2>1. CASE R!Enter(u)
    <3>1. PICK p \in Pages, i \in Indices :
            pc[p] = "shown" /\ entered' = [entered EXCEPT ![u] = <<p, i>>]
      BY <2>1 DEF R!Enter
    <3> QED BY <3>1 DEF R!Codes
  <2>2. CASE R!Find(u) \/ R!Claim(u) \/ R!ReadBackup(u) \/ R!SignIn(u) \/ R!Open(u) \/ R!Lose(u)
    <3>1. entered' = entered /\ upc[u] # "idle"
      BY <2>2 DEF R!Find, R!Claim, R!ReadBackup, R!SignIn, R!Open, R!Lose
    <3> QED BY <3>1 DEF EnteredShown
  <2> QED BY <2>1, <2>2 DEF R!UseStep
<1>1. EnteredShown'
  BY <1>0, CodeUseFrame DEF EnteredShown
<1>2. CASE R!Claim(u)
  <2>1. entered[u] \in R!Codes
    BY <1>2 DEF R!Claim, EnteredShown
  <2>2. CASE R!Claimable(rows[entered[u]])
    <3>1. \A v \in R!Spent : entered[v] # entered[u]
      BY <2>2 DEF R!Claimable, SpentStays
    <3>2. R!Spent' = R!Spent \cup {u}
      BY <1>2, <2>2 DEF R!Claim, R!Spent
    <3>3. SpentStays'
      BY <1>2, <2>1, <2>2, <3>2 DEF R!Claim, SpentStays, EnteredShown, R!Spent
    <3> QED BY <1>1, <1>2, <3>1, <3>2, <3>3 DEF R!Claim, R!CodeSpentOnce
  <2>3. CASE ~R!Claimable(rows[entered[u]])
    <3>1. R!Spent' = R!Spent /\ rows' = rows /\ entered' = entered
      BY <1>2, <2>3 DEF R!Claim, R!Spent
    <3> QED BY <1>1, <3>1 DEF SpentStays, R!CodeSpentOnce
  <2> QED BY <2>2, <2>3
<1>3. CASE R!Enter(u) \/ R!Find(u) \/ R!ReadBackup(u) \/ R!SignIn(u) \/ R!Open(u) \/ R!Lose(u)
  <2>1. R!Spent' \subseteq R!Spent /\ rows' = rows
    BY <1>3 DEF R!Spent, R!Enter, R!Find, R!ReadBackup, R!SignIn, R!Open, R!Lose
  <2>2. \A v \in R!Spent' : entered'[v] = entered[v]
    BY <1>3, <2>1 DEF R!Spent, R!Enter, R!Find, R!ReadBackup, R!SignIn, R!Open, R!Lose
  <2> QED BY <1>1, <2>1, <2>2 DEF SpentStays, R!CodeSpentOnce
<1> QED BY <1>2, <1>3 DEF R!UseStep

\* A backup that is read while the page is undisturbed is the page's own.
LEMMA CodeUseQuiet ==
  ASSUME CodesInv, NEW u \in Uses, R!UseStep(u), NEW p \in Pages \ disturbed
  PROVE  QuietRun(p)'
<1> USE DEF CodesInv, R!TypeOK
<1>1. QuietRun(p)
  OBVIOUS
<1>2. R!Unused' \subseteq R!Unused
  BY DEF R!Unused, R!UseStep, R!Enter, R!Find, R!Claim, R!ReadBackup, R!SignIn, R!Open, R!Lose
<1>3. ASSUME upc'[u] # "idle", entered'[u][1] = p
      PROVE  /\ upc'[u] \in {"session", "answered"} => got'[u] = p
             /\ upc'[u] # "closed"
  <2>1. CASE R!Enter(u) \/ R!Find(u) \/ R!Claim(u)
    BY <2>1 DEF R!Enter, R!Find, R!Claim
  <2>2. CASE R!ReadBackup(u)
    BY <1>1, <1>3, <2>2 DEF R!ReadBackup, EnteredShown, QuietRun
  <2>3. CASE R!SignIn(u) \/ R!Open(u) \/ R!Lose(u)
    BY <1>1, <1>3, <2>3 DEF R!SignIn, R!Open, R!Lose, QuietRun
  <2> QED BY <2>1, <2>2, <2>3 DEF R!UseStep
<1> QED BY <1>1, <1>2, <1>3, CodeUseFrame DEF QuietRun

-----------------------------------------------------------------------------
LEMMA CodesNext == CodesInv /\ [R!Next]_(R!vars) => CodesInv'
<1> SUFFICES ASSUME CodesInv, [R!Next]_(R!vars) PROVE CodesInv'
  OBVIOUS
<1>1. ASSUME NEW p \in Pages, R!PageStep(p) PROVE CodesInv'
  BY <1>1, CodePageType, CodePageUses, CodePageQuiet DEF CodesInv
<1>2. ASSUME NEW u \in Uses, R!UseStep(u) PROVE CodesInv'
  <2>1. disturbed' = disturbed
    BY <1>2, CodeUseFrame DEF CodesInv
  <2> QED BY <1>2, <2>1, CodeUseType, CodeUseUses, CodeUseQuiet DEF CodesInv
<1>3. CASE UNCHANGED R!vars
  BY <1>3 DEF CodesInv, R!TypeOK, EnteredShown, SpentStays, R!CodeSpentOnce, R!Spent, QuietRun, R!Unused, R!Codes,
              R!vars, R!pageVars, R!useVars
<1> QED BY <1>1, <1>2, <1>3 DEF R!Next

\* What the pages and the uses of codes rely on, in every state.
THEOREM CodesInvariance == R!Spec => []CodesInv
BY CodesInit, CodesNext, PTL DEF R!Spec

\* The tables, the pages and the uses of codes keep to their types.
THEOREM CodesType == R!Spec => []R!TypeOK
<1>1. CodesInv => R!TypeOK
  BY DEF CodesInv
<1> QED BY <1>1, CodesInvariance, PTL

\* However many requests bring a code, to either endpoint and in any order,
\* one at most gets past the claim (claimTrustCode, shared.ts).
THEOREM CodesAreSpentOnce == R!Spec => []R!CodeSpentOnce
<1>1. CodesInv => R!CodeSpentOnce
  BY DEF CodesInv
<1> QED BY <1>1, CodesInvariance, PTL

\* A set whose page nobody disturbed is the whole truth: its codes open the
\* backup, and no other code counts (security.ts, finalize-backup).
THEOREM LoneSetsOpen == R!Spec => []R!LoneSetOpens
<1>1. CodesInv => R!LoneSetOpens
  BY DEF CodesInv, QuietRun, R!LoneSetOpens
<1> QED BY <1>1, CodesInvariance, PTL

-----------------------------------------------------------------------------
(* Registration.                                                           *)

\* What a request has inserted is there until it takes it back.
AccountInserted(r) ==
  /\ regPc[r] \in {"identity", "passkey", "session", "spend", "done"} => r \in user
  /\ regPc[r] \in {"passkey", "session", "spend", "done"} => r \in identity
  /\ regPc[r] \in {"session", "spend", "done"} => passkey[r[1]] = r
  /\ regPc[r] \in {"spend", "done"} => r \in regSession
  /\ r \in identity => r \in user
  /\ r \in user => regPc[r] \notin {"idle", "challenge", "user"}
  /\ r \in user \ stranded /\ regPc[r] = "failed" =>
       r \in identity /\ r \in regSession /\ passkey[r[1]] = r
  /\ regPc[r] = "idle" <=> sent[r[1]] < r[2]

RegInv ==
  /\ N!TypeOK
  /\ \A r \in N!Requests : AccountInserted(r)
  /\ \A r, q \in identity : r = q
  /\ \A p \in Pages :
       /\ shown[p] = "waiting" => sent[p] # 0
       /\ shown[p] = "enrolled" => sent[p] # 0 /\ regPc[<<p, sent[p]>>] = "done"

RegRequestStep(r) ==
  \/ N!GetChallenge(r) \/ N!InsertUser(r) \/ N!InsertIdentity(r) \/ N!InsertPasskey(r)
  \/ N!InsertSession(r) \/ N!SpendChallenge(r) \/ N!StatementFails(r) \/ N!Rollback(r) \/ N!Strand(r)

LEMMA RegInit == N!Init => RegInv
BY RegistrationAssumption DEF N!Init, RegInv, N!TypeOK, AccountInserted, N!Requests

LEMMA RegPageSteps ==
  ASSUME RegInv, NEW p \in Pages, N!Start(p) \/ N!MakePasskey(p) \/ N!Submit(p) \/ N!Answer(p) \/ N!Lapse(p)
  PROVE  RegInv'
<1> USE RegistrationAssumption DEF RegInv, N!TypeOK
<1>1. CASE N!Start(p) \/ N!MakePasskey(p) \/ N!Lapse(p)
  BY <1>1 DEF N!Start, N!MakePasskey, N!Lapse, AccountInserted, N!pageVars, N!rowVars
<1>2. CASE N!Submit(p)
  <2> DEFINE r == <<p, sent[p] + 1>>
  <2>1. r \in N!Requests /\ regPc[r] = "idle" /\ r[1] = p /\ r[2] = sent[p] + 1
    BY <1>2 DEF N!Submit, N!Requests, AccountInserted
  <2>2. regPc' = [regPc EXCEPT ![r] = "challenge"]
    BY <1>2 DEF N!Submit
  <2> HIDE DEF r
  <2>3. ASSUME NEW q \in N!Requests PROVE AccountInserted(q)'
    <3>1. q = <<q[1], q[2]>> /\ q[1] \in Pages /\ q[2] \in Nat
      BY DEF N!Requests
    <3>2. regPc'[q] = "idle" <=> sent'[q[1]] < q[2]
      <4>1. CASE q = r
        BY <1>2, <2>1, <2>2, <4>1 DEF N!Submit
      <4>2. CASE q # r
        <5>1. q[1] # p \/ q[2] # sent[p] + 1
          BY <4>2, <3>1 DEF r
        <5>2. regPc'[q] = regPc[q] /\ sent' = [sent EXCEPT ![p] = sent[p] + 1]
          BY <1>2, <2>1, <2>2, <4>2 DEF N!Submit
        <5>3. regPc[q] = "idle" <=> sent[q[1]] < q[2]
          BY DEF AccountInserted
        <5>4. sent[q[1]] \in Nat /\ sent[p] \in Nat
          BY <3>1
        <5> QED BY <3>1, <5>1, <5>2, <5>3, <5>4
      <4> QED BY <4>1, <4>2
    <3> QED BY <1>2, <2>1, <2>2, <3>2 DEF N!Submit, AccountInserted, N!rowVars
  <2>4. \A q \in Pages : shown'[q] = "enrolled" => q # p /\ sent'[q] = sent[q] /\ shown[q] = "enrolled"
    BY <1>2 DEF N!Submit
  <2>5. \A q \in Pages : shown'[q] = "enrolled" => regPc'[<<q, sent'[q]>>] = "done"
    BY <2>1, <2>2, <2>4 DEF N!Requests, r
  <2> QED BY <1>2, <2>1, <2>2, <2>3, <2>4, <2>5 DEF N!Submit, N!rowVars
<1>3. CASE N!Answer(p)
  BY <1>3 DEF N!Answer, AccountInserted, N!rowVars
<1> QED BY <1>1, <1>2, <1>3

LEMMA RegRequestSteps ==
  ASSUME RegInv, NEW r \in N!Requests, RegRequestStep(r)
  PROVE  RegInv'
<1> USE RegistrationAssumption DEF RegInv, N!TypeOK
<1>0. r[1] \in Pages
  BY DEF N!Requests
<1>1. N!TypeOK'
  BY <1>0 DEF RegRequestStep, N!GetChallenge, N!InsertUser, N!InsertIdentity, N!InsertPasskey, N!InsertSession, N!SpendChallenge,
         N!StatementFails, N!Rollback, N!Strand, N!Continue, N!Undone, N!pageVars, N!rowVars
<1>2. UNCHANGED N!pageVars
  BY DEF RegRequestStep, N!GetChallenge, N!InsertUser, N!InsertIdentity, N!InsertPasskey, N!InsertSession, N!SpendChallenge,
         N!StatementFails, N!Rollback, N!Strand
<1>3. regPc[r] \notin {"idle", "done", "failed"} /\ regPc'[r] # "idle" /\ \A q \in N!Requests \ {r} : regPc'[q] = regPc[q]
  BY DEF RegRequestStep, N!GetChallenge, N!InsertUser, N!InsertIdentity, N!InsertPasskey, N!InsertSession, N!SpendChallenge,
         N!StatementFails, N!Rollback, N!Strand, N!Continue
<1>4. ASSUME NEW q \in N!Requests, q # r PROVE AccountInserted(q)'
  <2>1. q[1] \in Pages /\ (passkey[q[1]] = q => passkey'[q[1]] = q)
    BY <1>4, <1>0 DEF N!Requests, RegRequestStep, N!GetChallenge, N!InsertUser, N!InsertIdentity, N!InsertPasskey, N!InsertSession, N!SpendChallenge,
         N!StatementFails, N!Rollback, N!Strand, N!rowVars
  <2>2. (q \in user' <=> q \in user) /\ (q \in identity' <=> q \in identity) /\ (q \in regSession' <=> q \in regSession)
        /\ (q \in stranded' <=> q \in stranded)
    BY <1>4 DEF RegRequestStep, N!GetChallenge, N!InsertUser, N!InsertIdentity, N!InsertPasskey, N!InsertSession, N!SpendChallenge,
         N!StatementFails, N!Rollback, N!Strand, N!Undone, N!rowVars
  <2> QED BY <1>2, <1>3, <1>4, <2>1, <2>2 DEF AccountInserted, N!pageVars
<1>5. AccountInserted(r)'
  <2>0. regPc'[r] = "idle" <=> sent'[r[1]] < r[2]
    BY <1>2, <1>3 DEF AccountInserted, N!pageVars
  <2>1. CASE N!GetChallenge(r) \/ N!InsertUser(r) \/ N!StatementFails(r) \/ N!Strand(r)
    BY <2>0, <2>1 DEF AccountInserted, N!GetChallenge, N!InsertUser, N!StatementFails, N!Strand, N!Continue, N!rowVars
  <2>2. CASE N!InsertIdentity(r) \/ N!InsertPasskey(r) \/ N!InsertSession(r)
    BY <1>0, <2>0, <2>2 DEF AccountInserted, N!InsertIdentity, N!InsertPasskey, N!InsertSession, N!Continue, N!Free
  <2>3. CASE N!SpendChallenge(r) \/ N!Rollback(r)
    BY <2>0, <2>3 DEF AccountInserted, N!SpendChallenge, N!Rollback, N!Undone, N!Continue, N!rowVars
  <2> QED BY <2>1, <2>2, <2>3 DEF RegRequestStep
<1>6. \A q, s \in identity' : q = s
  BY DEF RegRequestStep, N!GetChallenge, N!InsertUser, N!InsertIdentity, N!InsertPasskey, N!InsertSession, N!SpendChallenge,
         N!StatementFails, N!Rollback, N!Strand, N!Undone, N!Free, N!rowVars
<1>7. ASSUME NEW p \in Pages, shown[p] = "enrolled" PROVE regPc'[<<p, sent[p]>>] = "done"
  <2>1. <<p, sent[p]>> \in N!Requests
    BY <1>7 DEF N!Requests
  <2> QED BY <1>3, <1>7, <2>1
<1> QED BY <1>1, <1>2, <1>4, <1>5, <1>6, <1>7 DEF N!pageVars

LEMMA RegNext == RegInv /\ [N!Next]_(N!vars) => RegInv'
<1> SUFFICES ASSUME RegInv, [N!Next]_(N!vars) PROVE RegInv'
  OBVIOUS
<1>1. CASE UNCHANGED N!vars
  BY <1>1 DEF RegInv, N!TypeOK, AccountInserted, N!vars, N!pageVars, N!rowVars
<1> QED BY <1>1, RegPageSteps, RegRequestSteps DEF N!Next, RegRequestStep

\* What a registration has inserted is there until it takes it back.
THEOREM RegInvariance == N!Spec => []RegInv
BY RegInit, RegNext, PTL DEF N!Spec

\* A settled registration has inserted everything or nothing, unless its worker
\* died, and a page that says it is enrolled has all of it (register.ts).
THEOREM AccountIsWhole == N!Spec => []N!AccountWhole
<1>1. ASSUME RegInv PROVE N!AccountWhole
  <2> USE <1>1 DEF RegInv, N!TypeOK
  <2>1. ASSUME NEW p \in Pages, shown[p] = "enrolled"
        PROVE  passkey[p] # None /\ passkey[p] \in user \cap regSession /\ identity = {passkey[p]}
    <3> DEFINE r == <<p, sent[p]>>
    <3>1. r \in N!Requests /\ r[1] = p /\ regPc[r] = "done"
      BY <2>1 DEF N!Requests
    <3> HIDE DEF r
    <3> QED BY <3>1, RegistrationAssumption DEF AccountInserted
  <2> QED BY <2>1 DEF AccountInserted, N!AccountWhole
<1> QED BY <1>1, RegInvariance, PTL

-----------------------------------------------------------------------------
(* Identities.                                                             *)

\* A choice or deletion that has met no other finds what it has read unchanged.
MoverUndisturbed(r) ==
  /\ I!Movers = {r}
  /\ idPc[r] \in {"clear", "mark"} => target[r] \in idRows
  /\ idPc[r] = "mark" => primary = {}
  /\ idPc[r] \in {"count", "delete"} => target[r] \notin primary

IdentityInv ==
  /\ I!TypeOK
  /\ \A c \in Creations : idPc[c] \notin {"clear", "mark", "count", "delete"}
  /\ \A r \in I!Movers \ met : MoverUndisturbed(r)
  /\ ~doubtful /\ (\A c \in Choices : idPc[c] # "mark") => \E i \in idRows : primary = {i}

LEMMA IdentityInit == I!Init => IdentityInv
BY IdentitiesAssumption DEF I!Init, IdentityInv, I!TypeOK, I!Requests, I!Ids, I!Movers, I!Busy

LEMMA CreationSteps ==
  ASSUME IdentityInv, NEW n \in Creations, I!Count(n) \/ I!Insert(n)
  PROVE  IdentityInv'
<1> USE IdentitiesAssumption DEF IdentityInv, I!TypeOK, I!Requests
<1>1. I!TypeOK'
  <2>1. CASE I!Count(n)
    BY <2>1 DEF I!Count, I!rowVars
  <2>2. CASE I!Insert(n)
    <3>1. idRows' \subseteq I!Ids /\ primary' \subseteq idRows' /\ doubtful' \in BOOLEAN
      BY <2>2 DEF I!Insert, I!Ids
    <3>2. met' \subseteq Choices \cup IdentityDeletions
      BY <2>2 DEF I!Insert, I!Movers
    <3> QED BY <2>2, <3>1, <3>2 DEF I!Insert
  <2> QED BY <2>1, <2>2
<1>2. I!Movers' = I!Movers /\ \A r \in I!Movers : idPc'[r] = idPc[r] /\ target'[r] = target[r]
  BY DEF I!Count, I!Insert, I!Movers, I!Busy
<1>3. /\ idRows \subseteq idRows' /\ met \subseteq met'
      /\ I!Movers \subseteq met' \/ primary' = primary
      /\ \A c \in Choices : idPc'[c] = idPc[c]
      /\ \A c \in Creations : idPc'[c] \notin {"clear", "mark", "count", "delete"}
      /\ doubtful' \/ (primary' = primary /\ doubtful' = doubtful)
  <2>1. CASE I!Count(n)
    BY <2>1 DEF I!Count, I!rowVars
  <2>2. CASE I!Insert(n)
    BY <2>2 DEF I!Insert
  <2> QED BY <2>1, <2>2
<1>4. \A r \in I!Movers' \ met' : MoverUndisturbed(r)'
  BY <1>2, <1>3 DEF MoverUndisturbed
<1>5. ASSUME ~doubtful', \A c \in Choices : idPc'[c] # "mark"
      PROVE  \E i \in idRows' : primary' = {i}
  BY <1>3, <1>5
<1> QED BY <1>1, <1>3, <1>4, <1>5

\* A choice or deletion that begins: all that run have met it.
LEMMA MoverBegins ==
  ASSUME IdentityInv, NEW r \in Choices \cup IdentityDeletions, I!Choose(r) \/ I!Find(r)
  PROVE  IdentityInv'
<1> USE IdentitiesAssumption DEF IdentityInv, I!TypeOK, I!Requests
<1>1. I!TypeOK'
  BY DEF I!Choose, I!Find, I!Meet, I!rowVars, I!Ids, I!Movers, I!Busy
<1>2. /\ UNCHANGED <<idRows, primary, doubtful>> /\ idPc[r] = "idle" /\ idPc'[r] \in {"clear", "count", "refused"}
      /\ target'[r] \in idRows /\ (idPc'[r] = "count" => target'[r] \notin primary)
      /\ \A q \in I!Requests \ {r} : idPc'[q] = idPc[q] /\ target'[q] = target[q]
  BY DEF I!Choose, I!Find, I!Deletable, I!rowVars
<1>3. met' = (IF I!Movers = {} THEN met ELSE met \cup I!Movers \cup {r})
  BY DEF I!Choose, I!Find, I!Meet
<1>4. I!Movers' \subseteq I!Movers \cup {r}
  BY <1>2 DEF I!Movers, I!Busy
<1>5. \A q \in I!Movers' \ met' : MoverUndisturbed(q)'
  <2> SUFFICES ASSUME NEW q \in I!Movers' \ met' PROVE MoverUndisturbed(q)'
    OBVIOUS
  <2>1. I!Movers = {} /\ q = r
    BY <1>3, <1>4
  <2>2. I!Movers' = {r}
    BY <1>4, <2>1
  <2> QED BY <1>2, <2>1, <2>2 DEF MoverUndisturbed
<1> QED BY <1>1, <1>2, <1>5

\* A choice or deletion goes on, or ends.
LEMMA MoverSteps ==
  ASSUME IdentityInv, NEW r \in Choices \cup IdentityDeletions,
         (r \in Choices /\ (I!Clear(r) \/ I!Mark(r))) \/ I!CountOthers(r) \/ I!Delete(r)
  PROVE  IdentityInv'
<1> USE IdentitiesAssumption DEF IdentityInv, I!TypeOK, I!Requests
<1>1. I!TypeOK'
  <2>1. doubtful' \in BOOLEAN
    <3>1. CASE I!Clear(r)
      BY <3>1 DEF I!Clear
    <3>2. CASE I!Mark(r)
      BY <3>2 DEF I!Mark
    <3>3. CASE I!CountOthers(r)
      BY <3>3 DEF I!CountOthers, I!historyVars
    <3>4. CASE I!Delete(r)
      BY <3>4 DEF I!Delete
    <3> QED BY <3>1, <3>2, <3>3, <3>4
  <2>2. idRows' \subseteq idRows /\ primary' \subseteq idRows'
    BY DEF I!Clear, I!Mark, I!Cleared, I!Marked, I!CountOthers, I!Delete, I!rowVars
  <2> QED BY <2>1, <2>2 DEF I!Clear, I!Mark, I!CountOthers, I!Delete, I!historyVars
<1>2. /\ r \in I!Movers /\ idPc'[r] \in {"mark", "done", "refused", "delete"} /\ UNCHANGED <<met, target>>
      /\ \A q \in I!Requests \ {r} : idPc'[q] = idPc[q]
  BY DEF I!Clear, I!Mark, I!CountOthers, I!Delete, I!Movers, I!Busy, I!historyVars
<1>3. I!Movers' \subseteq I!Movers
  BY <1>2 DEF I!Movers, I!Busy
<1>4. \A q \in I!Movers' \ met' : MoverUndisturbed(q)'
  <2> SUFFICES ASSUME NEW q \in I!Movers' \ met' PROVE MoverUndisturbed(q)'
    OBVIOUS
  <2>1. MoverUndisturbed(q) /\ q = r
    BY <1>2, <1>3 DEF MoverUndisturbed
  <2>2. I!Movers' = {r}
    BY <1>3, <2>1 DEF MoverUndisturbed
  <2> QED BY <1>2, <2>1, <2>2 DEF MoverUndisturbed, I!Clear, I!Cleared, I!Mark, I!CountOthers, I!Delete, I!Movers, I!Busy, I!rowVars
<1>5. ASSUME ~doubtful', \A c \in Choices : idPc'[c] # "mark"
      PROVE  \E i \in idRows' : primary' = {i}
  <2>1. CASE r \in Choices /\ I!Clear(r)
    BY <1>5, <2>1 DEF I!Clear
  <2>2. CASE I!Mark(r)
    <3>1. MoverUndisturbed(r) /\ idPc[r] = "mark"
      BY <1>2, <1>5, <2>2 DEF I!Mark
    <3>2. target[r] \in idRows /\ primary = {}
      BY <3>1 DEF MoverUndisturbed
    <3>3. primary' = {target[r]} /\ idRows' = idRows
      BY <2>2, <3>2 DEF I!Mark, I!Marked
    <3> QED BY <3>2, <3>3
  <2>3. CASE I!CountOthers(r)
    BY <2>3, <1>5 DEF I!CountOthers, I!rowVars, I!historyVars
  <2>4. CASE I!Delete(r)
    <3>1. r \notin met /\ ~doubtful
      BY <2>4, <1>5 DEF I!Delete
    <3>2. I!Movers = {r} /\ target[r] \notin primary /\ idPc[r] = "delete"
      BY <1>2, <2>4, <3>1 DEF MoverUndisturbed, I!Delete
    <3>3. \A c \in Choices : idPc[c] # "mark"
      BY <3>2 DEF I!Movers, I!Busy
    <3>4. PICK i \in idRows : primary = {i}
      BY <3>1, <3>3
    <3> QED BY <2>4, <3>2, <3>4 DEF I!Delete
  <2> QED BY <2>1, <2>2, <2>3, <2>4
<1> QED BY <1>1, <1>2, <1>4, <1>5

LEMMA RefusalSteps ==
  ASSUME IdentityInv, NEW r \in I!Requests, I!Refuse(r)
  PROVE  IdentityInv'
<1> USE DEF IdentityInv, I!TypeOK
<1>1. I!TypeOK'
  BY DEF I!Refuse, I!rowVars
<1>2. UNCHANGED <<idRows, primary, target, met>> /\ idPc' = [idPc EXCEPT ![r] = "refused"]
  BY DEF I!Refuse, I!rowVars
<1>3. I!Movers' = I!Movers \ {r}
  BY <1>2 DEF I!Movers, I!Busy
<1>4. \A q \in I!Movers' : idPc'[q] = idPc[q]
  BY <1>2, <1>3 DEF I!Movers, I!Busy
<1>5. \A q \in I!Movers' \ met' : MoverUndisturbed(q)'
  <2> SUFFICES ASSUME NEW q \in I!Movers' \ met' PROVE MoverUndisturbed(q)'
    OBVIOUS
  <2>1. MoverUndisturbed(q) /\ q # r
    BY <1>2, <1>3
  <2> QED BY <1>2, <1>3, <1>4, <2>1 DEF MoverUndisturbed
<1>6. doubtful' = (doubtful \/ idPc[r] = "mark")
  BY DEF I!Refuse
<1>7. \A c \in Choices : c # r => idPc'[c] = idPc[c]
  BY <1>2 DEF I!Requests
<1>8. ASSUME ~doubtful', \A c \in Choices : idPc'[c] # "mark"
      PROVE  \E i \in idRows' : primary' = {i}
  BY <1>2, <1>6, <1>7, <1>8
<1>9. \A c \in Creations : idPc'[c] \notin {"clear", "mark", "count", "delete"}
  BY <1>2 DEF I!Requests
<1> QED BY <1>1, <1>5, <1>8, <1>9

LEMMA IdentityNext == IdentityInv /\ [I!Next]_(I!vars) => IdentityInv'
<1> SUFFICES ASSUME IdentityInv, [I!Next]_(I!vars) PROVE IdentityInv'
  OBVIOUS
<1>1. CASE UNCHANGED I!vars
  BY <1>1 DEF IdentityInv, I!TypeOK, MoverUndisturbed, I!Movers, I!Busy, I!vars, I!rowVars, I!requestVars, I!historyVars
<1> QED BY <1>1, CreationSteps, MoverBegins, MoverSteps, RefusalSteps DEF I!Next

\* The primary identity is one that a choice or deletion, met by no other,
\* finds unchanged between its statements.
THEOREM IdentityInvariance == I!Spec => []IdentityInv
BY IdentityInit, IdentityNext, PTL DEF I!Spec

LEMMA IdentityCount == ASSUME NEW T PROVE I!Cardinality(T) = Cardinality(T)
BY DEF I!Cardinality, Cardinality

\* The account has exactly one primary identity unless a choice or deletion met
\* another one or stopped between its statements (identities.ts).
THEOREM PrimaryIsExact == I!Spec => []I!PrimaryExact
<1>1. IdentityInv => I!PrimaryExact
  BY FS_Singleton, IdentityCount DEF IdentityInv, I!PrimaryExact
<1> QED BY <1>1, IdentityInvariance, PTL

-----------------------------------------------------------------------------
(* E-mail verification.                                                    *)

\* The code the row holds is the one that stands, for the address it went to.
CodeStands(r, code) == r.code = code /\ (code # None => r.pending = to[code])

EmailInv ==
  /\ E!TypeOK
  /\ \A m \in arrived : mailPc[m] # "idle"
  /\ \A c \in Checks : mailPc[c] = "write" => typed[c] \in arrived /\ to[typed[c]] = read[c].pending
  /\ row.email # None =>
       \E m \in arrived, c \in Checks : to[m] = row.email /\ typed[c] = m /\ mailPc[c] # "idle"

LEMMA EmailTypeNext ==
  ASSUME E!TypeOK, [E!Next]_(E!vars)
  PROVE  E!TypeOK'
<1> USE DEF E!TypeOK
<1>1. CASE E!Age
  BY <1>1 DEF E!Age, E!Row, E!requestVars, E!historyVars
<1>2. ASSUME NEW m \in Mailings, E!ReadToMail(m) PROVE E!TypeOK'
  BY <1>2 DEF E!ReadToMail, E!Begin, E!Requests, E!Maybe
<1>3. ASSUME NEW m \in Mailings, E!WriteCode(m) PROVE E!TypeOK'
  BY <1>3 DEF E!WriteCode, E!Pass, E!Requests, E!Row, E!historyVars
<1>4. ASSUME NEW m \in Mailings, E!Send(m) \/ E!SendFails(m) PROVE E!TypeOK'
  BY <1>4 DEF E!Send, E!SendFails, E!End, E!Pass, E!Requests, E!Row, E!NoRow, E!Maybe, E!historyVars
<1>5. ASSUME NEW m \in Mailings, E!Restore(m) PROVE E!TypeOK'
  <2>1. row' \in E!Row
    BY <1>5 DEF E!Restore, E!Restored, E!Requests, E!Row
  <2> QED BY <1>5, <2>1 DEF E!Restore, E!End, E!Requests, E!Row, E!NoRow, E!Maybe, E!historyVars
<1>6. ASSUME NEW c \in Checks, E!ReadToCheck(c) PROVE E!TypeOK'
  BY <1>6 DEF E!ReadToCheck, E!Begin, E!Requests
<1>7. ASSUME NEW c \in Checks, E!WriteVerified(c) PROVE E!TypeOK'
  <2>1. row' \in E!Row
    BY <1>7 DEF E!WriteVerified, E!Proved, E!Requests, E!Row, E!NoRow, E!Maybe
  <2> QED BY <1>7, <2>1 DEF E!WriteVerified, E!End, E!Requests, E!Row, E!NoRow, E!Maybe
<1>8. ASSUME NEW x \in Clears, E!ReadToClear(x) PROVE E!TypeOK'
  BY <1>8 DEF E!ReadToClear, E!Begin, E!Requests
<1>9. ASSUME NEW x \in Clears, E!WriteCleared(x) PROVE E!TypeOK'
  <2>1. row' \in E!Row
    BY <1>9 DEF E!WriteCleared, E!Requests, E!Row, E!NoRow, E!Maybe
  <2> QED BY <1>9, <2>1 DEF E!WriteCleared, E!End, E!Requests, E!Row, E!NoRow, E!Maybe
<1>10. ASSUME NEW r \in E!Requests, E!Die(r) PROVE E!TypeOK'
  BY <1>10 DEF E!Die, E!End, E!Requests, E!Row, E!NoRow, E!Maybe
<1>11. CASE UNCHANGED E!vars
  BY <1>11 DEF E!vars, E!requestVars, E!historyVars
<1> QED BY <1>1, <1>2, <1>3, <1>4, <1>5, <1>6, <1>7, <1>8, <1>9, <1>10, <1>11 DEF E!Next

\* A mailing's address is chosen when it begins, and a check's code too.
LEMMA EmailFrame ==
  ASSUME E!TypeOK, [E!Next]_(E!vars), NEW r \in E!Requests, mailPc[r] # "idle"
  PROVE  /\ mailPc'[r] # "idle"
         /\ r \in Mailings => to'[r] = to[r]
         /\ r \in Checks => typed'[r] = typed[r]
<1> USE DEF E!TypeOK, E!Requests
<1>1. CASE E!Age \/ UNCHANGED E!vars
  BY <1>1 DEF E!Age, E!vars, E!requestVars
<1>2. ASSUME NEW m \in Mailings, E!ReadToMail(m) \/ E!WriteCode(m) \/ E!Send(m) \/ E!SendFails(m) \/ E!Restore(m)
      PROVE  /\ mailPc'[r] # "idle"
             /\ r \in Mailings => to'[r] = to[r]
             /\ r \in Checks => typed'[r] = typed[r]
  BY <1>2 DEF E!ReadToMail, E!WriteCode, E!Send, E!SendFails, E!Restore, E!Begin, E!Pass, E!End
<1>3. ASSUME NEW c \in Checks, E!ReadToCheck(c) \/ E!WriteVerified(c)
      PROVE  /\ mailPc'[r] # "idle"
             /\ r \in Mailings => to'[r] = to[r]
             /\ r \in Checks => typed'[r] = typed[r]
  BY <1>3 DEF E!ReadToCheck, E!WriteVerified, E!Begin, E!End
<1>4. ASSUME NEW x \in Clears, E!ReadToClear(x) \/ E!WriteCleared(x)
      PROVE  /\ mailPc'[r] # "idle"
             /\ r \in Mailings => to'[r] = to[r]
             /\ r \in Checks => typed'[r] = typed[r]
  BY <1>4 DEF E!ReadToClear, E!WriteCleared, E!Begin, E!End
<1>5. ASSUME NEW d \in E!Requests, E!Die(d)
      PROVE  /\ mailPc'[r] # "idle"
             /\ r \in Mailings => to'[r] = to[r]
             /\ r \in Checks => typed'[r] = typed[r]
  BY <1>5 DEF E!Die, E!End
<1> QED BY <1>1, <1>2, <1>3, <1>4, <1>5 DEF E!Next

\* Mails that have arrived stay.
LEMMA ArrivedStay ==
  ASSUME [E!Next]_(E!vars)
  PROVE  arrived \subseteq arrived'
BY DEF E!Next, E!vars, E!requestVars, E!Age, E!ReadToMail, E!WriteCode, E!Send, E!SendFails, E!Restore, E!ReadToCheck, E!WriteVerified,
       E!ReadToClear, E!WriteCleared, E!Die

LEMMA EmailNext == EmailInv /\ [E!Next]_(E!vars) => EmailInv'
<1> SUFFICES ASSUME EmailInv, [E!Next]_(E!vars) PROVE EmailInv'
  OBVIOUS
<1> USE DEF EmailInv
<1>0. E!TypeOK'
  BY EmailTypeNext
<1>1. \A m \in arrived' : mailPc'[m] # "idle"
  <2>1. \A m \in arrived : mailPc'[m] # "idle"
    BY EmailFrame DEF E!TypeOK, E!Requests
  <2>2. ASSUME NEW m \in Mailings, E!Send(m) \/ E!SendFails(m) PROVE mailPc'[m] # "idle" /\ arrived' \subseteq arrived \cup {m}
    BY <2>2 DEF E!Send, E!SendFails, E!End, E!Pass, E!TypeOK, E!Requests
  <2>3. (\E m \in Mailings : E!Send(m) \/ E!SendFails(m)) \/ arrived' = arrived
    BY DEF E!Next, E!vars, E!Age, E!ReadToMail, E!WriteCode, E!Restore, E!ReadToCheck, E!WriteVerified,
       E!ReadToClear, E!WriteCleared, E!Die
  <2> QED BY <2>1, <2>2, <2>3
<1>2. ASSUME NEW c \in Checks, mailPc'[c] = "write"
      PROVE  typed'[c] \in arrived' /\ to'[typed'[c]] = read'[c].pending
  <2>1. c \in E!Requests
    BY DEF E!Requests
  <2>2. CASE E!ReadToCheck(c)
    <3>1. PICK m \in arrived : typed' = [typed EXCEPT ![c] = m] /\ E!Matches(row, m)
      BY <1>2, <2>1, <2>2 DEF E!ReadToCheck, E!Begin, E!TypeOK
    <3> QED BY <3>1, <2>1, <2>2 DEF E!ReadToCheck, E!Begin, E!Matches, E!TypeOK
  <2>3. CASE ~E!ReadToCheck(c)
    <3>1. mailPc[c] = "write" /\ read'[c] = read[c]
      <4>1. CASE E!Age \/ UNCHANGED E!vars
        BY <1>2, <4>1 DEF E!Age, E!vars, E!requestVars
      <4>2. ASSUME NEW m \in Mailings, E!ReadToMail(m) \/ E!WriteCode(m) \/ E!Send(m) \/ E!SendFails(m) \/ E!Restore(m)
            PROVE  mailPc[c] = "write" /\ read'[c] = read[c]
        BY <1>2, <2>1, <4>2, EmailAssumption DEF E!ReadToMail, E!WriteCode, E!Send, E!SendFails, E!Restore, E!Begin, E!Pass, E!End, E!TypeOK, E!Requests
      <4>3. ASSUME NEW d \in Checks, E!ReadToCheck(d) \/ E!WriteVerified(d)
            PROVE  mailPc[c] = "write" /\ read'[c] = read[c]
        BY <1>2, <2>1, <2>3, <4>3 DEF E!ReadToCheck, E!WriteVerified, E!Begin, E!End, E!TypeOK, E!Requests
      <4>4. ASSUME NEW x \in Clears, E!ReadToClear(x) \/ E!WriteCleared(x)
            PROVE  mailPc[c] = "write" /\ read'[c] = read[c]
        BY <1>2, <2>1, <4>4, EmailAssumption DEF E!ReadToClear, E!WriteCleared, E!Begin, E!End, E!TypeOK, E!Requests
      <4>5. ASSUME NEW d \in E!Requests, E!Die(d) PROVE mailPc[c] = "write" /\ read'[c] = read[c]
        BY <1>2, <2>1, <4>5 DEF E!Die, E!End, E!TypeOK, E!Requests
      <4> QED BY <4>1, <4>2, <4>3, <4>4, <4>5 DEF E!Next
    <3>2. typed[c] \in arrived /\ to[typed[c]] = read[c].pending
      BY <3>1
    <3>3. typed[c] \in E!Requests /\ typed[c] \in Mailings /\ mailPc[typed[c]] # "idle"
      BY <3>2 DEF E!TypeOK, E!Requests
    <3> QED BY <2>1, <3>1, <3>2, <3>3, EmailFrame, ArrivedStay
  <2> QED BY <2>2, <2>3
<1>3. ASSUME row'.email # None
      PROVE  \E m \in arrived', c \in Checks : to'[m] = row'.email /\ typed'[c] = m /\ mailPc'[c] # "idle"
  <2>1. CASE row'.email = row.email
    <3>1. PICK m \in arrived, c \in Checks : to[m] = row.email /\ typed[c] = m /\ mailPc[c] # "idle"
      BY <1>3, <2>1
    <3>2. m \in Mailings /\ m \in E!Requests /\ c \in E!Requests /\ mailPc[m] # "idle"
      BY DEF E!TypeOK, E!Requests
    <3> QED BY <2>1, <3>1, <3>2, EmailFrame, ArrivedStay
  <2>2. ASSUME NEW c \in Checks, E!WriteVerified(c)
        PROVE  \E m \in arrived', d \in Checks : to'[m] = row'.email /\ typed'[d] = m /\ mailPc'[d] # "idle"
    <3>1. row'.email = read[c].pending
      BY <2>2 DEF E!WriteVerified, E!Proved, E!NoRow
    <3>2. mailPc'[c] # "idle"
      BY <2>2 DEF E!WriteVerified, E!End, E!TypeOK, E!Requests
    <3> QED BY <2>2, <3>1, <3>2 DEF E!WriteVerified
  <2>3. row'.email \in {row.email, None} \/ \E c \in Checks : E!WriteVerified(c)
    <3>1. \A m \in Mailings : E!WriteCode(m) => row'.email = row.email
      BY DEF E!WriteCode, E!TypeOK, E!Row
    <3>2. \A m \in Mailings : E!Restore(m) => row'.email = row.email
      BY DEF E!Restore, E!Restored, E!TypeOK, E!Row
    <3>3. \A x \in Clears : E!WriteCleared(x) => row'.email \in {row.email, None}
      BY DEF E!WriteCleared, E!TypeOK, E!Row, E!NoRow
    <3>4. E!Age => row'.email = row.email
      BY DEF E!Age, E!TypeOK, E!Row
    <3> QED BY <3>1, <3>2, <3>3, <3>4 DEF E!Next, E!vars, E!ReadToMail, E!Send, E!SendFails, E!ReadToCheck, E!ReadToClear, E!Die
  <2> QED BY <1>3, <2>1, <2>2, <2>3
<1> QED BY <1>0, <1>1, <1>2, <1>3

LEMMA EmailInit == E!Init => EmailInv
<1> SUFFICES ASSUME E!Init PROVE EmailInv
  OBVIOUS
<1>1. PICK e \in E!Maybe : row = [E!NoRow EXCEPT !.pending = e]
  BY DEF E!Init
<1>2. row \in E!Row /\ row.email = None
  BY <1>1 DEF E!Row, E!NoRow, E!Maybe
<1>3. E!NoRow \in E!Row
  BY DEF E!Row, E!NoRow, E!Maybe
<1> QED BY <1>2, <1>3 DEF E!Init, EmailInv, E!TypeOK, E!Requests, E!Maybe

\* The address a row has verified is one to which a code went that came back.
THEOREM EmailInvariance == E!Spec => []EmailInv
BY EmailInit, EmailNext, PTL DEF E!Spec

\* A verified address is one a code was mailed to and came back from, however
\* mailings, checks and removals interleave (email-verification.ts).
THEOREM VerifiedIsMailed == E!Spec => []E!VerifiedWasMailed
<1>1. EmailInv => E!VerifiedWasMailed
  BY DEF EmailInv, E!VerifiedWasMailed
<1> QED BY <1>1, EmailInvariance, PTL

\* Between requests that do not overlap.
MailedAlone(r) ==
  /\ mailPc[r] = "write" => CodeStands(row, expected) /\ CodeStands(read[r], expected)
  /\ mailPc[r] \in {"mail", "restore"} => r \in Mailings /\ CodeStands(row, r) /\ CodeStands(read[r], expected)

CodesKnown ==
  /\ expected # None => mailPc[expected] # "idle"
  /\ row.code # None => mailPc[row.code] # "idle"
  /\ \A r \in E!Requests : read[r].code # None => mailPc[read[r].code] # "idle"

MailingInv ==
  /\ CodesKnown
  /\ ~mailCrossed =>
       /\ \A r, s \in E!Busy : r = s
       /\ \A r \in E!Busy : MailedAlone(r)
       /\ E!Busy = {} => CodeStands(row, expected)

LEMMA CodesKnownNext ==
  ASSUME E!TypeOK, CodesKnown, [E!Next]_(E!vars)
  PROVE  CodesKnown'
<1> DEFINE Known(c) == c \in Mailings /\ mailPc[c] # "idle"
           Codes == {expected, row.code} \cup {read[r].code : r \in E!Requests} \cup {None}
<1>1. ASSUME NEW c \in Mailings, mailPc[c] # "idle" PROVE mailPc'[c] # "idle"
  BY <1>1, EmailFrame DEF E!Requests
<1>2. \A c \in Codes : c \in Mailings \cup {None}
  BY DEF E!TypeOK, E!Row
<1>3. \A c \in Codes : c # None => mailPc'[c] # "idle"
  BY <1>1, <1>2 DEF CodesKnown
<1> HIDE DEF Codes
<1>c. expected \in Codes /\ row.code \in Codes /\ None \in Codes /\ \A r \in E!Requests : read[r].code \in Codes
  BY DEF Codes
<1>n. E!NoRow.code = None
  BY DEF E!NoRow
<1> DEFINE New == Codes \cup {m \in Mailings : mailPc'[m] # "idle"}
           Goal == /\ expected' \in New /\ row'.code \in New
                   /\ \A r \in E!Requests : read'[r].code \in New
<1>4. CASE E!Age \/ UNCHANGED E!vars
  BY <1>4, <1>3, <1>c DEF E!Age, E!vars, E!requestVars, E!historyVars, CodesKnown, E!TypeOK, E!Row
<1>5. Goal => CodesKnown'
  BY <1>3 DEF CodesKnown
<1>6. ASSUME NEW m \in Mailings, E!ReadToMail(m) PROVE Goal
  BY <1>6, <1>c DEF E!ReadToMail, E!Begin, E!TypeOK
<1>7. ASSUME NEW m \in Mailings, E!WriteCode(m) PROVE Goal
  <2>1. row'.code = m /\ mailPc'[m] # "idle"
    BY <1>7 DEF E!WriteCode, E!Pass, E!TypeOK, E!Row, E!Requests
  <2> QED BY <1>7, <2>1, <1>c DEF E!WriteCode, E!Pass, E!historyVars
<1>8. ASSUME NEW m \in Mailings, E!Send(m) PROVE Goal
  BY <1>8, <1>c, <1>n DEF E!Send, E!End, E!TypeOK, E!Requests
<1>9. ASSUME NEW m \in Mailings, E!SendFails(m) PROVE Goal
  BY <1>9, <1>c DEF E!SendFails, E!Pass, E!historyVars
<1>10. ASSUME NEW m \in Mailings, E!Restore(m) PROVE Goal
  <2>1. row'.code = read[m].code
    BY <1>10 DEF E!Restore, E!Restored, E!TypeOK, E!Row, E!Requests
  <2> QED BY <1>10, <2>1, <1>c, <1>n DEF E!Restore, E!End, E!historyVars, E!TypeOK, E!Requests
<1>11. ASSUME NEW c \in Checks, E!ReadToCheck(c) PROVE Goal
  BY <1>11, <1>c DEF E!ReadToCheck, E!Begin, E!TypeOK
<1>12. ASSUME NEW c \in Checks, E!WriteVerified(c) PROVE Goal
  <2>1. row'.code = None
    BY <1>12 DEF E!WriteVerified, E!NoRow
  <2> QED BY <1>12, <2>1, <1>c, <1>n DEF E!WriteVerified, E!End, E!TypeOK, E!Requests
<1>13. ASSUME NEW x \in Clears, E!ReadToClear(x) PROVE Goal
  BY <1>13, <1>c DEF E!ReadToClear, E!Begin, E!TypeOK
<1>14. ASSUME NEW x \in Clears, E!WriteCleared(x) PROVE Goal
  <2>1. row'.code \in {None, row.code} /\ expected' \in {None, expected}
    BY <1>14 DEF E!WriteCleared, E!NoRow, E!TypeOK, E!Row
  <2> QED BY <1>14, <2>1, <1>c, <1>n DEF E!WriteCleared, E!End, E!TypeOK, E!Requests
<1>15. ASSUME NEW d \in E!Requests, E!Die(d) PROVE Goal
  BY <1>15, <1>c, <1>n DEF E!Die, E!End, E!TypeOK
<1> QED BY <1>4, <1>5, <1>6, <1>7, <1>8, <1>9, <1>10, <1>11, <1>12, <1>13, <1>14, <1>15 DEF E!Next

LEMMA MailingNext ==
  ASSUME E!TypeOK, MailingInv, [E!Next]_(E!vars)
  PROVE  MailingInv'
<1>0. CodesKnown'
  BY CodesKnownNext DEF MailingInv
<1> SUFFICES ASSUME ~mailCrossed'
             PROVE  (/\ \A r, s \in E!Busy : r = s
                     /\ \A r \in E!Busy : MailedAlone(r)
                     /\ E!Busy = {} => CodeStands(row, expected))'
  BY <1>0 DEF MailingInv
<1>1. ~mailCrossed
  BY DEF E!Next, E!vars, E!historyVars, E!Age, E!ReadToMail, E!WriteCode, E!Send, E!SendFails, E!Restore, E!ReadToCheck, E!WriteVerified,
         E!ReadToClear, E!WriteCleared, E!Die, E!Begin
<1>2. (\A r, s \in E!Busy : r = s) /\ (\A r \in E!Busy : MailedAlone(r)) /\ (E!Busy = {} => CodeStands(row, expected))
  BY <1>1 DEF MailingInv
<1> DEFINE Goal(r) == /\ E!Busy' \subseteq {r}
                      /\ r \in E!Busy' => MailedAlone(r)'
                      /\ r \notin E!Busy' => CodeStands(row, expected)'
<1>3. ASSUME NEW r, Goal(r)
      PROVE  (/\ \A x, s \in E!Busy : x = s
              /\ \A x \in E!Busy : MailedAlone(x)
              /\ E!Busy = {} => CodeStands(row, expected))'
  BY <1>3
<1> HIDE DEF Goal
<1>4. CASE E!Age \/ UNCHANGED E!vars
  <2>1. UNCHANGED <<E!requestVars, arrived, E!historyVars>> /\ row'.code = row.code /\ row'.pending = row.pending
    BY <1>4 DEF E!Age, E!vars, E!TypeOK, E!Row
  <2> QED BY <1>2, <2>1 DEF E!Busy, MailedAlone, CodeStands, E!requestVars, E!historyVars
\* A request begins while no other runs.
<1>5. ASSUME NEW r \in E!Requests, NEW nextStep \in {"write", "failed"}, E!Begin(r, nextStep),
             UNCHANGED <<row, expected>>, \A m \in Mailings : m # r => to'[m] = to[m]
      PROVE  Goal(r)
  <2>1. E!Busy = {} /\ E!Busy' \subseteq {r} /\ mailPc[r] = "idle"
    BY <1>5 DEF E!Begin, E!Busy, E!TypeOK
  <2>2. CodeStands(row, expected)
    BY <1>2, <2>1
  <2>3. expected # None => expected # r /\ expected \in Mailings
    BY <2>1 DEF MailingInv, CodesKnown, E!TypeOK
  <2>4. CodeStands(row, expected)'
    BY <1>5, <2>2, <2>3 DEF CodeStands, E!TypeOK
  <2>5. read'[r] = row /\ mailPc'[r] = nextStep
    BY <1>5 DEF E!Begin, E!TypeOK
  <2>6. CodeStands(read[r], expected)'
    BY <1>5, <2>4, <2>5 DEF CodeStands
  <2> QED BY <2>1, <2>4, <2>5, <2>6 DEF Goal, MailedAlone
\* A request that runs is the only one.
<1>6. ASSUME NEW r \in E!Busy, UNCHANGED <<to, mailCrossed>>, \A s \in E!Requests \ {r} : mailPc'[s] = mailPc[s]
      PROVE  E!Busy' \subseteq {r} /\ MailedAlone(r)
  BY <1>2, <1>6 DEF E!Busy
<1>7. ASSUME NEW m \in Mailings, E!ReadToMail(m) PROVE Goal(m)
  BY <1>5, <1>7 DEF E!ReadToMail, E!TypeOK, E!Requests
<1>8. ASSUME NEW m \in Mailings, E!WriteCode(m) PROVE Goal(m)
  <2>1. m \in E!Busy /\ mailPc' = [mailPc EXCEPT ![m] = "mail"] /\ UNCHANGED <<to, mailCrossed, read, expected>>
    BY <1>8 DEF E!WriteCode, E!Busy, E!Requests, E!Pass, E!historyVars
  <2>2. E!Busy' \subseteq {m} /\ MailedAlone(m)
    BY <1>6, <2>1 DEF E!TypeOK
  <2>3. row'.code = m /\ row'.pending = to[m]
    BY <1>8 DEF E!WriteCode, E!TypeOK, E!Row
  <2>4. mailPc[m] = "write" /\ mailPc'[m] = "mail"
    BY <1>8, <2>1 DEF E!WriteCode, E!TypeOK, E!Requests
  <2>5. m \in E!Busy'
    BY <2>4 DEF E!Busy, E!Requests
  <2> QED BY <2>1, <2>2, <2>3, <2>4, <2>5 DEF Goal, MailedAlone, CodeStands
<1>9. ASSUME NEW m \in Mailings, E!Send(m) PROVE Goal(m)
  <2>1. m \in E!Busy /\ mailPc' = [mailPc EXCEPT ![m] = "done"] /\ UNCHANGED <<to, mailCrossed, row>> /\ expected' = m
    BY <1>9 DEF E!Send, E!Busy, E!Requests, E!End
  <2>2. E!Busy' \subseteq {m} /\ MailedAlone(m)
    BY <1>6, <2>1 DEF E!TypeOK
  <2>3. m \notin E!Busy' /\ mailPc[m] = "mail"
    BY <1>9, <2>1 DEF E!Send, E!Busy, E!TypeOK, E!Requests
  <2> QED BY <2>1, <2>2, <2>3 DEF Goal, MailedAlone, CodeStands
<1>10. ASSUME NEW m \in Mailings, E!SendFails(m) PROVE Goal(m)
  <2>1. m \in E!Busy /\ mailPc' = [mailPc EXCEPT ![m] = "restore"] /\ UNCHANGED <<to, mailCrossed, row, read, expected>>
    BY <1>10 DEF E!SendFails, E!Busy, E!Requests, E!Pass, E!historyVars
  <2>2. E!Busy' \subseteq {m} /\ MailedAlone(m)
    BY <1>6, <2>1 DEF E!TypeOK
  <2>3. m \in E!Busy' /\ mailPc[m] = "mail" /\ mailPc'[m] = "restore"
    BY <1>10, <2>1 DEF E!SendFails, E!Busy, E!TypeOK, E!Requests
  <2> QED BY <2>1, <2>2, <2>3 DEF Goal, MailedAlone, CodeStands
<1>11. ASSUME NEW m \in Mailings, E!Restore(m) PROVE Goal(m)
  <2>1. m \in E!Busy /\ mailPc' = [mailPc EXCEPT ![m] = "failed"] /\ UNCHANGED <<to, mailCrossed, expected>>
    BY <1>11 DEF E!Restore, E!Busy, E!Requests, E!End, E!historyVars
  <2>2. E!Busy' \subseteq {m} /\ MailedAlone(m)
    BY <1>6, <2>1 DEF E!TypeOK
  <2>3. m \notin E!Busy' /\ mailPc[m] = "restore"
    BY <1>11, <2>1 DEF E!Restore, E!Busy, E!TypeOK, E!Requests
  <2>4. row'.code = read[m].code /\ row'.pending = read[m].pending
    BY <1>11 DEF E!Restore, E!Restored, E!TypeOK, E!Row, E!Requests
  <2> QED BY <2>1, <2>2, <2>3, <2>4 DEF Goal, MailedAlone, CodeStands
<1>12. ASSUME NEW c \in Checks, E!ReadToCheck(c) PROVE Goal(c)
  <2>1. PICK nextStep \in {"write", "failed"} : E!Begin(c, nextStep)
    BY <1>12 DEF E!ReadToCheck
  <2> QED BY <1>5, <1>12, <2>1 DEF E!ReadToCheck, E!Requests
<1>13. ASSUME NEW c \in Checks, E!WriteVerified(c) PROVE Goal(c)
  <2>1. c \in E!Busy /\ mailPc' = [mailPc EXCEPT ![c] = "done"] /\ UNCHANGED <<to, mailCrossed>>
    BY <1>13 DEF E!WriteVerified, E!Busy, E!Requests, E!End
  <2>2. E!Busy' \subseteq {c}
    BY <1>6, <2>1 DEF E!TypeOK
  <2>3. c \notin E!Busy'
    BY <2>1 DEF E!Busy, E!TypeOK, E!Requests
  <2>4. row'.code = None /\ expected' = None
    BY <1>13 DEF E!WriteVerified, E!NoRow
  <2> QED BY <2>2, <2>3, <2>4 DEF Goal, CodeStands
<1>14. ASSUME NEW x \in Clears, E!ReadToClear(x) PROVE Goal(x)
  BY <1>5, <1>14 DEF E!ReadToClear, E!Requests
<1>15. ASSUME NEW x \in Clears, E!WriteCleared(x) PROVE Goal(x)
  <2>1. x \in E!Busy /\ mailPc' = [mailPc EXCEPT ![x] = "done"] /\ UNCHANGED <<to, mailCrossed>> /\ mailPc[x] = "write"
    BY <1>15 DEF E!WriteCleared, E!Busy, E!Requests, E!End
  <2>2. E!Busy' \subseteq {x} /\ MailedAlone(x)
    BY <1>6, <2>1 DEF E!TypeOK
  <2>3. x \notin E!Busy'
    BY <2>1 DEF E!Busy, E!TypeOK, E!Requests
  <2>4. \/ row'.code = None /\ expected' = None
        \/ row'.code = row.code /\ row'.pending = row.pending /\ expected' = expected
    BY <1>15 DEF E!WriteCleared, E!NoRow, E!TypeOK, E!Row
  <2> QED BY <2>1, <2>2, <2>3, <2>4 DEF Goal, MailedAlone, CodeStands
<1>16. ASSUME NEW d \in E!Requests, E!Die(d) PROVE Goal(d)
  <2>1. d \in E!Busy /\ mailPc' = [mailPc EXCEPT ![d] = "failed"] /\ UNCHANGED <<to, mailCrossed, row>>
    BY <1>16 DEF E!Die, E!End
  <2>2. E!Busy' \subseteq {d} /\ MailedAlone(d)
    BY <1>6, <2>1 DEF E!TypeOK
  <2>3. d \notin E!Busy'
    BY <2>1 DEF E!Busy, E!TypeOK, E!Requests
  <2> QED BY <1>16, <2>1, <2>2, <2>3 DEF E!Die, Goal, MailedAlone, CodeStands, E!Busy
<1> QED BY <1>3, <1>4, <1>7, <1>8, <1>9, <1>10, <1>11, <1>12, <1>13, <1>14, <1>15, <1>16 DEF E!Next

\* While requests do not overlap, the code in the row is the one that was
\* mailed last.
THEOREM MailingInvariance == E!Spec => []MailingInv
<1>1. E!Init => MailingInv
  <2> SUFFICES ASSUME E!Init PROVE MailingInv
    OBVIOUS
  <2>1. PICK e \in E!Maybe : row = [E!NoRow EXCEPT !.pending = e]
    BY DEF E!Init
  <2>2. row.code = None
    BY <2>1 DEF E!NoRow
  <2> QED BY <2>2 DEF E!Init, MailingInv, CodesKnown, E!Busy, CodeStands, E!NoRow
<1>2. EmailInv => E!TypeOK
  BY DEF EmailInv
<1> QED BY <1>1, <1>2, EmailInvariance, MailingNext, PTL DEF E!Spec

\* The last mailing of requests that do not overlap is the one that stands.
THEOREM LastMailingIsKept == E!Spec => []E!LastMailingStands
<1>1. MailingInv => E!LastMailingStands
  BY DEF MailingInv, E!LastMailingStands, CodeStands
<1> QED BY <1>1, MailingInvariance, PTL

-----------------------------------------------------------------------------
(* Pictures.                                                               *)

PictureWritten == {"color", "fetch", "show", "done"}
PictureReplacing == {"put", "delete", "write"}

\* A file stands in one column at most, and an upload in none until its row is
\* written.
FilesInPlace ==
  /\ \A c, d \in P!Columns : pic[c] \in P!Files /\ pic[c] = pic[d] => c = d
  /\ \A c \in P!Columns : pic[c] \in Uploads => picPc[pic[c]] \in PictureWritten

\* What a request has read names an older file, of its own column; its own is
\* in the bucket once it is put.
RequestInPlace(r) ==
  /\ picPc[r] = "delete" => old[r] \in P!Files
  /\ picPc[r] \in PictureReplacing /\ old[r] \in P!Files =>
       /\ \A c \in P!Columns : pic[c] = old[r] => c = at[r]
       /\ old[r] \in Uploads => picPc[old[r]] \in PictureWritten
  /\ r \in Uploads /\ picPc[r] \in {"delete", "write"} => r \in picStored
  /\ r \in Removals => picPc[r] \in {"idle", "delete", "write", "done"}

PictureInv ==
  /\ P!TypeOK /\ FilesInPlace /\ P!PicturesStand
  /\ \A r \in P!Requests : RequestInPlace(r)

LEMMA PictureCount == ASSUME NEW T PROVE P!Cardinality(T) = Cardinality(T)
BY DEF P!Cardinality, Cardinality

LEMMA PictureInit == P!Init => PictureInv
<1> SUFFICES ASSUME P!Init PROVE PictureInv
  OBVIOUS
<1> USE PicturesAssumption
<1>1. P!Unread \in P!Columns /\ P!Unread[1] \in PictureIds
  BY DEF P!Unread, P!Columns
<1>2. pic \in [P!Columns -> P!Files \cup {Color, None}] /\ picStored \subseteq P!Files
  BY DEF P!Init, P!Files
<1>3. P!NoRow \in [{"avatar", "banner"} -> P!Files \cup {Color, None}]
  BY DEF P!NoRow
<1>4. P!TypeOK
  BY <1>1, <1>2, <1>3 DEF P!Init, P!TypeOK, P!Files
<1>5. ASSUME NEW c \in P!Columns, NEW d \in P!Columns, pic[c] \in P!Files, pic[c] = pic[d] PROVE c = d
  <2> DEFINE Same == {e \in P!Columns : pic[e] = pic[c]}
  <2>1. pic[c] \in Before
    BY <1>5 DEF P!Init, P!Files
  <2>2. Cardinality(Same) = 1
    BY <2>1, PictureCount DEF P!Init
  <2>3. IsFiniteSet({"avatar", "banner"})
    <3>1. IsFiniteSet({"avatar"}) /\ IsFiniteSet({"banner"})
      BY FS_Singleton
    <3>2. {"avatar", "banner"} = {"avatar"} \cup {"banner"}
      OBVIOUS
    <3>3. IsFiniteSet({"avatar"} \cup {"banner"})
      BY <3>1, FS_Union
    <3> QED BY <3>2, <3>3
  <2>4. IsFiniteSet(P!Columns)
    BY <2>3, FS_Product DEF P!Columns
  <2>5. IsFiniteSet(Same)
    BY <2>4, FS_Subset
  <2>6. \E x : Same = {x}
    BY <2>2, <2>5, FS_Singleton
  <2> QED BY <1>5, <2>6
<1>6. \A c \in P!Columns : pic[c] \notin Uploads
  BY DEF P!Init, P!Files
<1>7. \A c \in P!Columns : pic[c] \in P!Files => pic[c] \in picStored
  BY DEF P!Init, P!Files
<1> QED BY <1>4, <1>5, <1>6, <1>7 DEF P!Init, PictureInv, FilesInPlace, P!PicturesStand, RequestInPlace, P!Requests

LEMMA MovedColumn ==
  ASSUME NEW c \in P!Columns, NEW i \in PictureIds
  PROVE  [c EXCEPT ![1] = i] \in P!Columns /\ [c EXCEPT ![1] = i] = <<i, c[2]>>
BY DEF P!Columns

PicturePageStep(u) == P!Choose(u) \/ P!SendAvatar(u) \/ P!Put(u) \/ P!PatchColor(u) \/ P!Fetch(u) \/ P!Show(u)
AnyStep(r) == P!DeleteOld(r) \/ P!Write(r) \/ P!Fail(r)

LEMMA PictureTypeNext ==
  ASSUME P!TypeOK, [P!Next]_(P!vars)
  PROVE  P!TypeOK'
<1> USE PicturesAssumption DEF P!TypeOK, P!Requests
<1>0. P!Unread \in P!Columns /\ P!NoRow \in [{"avatar", "banner"} -> P!Files \cup {Color, None}]
  BY DEF P!Unread, P!Columns, P!NoRow
<1>1. ASSUME NEW i \in PictureIds PROVE <<i, "avatar">> \in P!Columns /\ <<i, "banner">> \in P!Columns
                                /\ P!Row(i) \in [{"avatar", "banner"} -> P!Files \cup {Color, None}]
  BY DEF P!Columns, P!Row
<1>2. ASSUME NEW u \in Uploads, P!Choose(u) \/ P!SendAvatar(u) PROVE P!TypeOK'
  <2>1. picDoubtful' \in BOOLEAN
    BY <1>2 DEF P!Choose, P!SendAvatar, P!Starts, P!historyVars
  <2>2. CASE P!Choose(u)
    <3>1. picPc' \in [P!Requests -> {"idle", "derive", "put", "delete", "write", "color", "fetch", "show", "done"}]
      BY <2>2 DEF P!Choose
    <3>2. <<open, "banner">> \in P!Columns /\ pic[<<open, "banner">>] \in P!Files \cup {Color, None}
      BY <1>1
    <3>3. at' = at \/ at' = [at EXCEPT ![u] = <<open, "banner">>]
      BY <2>2 DEF P!Choose, P!Read
    <3>4. old' = old \/ old' = [old EXCEPT ![u] = pic[<<open, "banner">>]]
      BY <2>2 DEF P!Choose, P!Read
    <3>5. meant' \in [Uploads -> PictureIds]
      BY <2>2 DEF P!Choose
    <3>6. at' \in [P!Requests -> P!Columns] /\ old' \in [P!Requests -> P!Files \cup {Color, None}]
      BY <3>2, <3>3, <3>4
    <3> QED BY <2>1, <2>2, <3>1, <3>5, <3>6 DEF P!Choose, P!rowVars, P!pageVars
  <2>3. CASE P!SendAvatar(u)
    BY <1>1, <2>1, <2>3 DEF P!SendAvatar, P!Read, P!rowVars, P!pageVars, P!historyVars
  <2> QED BY <1>2, <2>2, <2>3
<1>3. ASSUME NEW u \in Uploads, P!Put(u) PROVE P!TypeOK'
  BY <1>3 DEF P!Put, P!AfterPut, P!Files, P!pageVars, P!historyVars
<1>4. ASSUME NEW u \in Uploads, P!PatchColor(u) PROVE P!TypeOK'
  <2>1. at[u] \in P!Columns /\ P!Owner(u) \in PictureIds
    BY DEF P!Owner, P!Columns
  <2>2. at' = [at EXCEPT ![u] = [at[u] EXCEPT ![1] = P!Owner(u)]]
    BY <1>4 DEF P!PatchColor
  <2>3. at' \in [P!Requests -> P!Columns]
    BY <2>1, <2>2, MovedColumn
  <2>4. [P!Row(P!Owner(u)) EXCEPT !.banner = Color] \in [{"avatar", "banner"} -> P!Files \cup {Color, None}]
    BY <1>1, <2>1
  <2>5. picGot' \in [Uploads -> [{"avatar", "banner"} -> P!Files \cup {Color, None}]]
    BY <1>4, <2>4 DEF P!PatchColor
  <2>6. pic' \in [P!Columns -> P!Files \cup {Color, None}]
    BY <1>1, <1>4, <2>1 DEF P!PatchColor
  <2> QED BY <1>4, <2>3, <2>5, <2>6 DEF P!PatchColor, P!historyVars
<1>5. ASSUME NEW u \in Uploads, P!Fetch(u) PROVE P!TypeOK'
  <2>1. at' = [at EXCEPT ![u] = [at[u] EXCEPT ![1] = open]]
    BY <1>5 DEF P!Fetch
  <2>2. at' \in [P!Requests -> P!Columns]
    BY <2>1, MovedColumn
  <2> QED BY <1>1, <1>5, <2>2 DEF P!Fetch, P!rowVars, P!historyVars
<1>6. ASSUME NEW u \in Uploads, P!Show(u) PROVE P!TypeOK'
  <2>1. picShown' \in [P!Columns -> P!Files \cup {Color, None}]
    BY <1>6 DEF P!Show, P!Updated, P!Columns
  <2> QED BY <1>0, <1>6, <2>1 DEF P!Show, P!Ends, P!rowVars, P!historyVars
<1>7. ASSUME NEW r \in Removals, P!Remove(r) PROVE P!TypeOK'
  BY <1>7 DEF P!Remove, P!Read, P!rowVars, P!pageVars
<1>8. ASSUME NEW r \in P!Requests, P!DeleteOld(r) PROVE P!TypeOK'
  BY <1>8 DEF P!DeleteOld, P!pageVars, P!historyVars
<1>9. ASSUME NEW r \in P!Requests, P!Write(r) PROVE P!TypeOK'
  BY <1>0, <1>9 DEF P!Write, P!Ends, P!AfterWrite, P!Files, P!pageVars, P!historyVars
<1>10. ASSUME NEW r \in P!Requests, P!Fail(r) PROVE P!TypeOK'
  <2>1. lost' \subseteq P!Files
    BY <1>10 DEF P!Fail
  <2> QED BY <1>0, <1>10, <2>1 DEF P!Fail, P!Ends, P!rowVars
<1>11. CASE P!Select \/ P!Reload \/ UNCHANGED P!vars
  <2>1. picDoubtful' \in BOOLEAN
    BY <1>11 DEF P!Select, P!Reload, P!vars, P!historyVars
  <2> QED BY <1>11, <2>1 DEF P!Select, P!Reload, P!vars, P!rowVars, P!requestVars, P!pageVars, P!historyVars
<1> QED BY <1>2, <1>3, <1>4, <1>5, <1>6, <1>7, <1>8, <1>9, <1>10, <1>11 DEF P!Next

\* Steps of the page that change no picture and no object.
LEMMA PictureQuietSteps ==
  ASSUME PictureInv,
         \/ \E u \in Uploads : P!Choose(u) \/ P!SendAvatar(u) \/ P!Fetch(u) \/ P!Show(u)
         \/ \E r \in Removals : P!Remove(r)
         \/ P!Select \/ P!Reload \/ UNCHANGED P!vars
  PROVE  (FilesInPlace /\ P!PicturesStand /\ \A r \in P!Requests : RequestInPlace(r))'
<1> USE PicturesAssumption DEF PictureInv, P!TypeOK, P!Requests
<1>0. UNCHANGED <<pic, picStored, lost>>
  BY DEF P!Choose, P!SendAvatar, P!Fetch, P!Show, P!Remove, P!Select, P!Reload, P!vars, P!rowVars, P!historyVars
<1>1. ASSUME NEW u \in Uploads, P!Choose(u) \/ P!SendAvatar(u)
      PROVE  (FilesInPlace /\ P!PicturesStand /\ \A r \in P!Requests : RequestInPlace(r))'
  <2>1. /\ picPc[u] \in {"idle", "derive"} /\ picPc'[u] \in {"derive", "put", "color"}
        /\ picPc'[u] = "put" => at'[u] \in P!Columns /\ old'[u] = pic[at'[u]]
        /\ \A r \in P!Requests \ {u} : picPc'[r] = picPc[r] /\ at'[r] = at[r] /\ old'[r] = old[r]
    <3>1. <<open, "avatar">> \in P!Columns /\ <<open, "banner">> \in P!Columns
      BY DEF P!Columns
    <3>2. CASE P!Choose(u)
      BY <3>1, <3>2 DEF P!Choose, P!Read
    <3>3. CASE P!SendAvatar(u)
      BY <3>1, <3>3 DEF P!SendAvatar, P!Read
    <3> QED BY <1>1, <3>2, <3>3
  <2>2. \A c \in P!Columns : pic[c] # u
    BY <2>1 DEF FilesInPlace, PictureWritten
  <2>3. FilesInPlace'
    BY <1>0, <2>1, <2>2 DEF FilesInPlace
  <2>4. P!PicturesStand'
    BY <1>0, <2>1 DEF P!PicturesStand
  <2>5. RequestInPlace(u)'
    BY <1>0, <2>1, <2>3 DEF RequestInPlace, FilesInPlace, PictureReplacing, PictureWritten
  <2>6. \A r \in P!Requests \ {u} : RequestInPlace(r)'
    BY <1>0, <2>1 DEF RequestInPlace, PictureReplacing, PictureWritten
  <2> QED BY <2>3, <2>4, <2>5, <2>6
<1>2. ASSUME NEW u \in Uploads, P!Fetch(u) \/ P!Show(u)
      PROVE  (FilesInPlace /\ P!PicturesStand /\ \A r \in P!Requests : RequestInPlace(r))'
  <2>1. /\ picPc[u] \in PictureWritten /\ picPc'[u] \in {"show", "done"}
        /\ \A r \in P!Requests \ {u} : picPc'[r] = picPc[r] /\ at'[r] = at[r] /\ old'[r] = old[r]
    BY <1>2 DEF P!Fetch, P!Show, P!Ends, PictureWritten
  <2>2. FilesInPlace'
    BY <1>0, <2>1 DEF FilesInPlace, PictureWritten
  <2>3. P!PicturesStand'
    BY <1>0, <2>1 DEF P!PicturesStand, PictureWritten
  <2>4. \A r \in P!Requests : RequestInPlace(r)'
    BY <1>0, <2>1 DEF RequestInPlace, PictureReplacing, PictureWritten
  <2> QED BY <2>2, <2>3, <2>4
<1>3. ASSUME NEW r \in Removals, P!Remove(r)
      PROVE  (FilesInPlace /\ P!PicturesStand /\ \A q \in P!Requests : RequestInPlace(q))'
  <2>1. /\ picPc[r] = "idle" /\ picPc'[r] \in {"delete", "write"} /\ at'[r] \in P!Columns /\ old'[r] = pic[at'[r]]
        /\ picPc'[r] = "delete" => pic[at'[r]] \in P!Files
        /\ \A q \in P!Requests \ {r} : picPc'[q] = picPc[q] /\ at'[q] = at[q] /\ old'[q] = old[q]
    BY <1>3 DEF P!Remove, P!Read
  <2>2. FilesInPlace'
    BY <1>0, <2>1 DEF FilesInPlace
  <2>3. P!PicturesStand'
    BY <1>0, <2>1 DEF P!PicturesStand
  <2>4. RequestInPlace(r)'
    BY <1>0, <2>1, <2>2 DEF RequestInPlace, FilesInPlace
  <2>5. \A q \in P!Requests \ {r} : RequestInPlace(q)'
    BY <1>0, <2>1 DEF RequestInPlace, PictureReplacing, PictureWritten
  <2> QED BY <2>2, <2>3, <2>4, <2>5
<1>4. CASE P!Select \/ P!Reload \/ UNCHANGED P!vars
  <2>1. UNCHANGED <<picPc, at, old>>
    BY <1>4 DEF P!Select, P!Reload, P!vars, P!requestVars
  <2> QED BY <1>0, <2>1 DEF FilesInPlace, P!PicturesStand, RequestInPlace
<1> QED BY <1>1, <1>2, <1>3, <1>4

\* Steps that change the bucket or a row.
LEMMA PictureChangeSteps ==
  ASSUME PictureInv, NEW r \in P!Requests,
         (r \in Uploads /\ (P!Put(r) \/ P!PatchColor(r))) \/ P!DeleteOld(r) \/ P!Write(r) \/ P!Fail(r)
  PROVE  (FilesInPlace /\ P!PicturesStand /\ \A q \in P!Requests : RequestInPlace(q))'
<1> USE PicturesAssumption DEF PictureInv, P!TypeOK, P!Requests
<1>0. r \in Uploads => r \in P!Files
  BY DEF P!Files
<1>1. CASE r \in Uploads /\ P!Put(r)
  <2>1. /\ picPc[r] = "put" /\ picPc'[r] \in {"delete", "write"} /\ (picPc'[r] = "delete" => old[r] \in P!Files)
        /\ UNCHANGED <<pic, at, old, lost>> /\ picStored' = picStored \cup {r}
        /\ \A q \in P!Requests \ {r} : picPc'[q] = picPc[q]
    BY <1>1 DEF P!Put, P!AfterPut, P!historyVars
  <2>2. FilesInPlace'
    BY <2>1 DEF FilesInPlace, PictureWritten
  <2>3. P!PicturesStand'
    BY <2>1 DEF P!PicturesStand
  <2>4. \A q \in P!Requests : RequestInPlace(q)'
    BY <2>1 DEF RequestInPlace, PictureReplacing, PictureWritten
  <2> QED BY <2>2, <2>3, <2>4
<1>2. CASE r \in Uploads /\ P!PatchColor(r)
  <2>1. /\ picPc[r] = "color" /\ picPc'[r] = "show" /\ UNCHANGED <<picStored, old, lost>>
        /\ \A q \in P!Requests \ {r} : picPc'[q] = picPc[q] /\ at'[q] = at[q]
        /\ \A c \in P!Columns : pic'[c] \in {pic[c], Color}
    BY <1>2 DEF P!PatchColor, P!historyVars
  <2>2. FilesInPlace'
    BY <2>1, <1>0 DEF FilesInPlace, PictureWritten, P!Files
  <2>3. P!PicturesStand'
    BY <2>1 DEF P!PicturesStand
  <2>4. \A q \in P!Requests : RequestInPlace(q)'
    BY <2>1 DEF RequestInPlace, PictureReplacing, PictureWritten
  <2> QED BY <2>2, <2>3, <2>4
<1>3. CASE P!DeleteOld(r)
  <2>1. /\ picPc[r] = "delete" /\ picPc'[r] = "write" /\ UNCHANGED <<pic, at, old, lost>>
        /\ picStored' \in {picStored, picStored \ {old[r]}}
        /\ \A q \in P!Requests \ {r} : picPc'[q] = picPc[q]
    BY <1>3 DEF P!DeleteOld, P!Replaced, P!historyVars
  <2>2. old[r] \in P!Files /\ (\A c \in P!Columns : pic[c] = old[r] => c = at[r])
        /\ (old[r] \in Uploads => picPc[old[r]] \in PictureWritten)
    BY <2>1 DEF RequestInPlace, PictureReplacing
  <2>3. FilesInPlace'
    BY <2>1 DEF FilesInPlace, PictureWritten
  <2>4. P!PicturesStand'
    BY <2>1, <2>2 DEF P!PicturesStand
  <2>5. \A q \in P!Requests : RequestInPlace(q)'
    BY <2>1, <2>2 DEF RequestInPlace, PictureReplacing, PictureWritten
  <2> QED BY <2>3, <2>4, <2>5
<1>4. CASE P!Write(r)
  <2>1. /\ picPc[r] = "write" /\ UNCHANGED <<picStored, lost>>
        /\ pic' = [pic EXCEPT ![at[r]] = IF r \in Removals THEN None ELSE r]
        /\ picPc'[r] \in PictureWritten /\ picPc'[r] # "show" /\ (r \in Removals => picPc'[r] = "done")
        /\ \A q \in P!Requests \ {r} : picPc'[q] = picPc[q] /\ at'[q] = at[q] /\ old'[q] = old[q]
    BY <1>4 DEF P!Write, P!Ends, P!AfterWrite, PictureWritten, P!historyVars
  <2>2. at[r] \in P!Columns /\ (r \notin Removals => r \in Uploads /\ r \in picStored)
    BY <2>1 DEF RequestInPlace
  <2>3. \A c \in P!Columns : pic[c] # r \/ r \notin Uploads
    BY <2>1 DEF FilesInPlace, PictureWritten
  <2>4. \A q \in P!Requests : picPc[q] \in PictureReplacing => old[q] # r \/ r \notin Uploads
    BY <2>1, <1>0 DEF RequestInPlace, PictureWritten
  <2>5. FilesInPlace'
    BY <2>1, <2>2, <2>3, <1>0 DEF FilesInPlace, PictureWritten, P!Files
  <2>6. P!PicturesStand'
    BY <2>1, <2>2, <2>3, <1>0 DEF P!PicturesStand
  <2>7. \A q \in P!Requests : RequestInPlace(q)'
    BY <2>1, <2>2, <2>4, <1>0 DEF RequestInPlace, PictureReplacing, PictureWritten
  <2> QED BY <2>5, <2>6, <2>7
<1>5. CASE P!Fail(r)
  <2>1. /\ picPc'[r] = "done" /\ UNCHANGED <<pic, picStored>>
        /\ lost' = (IF picPc[r] = "write" THEN lost \cup ({old[r]} \cap (P!Files \ picStored)) ELSE lost)
        /\ \A q \in P!Requests \ {r} : picPc'[q] = picPc[q] /\ at'[q] = at[q] /\ old'[q] = old[q]
    BY <1>5 DEF P!Fail, P!Ends, P!rowVars
  <2>2. FilesInPlace'
    BY <2>1 DEF FilesInPlace, PictureWritten
  <2>3. P!PicturesStand'
    BY <2>1 DEF P!PicturesStand
  <2>4. \A q \in P!Requests : RequestInPlace(q)'
    BY <2>1 DEF RequestInPlace, PictureReplacing, PictureWritten
  <2> QED BY <2>2, <2>3, <2>4
<1> QED BY <1>1, <1>2, <1>3, <1>4, <1>5

LEMMA PictureNext == PictureInv /\ [P!Next]_(P!vars) => PictureInv'
<1> SUFFICES ASSUME PictureInv, [P!Next]_(P!vars) PROVE PictureInv'
  OBVIOUS
<1>1. P!TypeOK'
  BY PictureTypeNext DEF PictureInv
<1>2. (FilesInPlace /\ P!PicturesStand /\ \A r \in P!Requests : RequestInPlace(r))'
  <2>1. Uploads \subseteq P!Requests
    BY DEF P!Requests
  <2> QED BY <2>1, PictureQuietSteps, PictureChangeSteps DEF P!Next
<1> QED BY <1>1, <1>2 DEF PictureInv

\* What an upload, a colour or a removal has read and put is in the bucket
\* until its write decides about it.
THEOREM PictureInvariance == P!Spec => []PictureInv
BY PictureInit, PictureNext, PTL DEF P!Spec

\* An avatar that was sent before the user opened another identity is of the
\* one it was chosen for.
MeantFor(u) ==
  /\ picPc[u] = "derive" => meant[u] = open
  /\ picPc[u] \in PictureReplacing /\ at[u][2] = "avatar" => at[u][1] = meant[u]
  /\ \A i \in PictureIds : pic[<<i, "avatar">>] = u => i = meant[u]

\* What the page shows while one upload runs, and nothing else.
Follows(u) ==
  /\ picPc[u] \in {"derive"} \cup PictureReplacing => picShown = pic
  /\ picPc[u] # "derive" => at[u][1] = open /\ \A c \in P!Columns : c[1] # open => picShown[c] = pic[c]
  /\ picPc[u] = "show" => \A k \in {"avatar", "banner"} : picGot[u][k] = pic[<<open, k>>]

QuietPage ==
  ~picDoubtful =>
    /\ P!Busy = {} => picShown = pic
    /\ \A r \in P!Busy : r \in Uploads /\ P!Busy = {r} /\ Follows(r)

LEMMA MeantNext ==
  ASSUME PictureInv, \A u \in Uploads \ moved : MeantFor(u), [P!Next]_(P!vars)
  PROVE  (\A u \in Uploads \ moved : MeantFor(u))'
<1> SUFFICES ASSUME NEW u \in Uploads \ moved' PROVE MeantFor(u)'
  OBVIOUS
<1> USE PicturesAssumption DEF PictureInv, P!TypeOK, P!Requests
<1>1. u \in Uploads \ moved /\ (open' # open => picPc[u] # "derive")
  BY DEF P!Next, P!vars, P!Choose, P!SendAvatar, P!Put, P!PatchColor, P!Fetch, P!Show, P!Remove, P!DeleteOld, P!Write, P!Fail, P!Select, P!Reload,
         P!historyVars, P!pageVars
<1>2. MeantFor(u)
  BY <1>1
<1>3. CASE P!Choose(u)
  <2>1. \A i \in PictureIds : <<i, "avatar">> \in P!Columns
    BY DEF P!Columns
  <2>2. \A c \in P!Columns : pic[c] # u
    BY <1>3, <1>1 DEF FilesInPlace, PictureWritten, P!Choose
  <2> QED BY <1>1, <1>3, <2>1, <2>2 DEF P!Choose, P!Read, MeantFor, PictureReplacing, P!rowVars, P!pageVars
<1>4. CASE P!SendAvatar(u)
  BY <1>1, <1>2, <1>4 DEF P!SendAvatar, P!Read, MeantFor, PictureReplacing, P!rowVars, P!pageVars, P!historyVars, P!Columns
<1>5. CASE P!Write(u)
  <2>1. pic' = [pic EXCEPT ![at[u]] = u] /\ picPc[u] = "write" /\ picPc'[u] \in PictureWritten /\ meant' = meant
    BY <1>5, <1>1 DEF P!Write, P!AfterWrite, PictureWritten, P!historyVars
  <2>2. at[u] \in P!Columns /\ \A c \in P!Columns : pic[c] # u
    BY <2>1, <1>1 DEF FilesInPlace, PictureWritten
  <2>3. at[u][2] = "avatar" => at[u][1] = meant[u]
    BY <1>2, <2>1 DEF MeantFor, PictureReplacing
  <2> QED BY <2>1, <2>2, <2>3 DEF MeantFor, PictureReplacing, PictureWritten, P!Columns
<1>6. CASE P!Put(u) \/ P!DeleteOld(u)
  BY <1>1, <1>2, <1>6 DEF P!Put, P!AfterPut, P!DeleteOld, MeantFor, PictureReplacing, P!pageVars, P!historyVars
<1>7. CASE P!PatchColor(u) \/ P!Fetch(u) \/ P!Show(u) \/ P!Fail(u)
  <2>1. picPc'[u] \in {"show", "done"} /\ meant' = meant /\ \A c \in P!Columns : pic'[c] \in {pic[c], Color}
    BY <1>1, <1>7 DEF P!PatchColor, P!Fetch, P!Show, P!Fail, P!Ends, P!rowVars, P!historyVars
  <2>2. u # Color /\ \A i \in PictureIds : <<i, "avatar">> \in P!Columns
    BY <1>1 DEF P!Files, P!Columns
  <2> QED BY <1>2, <2>1, <2>2 DEF MeantFor, PictureReplacing
<1>8. ASSUME NEW r \in P!Requests \ {u},
             \/ r \in Uploads /\ (P!Choose(r) \/ P!SendAvatar(r) \/ P!Put(r) \/ P!PatchColor(r) \/ P!Fetch(r) \/ P!Show(r))
             \/ r \in Removals /\ P!Remove(r)
             \/ P!DeleteOld(r) \/ P!Write(r) \/ P!Fail(r)
      PROVE  MeantFor(u)'
  <2>1. picPc'[u] = picPc[u] /\ at'[u] = at[u] /\ meant'[u] = meant[u] /\ open' = open
    <3>1. CASE r \in Uploads /\ (P!Choose(r) \/ P!SendAvatar(r))
      BY <1>1, <1>8, <3>1 DEF P!Choose, P!SendAvatar, P!Read, P!pageVars, P!historyVars
    <3>2. CASE r \in Uploads /\ (P!Put(r) \/ P!PatchColor(r) \/ P!Fetch(r) \/ P!Show(r))
      BY <1>1, <1>8, <3>2 DEF P!Put, P!PatchColor, P!Fetch, P!Show, P!Ends, P!pageVars, P!historyVars
    <3>3. CASE (r \in Removals /\ P!Remove(r)) \/ P!DeleteOld(r) \/ P!Write(r) \/ P!Fail(r)
      BY <1>1, <1>8, <3>3 DEF P!Remove, P!Read, P!DeleteOld, P!Write, P!Fail, P!Ends, P!pageVars, P!historyVars
    <3> QED BY <1>8, <3>1, <3>2, <3>3
  <2>2. \A c \in P!Columns : pic'[c] \in {pic[c], Color, None, r}
    BY <1>8 DEF P!Choose, P!SendAvatar, P!Put, P!PatchColor, P!Fetch, P!Show, P!Remove, P!DeleteOld, P!Write, P!Fail, P!rowVars
  <2>3. u \in P!Files /\ \A i \in PictureIds : <<i, "avatar">> \in P!Columns
    BY <1>1 DEF P!Files, P!Columns
  <2> QED BY <1>2, <1>8, <2>1, <2>2, <2>3 DEF MeantFor
<1>9. CASE P!Select \/ P!Reload \/ UNCHANGED P!vars
  BY <1>1, <1>2, <1>9 DEF P!Select, P!Reload, MeantFor, PictureReplacing, P!vars, P!rowVars, P!requestVars, P!pageVars, P!historyVars
<1> QED BY <1>1, <1>3, <1>4, <1>5, <1>6, <1>7, <1>8, <1>9 DEF P!Next

LEMMA QuietPageNext ==
  ASSUME PictureInv, QuietPage, [P!Next]_(P!vars)
  PROVE  QuietPage'
<1> SUFFICES ASSUME ~picDoubtful'
             PROVE  (/\ P!Busy = {} => picShown = pic
                     /\ \A r \in P!Busy : r \in Uploads /\ P!Busy = {r} /\ Follows(r))'
  BY DEF QuietPage
<1> USE PicturesAssumption DEF PictureInv, P!TypeOK
<1>c. \A i \in PictureIds : <<i, "avatar">> \in P!Columns /\ <<i, "banner">> \in P!Columns
  BY DEF P!Columns
\* The one upload that runs.
<1>1. ASSUME NEW u \in Uploads, \A r \in P!Requests \ {u} : picPc'[r] = picPc[r] /\ r \notin P!Busy,
             (u \in P!Busy /\ Follows(u))', u \in P!Requests
      PROVE  (/\ P!Busy = {} => picShown = pic
              /\ \A r \in P!Busy : r \in Uploads /\ P!Busy = {r} /\ Follows(r))'
  <2>1. P!Busy' = {u}
    BY <1>1 DEF P!Busy
  <2> QED BY <1>1, <2>1
<1>2. ASSUME P!Busy = {}, UNCHANGED picPc, picShown' = pic'
      PROVE  (/\ P!Busy = {} => picShown = pic
              /\ \A r \in P!Busy : r \in Uploads /\ P!Busy = {r} /\ Follows(r))'
  <2>1. P!Busy' = {}
    BY <1>2 DEF P!Busy
  <2> QED BY <1>2, <2>1
<1>3. CASE P!Reload
  BY <1>2, <1>3 DEF P!Reload, P!rowVars, P!requestVars
<1>4. CASE P!Select
  <2>1. ~picDoubtful /\ P!Busy = {}
    BY <1>4 DEF P!Select
  <2> QED BY <1>2, <1>4, <2>1 DEF P!Select, QuietPage, P!rowVars, P!requestVars
<1>5. CASE UNCHANGED P!vars
  BY <1>5 DEF QuietPage, P!Busy, Follows, P!vars, P!rowVars, P!requestVars, P!pageVars, P!historyVars
<1>6. \A r \in Removals : ~P!Remove(r)
  BY DEF P!Remove
<1>7. \A r \in P!Requests : ~P!Fail(r)
  BY DEF P!Fail
<1>8. ASSUME NEW u \in Uploads, P!Choose(u)
      PROVE  (/\ P!Busy = {} => picShown = pic
              /\ \A r \in P!Busy : r \in Uploads /\ P!Busy = {r} /\ Follows(r))'
  <2>1. ~picDoubtful /\ P!Busy = {}
    BY <1>8 DEF P!Choose, P!Starts
  <2>2. picShown = pic /\ u \in P!Requests
    BY <2>1 DEF QuietPage, P!Requests
  <2>3. /\ UNCHANGED <<pic, picShown, open>> /\ picPc'[u] \in {"derive", "put", "color"}
        /\ picPc'[u] # "derive" => at'[u] = <<open, "banner">>
        /\ \A r \in P!Requests \ {u} : picPc'[r] = picPc[r]
    BY <1>8, <2>2 DEF P!Choose, P!Read, P!rowVars, P!pageVars
  <2>4. (u \in P!Busy /\ Follows(u))'
    BY <2>2, <2>3 DEF Follows, P!Busy, PictureReplacing
  <2> QED BY <1>1, <2>1, <2>2, <2>3, <2>4
\* Any other step is one of the upload that runs alone.
<1>9. ASSUME NEW u \in P!Requests, u \in P!Busy, picDoubtful' = picDoubtful
      PROVE  /\ u \in Uploads /\ Follows(u) /\ \A r \in P!Requests \ {u} : r \notin P!Busy
  BY <1>9 DEF QuietPage
<1>10. ASSUME NEW u \in Uploads, P!SendAvatar(u) \/ P!Put(u)
      PROVE  (/\ P!Busy = {} => picShown = pic
              /\ \A r \in P!Busy : r \in Uploads /\ P!Busy = {r} /\ Follows(r))'
  <2>1. u \in P!Requests /\ u \in P!Busy /\ picDoubtful' = picDoubtful
    BY <1>10 DEF P!SendAvatar, P!Put, P!Busy, P!Requests, P!historyVars
  <2>2. /\ UNCHANGED <<pic, picShown, open>> /\ picPc'[u] \in PictureReplacing
        /\ at'[u] = <<open, "avatar">> \/ (at'[u] = at[u] /\ picPc[u] = "put")
        /\ \A r \in P!Requests \ {u} : picPc'[r] = picPc[r]
    BY <1>10, <2>1 DEF P!SendAvatar, P!Read, P!Put, P!AfterPut, PictureReplacing, P!rowVars, P!pageVars
  <2>3. Follows(u) /\ picPc[u] \in {"derive", "put"}
    BY <1>9, <1>10, <2>1 DEF P!SendAvatar, P!Put
  <2>4. (u \in P!Busy /\ Follows(u))'
    BY <2>1, <2>2, <2>3 DEF Follows, P!Busy, PictureReplacing
  <2> QED BY <1>1, <1>9, <2>1, <2>2, <2>4
<1>11. ASSUME NEW u \in Uploads, P!PatchColor(u) \/ P!Fetch(u)
      PROVE  (/\ P!Busy = {} => picShown = pic
              /\ \A r \in P!Busy : r \in Uploads /\ P!Busy = {r} /\ Follows(r))'
  <2>1. u \in P!Requests /\ u \in P!Busy /\ picDoubtful' = picDoubtful
    BY <1>11 DEF P!PatchColor, P!Fetch, P!Busy, P!Requests, P!historyVars
  <2>2. Follows(u) /\ at[u][1] = open /\ at[u] \in P!Columns /\ P!Owner(u) = open
    BY <1>9, <1>11, <2>1 DEF P!PatchColor, P!Fetch, Follows, P!Owner
  <2>3. /\ UNCHANGED <<picShown, open>> /\ picPc'[u] = "show"
        /\ \A r \in P!Requests \ {u} : picPc'[r] = picPc[r]
    BY <1>11, <2>1 DEF P!PatchColor, P!Fetch
  <2>4. at'[u][1] = open
    <3>1. at' = [at EXCEPT ![u] = [at[u] EXCEPT ![1] = open]]
      BY <1>11, <2>2 DEF P!PatchColor, P!Fetch
    <3> QED BY <2>1, <2>2, <3>1, MovedColumn
  <2>5. (\A k \in {"avatar", "banner"} : picGot'[u][k] = pic'[<<open, k>>]) /\ \A c \in P!Columns : c[1] # open => pic'[c] = pic[c]
    <3>1. CASE P!PatchColor(u)
      <4>1. picGot'[u] = [P!Row(open) EXCEPT !.banner = Color] /\ pic' = [pic EXCEPT ![<<open, "banner">>] = Color]
        BY <2>2, <3>1 DEF P!PatchColor
      <4>2. P!Row(open) = [k \in {"avatar", "banner"} |-> pic[<<open, k>>]]
        BY DEF P!Row
      <4>3. picGot'[u]["avatar"] = pic[<<open, "avatar">>] /\ picGot'[u]["banner"] = Color
        BY <4>1, <4>2
      <4>4. pic'[<<open, "avatar">>] = pic[<<open, "avatar">>] /\ pic'[<<open, "banner">>] = Color
        BY <1>c, <4>1
      <4> QED BY <1>c, <4>1, <4>3, <4>4
    <3>2. CASE P!Fetch(u)
      BY <1>c, <3>2 DEF P!Fetch, P!Row, P!rowVars
    <3> QED BY <1>11, <3>1, <3>2
  <2>6. \A c \in P!Columns : c[1] # open => picShown[c] = pic[c]
    BY <1>11, <2>2 DEF Follows, P!PatchColor, P!Fetch
  <2>7. (u \in P!Busy /\ Follows(u))'
    BY <2>1, <2>3, <2>4, <2>5, <2>6 DEF Follows, P!Busy, PictureReplacing
  <2> QED BY <1>1, <1>9, <2>1, <2>3, <2>7
<1>12. ASSUME NEW u \in Uploads, P!Show(u)
      PROVE  (/\ P!Busy = {} => picShown = pic
              /\ \A r \in P!Busy : r \in Uploads /\ P!Busy = {r} /\ Follows(r))'
  <2>1. u \in P!Requests /\ u \in P!Busy /\ picDoubtful' = picDoubtful /\ picPc[u] = "show"
    BY <1>12 DEF P!Show, P!Busy, P!Requests, P!historyVars
  <2>2. Follows(u) /\ P!Busy = {u}
    BY <1>9, <2>1 DEF QuietPage, P!Busy
  <2>3. P!Busy' = {}
    BY <1>12, <2>1, <2>2 DEF P!Show, P!Ends, P!Busy
  <2>4. picShown' = [c \in P!Columns |-> IF c[1] = at[u][1] THEN picGot[u][c[2]] ELSE picShown[c]] /\ pic' = pic
    BY <1>12 DEF P!Show, P!Updated, P!rowVars
  <2>5. ASSUME NEW c \in P!Columns PROVE (IF c[1] = at[u][1] THEN picGot[u][c[2]] ELSE picShown[c]) = pic[c]
    <3>1. c = <<c[1], c[2]>> /\ c[2] \in {"avatar", "banner"}
      BY DEF P!Columns
    <3>2. at[u][1] = open /\ (\A k \in {"avatar", "banner"} : picGot[u][k] = pic[<<open, k>>])
      BY <2>1, <2>2 DEF Follows
    <3> QED BY <2>1, <2>2, <3>1, <3>2 DEF Follows
  <2>6. picShown' = pic'
    BY <2>4, <2>5
  <2> QED BY <2>3, <2>6
<1>13. ASSUME NEW u \in P!Requests, P!DeleteOld(u) \/ P!Write(u)
      PROVE  (/\ P!Busy = {} => picShown = pic
              /\ \A r \in P!Busy : r \in Uploads /\ P!Busy = {r} /\ Follows(r))'
  <2>1. u \in P!Busy /\ picDoubtful' = picDoubtful
    BY <1>13 DEF P!DeleteOld, P!Write, P!Busy, P!historyVars
  <2>2. u \in Uploads /\ u \notin Removals /\ Follows(u)
    BY <1>9, <2>1
  <2>3. /\ UNCHANGED <<picShown, open, at>> /\ picPc[u] \in PictureReplacing
        /\ picPc'[u] \in {"write", "color", "fetch"} /\ (picPc'[u] = "write" => pic' = pic)
        /\ \A c \in P!Columns : c # at[u] => pic'[c] = pic[c]
        /\ \A r \in P!Requests \ {u} : picPc'[r] = picPc[r]
    BY <1>13, <2>2 DEF P!DeleteOld, P!Write, P!AfterWrite, PictureReplacing, P!pageVars
  <2>4. (u \in P!Busy /\ Follows(u))'
    BY <2>2, <2>3 DEF Follows, P!Busy, PictureReplacing
  <2> QED BY <1>1, <1>9, <2>1, <2>2, <2>3, <2>4
<1> QED BY <1>3, <1>4, <1>5, <1>6, <1>7, <1>8, <1>10, <1>11, <1>12, <1>13 DEF P!Next

\* A page at rest shows the row, and a picture that is still meant for a
\* column is shown there.
THEOREM PagesFollow == P!Spec => [](QuietPage /\ \A u \in Uploads \ moved : MeantFor(u))
<1>1. P!Init => QuietPage /\ \A u \in Uploads \ moved : MeantFor(u)
  <2> SUFFICES ASSUME P!Init PROVE QuietPage /\ \A u \in Uploads \ moved : MeantFor(u)
    OBVIOUS
  <2>1. P!Busy = {} /\ picShown = pic
    BY DEF P!Init, P!Busy
  <2>2. ASSUME NEW u \in Uploads, NEW i \in PictureIds PROVE pic[<<i, "avatar">>] # u
    BY PicturesAssumption DEF P!Init, P!Columns, P!Files
  <2> QED BY <2>1, <2>2 DEF P!Init, QuietPage, MeantFor, P!Requests, PictureReplacing
<1>2. PictureInv /\ (QuietPage /\ \A u \in Uploads \ moved : MeantFor(u)) /\ [P!Next]_(P!vars)
        => (QuietPage /\ \A u \in Uploads \ moved : MeantFor(u))'
  BY MeantNext, QuietPageNext
<1> QED BY <1>1, <1>2, PictureInvariance, PTL DEF P!Spec

\* A page at rest shows what the rows say when nothing overlapped, failed or was
\* switched, and an avatar is of the identity it was chosen for.
THEOREM LoneChangesAreShown == P!Spec => []P!LoneChangesShown
<1>1. QuietPage /\ (\A u \in Uploads \ moved : MeantFor(u)) => P!LoneChangesShown
  BY DEF QuietPage, MeantFor, P!LoneChangesShown
<1> QED BY <1>1, PagesFollow, PTL

\* A column never names an object that is gone, but for the request that is
\* about to replace it or never came to.
THEOREM PicturesAreThere == P!Spec => []P!PicturesStand
<1>1. PictureInv => P!PicturesStand
  BY DEF PictureInv
<1> QED BY <1>1, PictureInvariance, PTL

-----------------------------------------------------------------------------
(* Master keys in the browser (MasterKeys).                                *)

\* What a tab waits for says what it holds.
KeyTab(t) ==
  /\ keyPc[t] \in {"answered", "locked", "entering"} => who[t] # None
  /\ keyPc[t] \in {"backup", "prf", "data"} => signed[t] # None /\ who[t] = None /\ key[t] # None
  /\ keyPc[t] \in {"answered", "locked"} => key[t] = None
  /\ keyPc[t] = "ready" => key[t] = None /\ who[t] = None
  /\ keyPc[t] = "closed" => key[t] = None /\ who[t] = None /\ signed[t] = None
  /\ memory[t] # None => signed[t] # None

KeyTabs == K!TypeOK /\ \A t \in Tabs : KeyTab(t)

\* Whatever the browser holds belongs to the one account that is signed in to it.
OneAccount ==
  /\ \A a, b \in unclean : a = b
  /\ \A t \in Tabs : {signed[t], who[t], memory[t], key[t]} \subseteq unclean \cup {None}
  /\ stored \in unclean \cup {None}
  /\ unclean # {} => cookie \in unclean \cup {None}

LEMMA KeyTabsInit == K!Init => KeyTabs
BY DEF K!Init, KeyTabs, KeyTab, K!TypeOK, K!Maybe

\* Between its own steps a tab keeps what it holds.
LEMMA KeyTabFrame ==
  ASSUME KeyTabs, NEW t \in Tabs,
         K!TabStep(t) \/ (\E a \in Accounts : K!PasskeyAnswer(t, a) \/ K!CodeAnswer(t, a) \/ K!Register(t, a))
  PROVE  \A u \in Tabs \ {t} : /\ keyPc'[u] = keyPc[u] /\ who'[u] = who[u] /\ key'[u] = key[u]
                               /\ signed'[u] = signed[u] /\ memory'[u] = memory[u]
BY DEF KeyTabs, K!TypeOK, K!TabStep, K!Load, K!Close, K!HasKey, K!EnterKeyless, K!OpenWithPasskey, K!AskForCode, K!RecoverWithCode, K!Enter,
       K!UnlockFromDevice, K!UnlockWithPasskey, K!UnlockWithCode, K!Logout, K!TakeStored, K!TakeActive, K!SendBackup, K!SendPrf, K!SendData,
       K!Sent, K!PasskeyAnswer, K!CodeAnswer, K!Register, K!tabVars

LEMMA KeyTypes ==
  ASSUME KeyTabs, NEW t \in Tabs,
         K!TabStep(t) \/ (\E a \in Accounts : K!PasskeyAnswer(t, a) \/ K!CodeAnswer(t, a) \/ K!Register(t, a))
  PROVE  K!TypeOK'
<1> USE MasterKeysAssumption DEF KeyTabs, KeyTab, K!TypeOK, K!Maybe
<1>1. CASE K!Load(t)
  BY <1>1 DEF K!Load, K!LoadMasterKey, K!serverVars
<1>2. CASE K!Close(t) \/ K!HasKey(t) \/ K!AskForCode(t)
  BY <1>2 DEF K!Close, K!HasKey, K!EnterKeyless, K!AskForCode, K!browserVars, K!serverVars
<1>3. CASE K!OpenWithPasskey(t) \/ K!Enter(t)
  <2>1. CASE K!OpenWithPasskey(t)
    <3>1. who[t] \in Accounts
      BY <1>3, <2>1 DEF K!OpenWithPasskey
    <3>2. prf[who[t]] \in K!Maybe
      BY <3>1
    <3> QED BY <2>1, <3>2 DEF K!OpenWithPasskey, K!StoreMasterKey, K!serverVars
  <2>2. CASE K!Enter(t)
    BY <2>2 DEF K!Enter, K!StoreMasterKey, K!serverVars
  <2> QED BY <1>3, <2>1, <2>2
<1>4. CASE K!RecoverWithCode(t)
  <2>1. who[t] \in Accounts
    BY <1>4 DEF K!RecoverWithCode
  <2>2. keyBackup[who[t]] \in K!Maybe
    BY <2>1
  <2>3. prf' \in [Accounts -> K!Maybe]
    BY <1>4, <2>2 DEF K!RecoverWithCode
  <2>4. keyPc' \in [Tabs -> {"closed", "ready", "answered", "locked", "entering", "backup", "prf", "data"}]
    BY <1>4 DEF K!RecoverWithCode
  <2>5. key' \in [Tabs -> K!Maybe] /\ stored' \in K!Maybe /\ mark' \in BOOLEAN
    <3>1. key' = [key EXCEPT ![t] = keyBackup[who[t]]] /\ stored' = keyBackup[who[t]] /\ mark' = TRUE
      BY <1>4 DEF K!RecoverWithCode, K!StoreMasterKey
    <3> QED BY <2>2, <3>1
  <2>6. UNCHANGED <<cookie, signed, memory, who, known, keyBackup, wrapped, unclean>>
    BY <1>4 DEF K!RecoverWithCode
  <2> QED BY <2>3, <2>4, <2>5, <2>6
<1>5. CASE K!UnlockFromDevice(t) \/ K!UnlockWithPasskey(t) \/ K!UnlockWithCode(t)
  <2>1. CASE K!UnlockFromDevice(t)
    BY <2>1 DEF K!UnlockFromDevice, K!StoreMasterKey, K!tabVars, K!serverVars
  <2>2. CASE K!UnlockWithPasskey(t)
    BY <2>2 DEF K!UnlockWithPasskey, K!StoreMasterKey, K!tabVars, K!serverVars
  <2>3. CASE K!UnlockWithCode(t)
    BY <2>3 DEF K!UnlockWithCode, K!StoreMasterKey, K!tabVars, K!serverVars
  <2> QED BY <1>5, <2>1, <2>2, <2>3
<1>6. CASE K!Logout(t)
  <2>1. unclean' \subseteq Accounts
    BY <1>6 DEF K!Logout, K!Others
  <2> QED BY <1>6, <2>1 DEF K!Logout, K!Cleared, K!serverVars
<1>7. CASE K!TakeStored(t)
  BY <1>7 DEF K!TakeStored, K!LoadMasterKey, K!serverVars
<1>8. CASE K!TakeActive(t)
  BY <1>8 DEF K!TakeActive, K!Active, K!StoreMasterKey, K!serverVars
<1>9. CASE K!SendBackup(t) \/ K!SendPrf(t)
  <2>1. keyBackup' \in [Accounts -> K!Maybe] /\ prf' \in [Accounts -> K!Maybe]
    BY <1>9 DEF K!SendBackup, K!SendPrf
  <2> QED BY <1>9, <2>1 DEF K!SendBackup, K!SendPrf, K!Sent, K!browserVars
<1>10. CASE K!SendData(t)
  <2>1. wrapped' \subseteq Accounts \X Accounts
    BY <1>10 DEF K!SendData
  <2> QED BY <1>10, <2>1 DEF K!SendData, K!Sent, K!browserVars
<1>11. ASSUME NEW a \in Accounts, K!PasskeyAnswer(t, a) PROVE K!TypeOK'
  BY <1>11 DEF K!PasskeyAnswer, K!Joins, K!serverVars
<1>12. ASSUME NEW a \in Accounts, K!CodeAnswer(t, a) PROVE K!TypeOK'
  <2>1. keyBackup[a] \in K!Maybe
    OBVIOUS
  <2>2. /\ keyPc' \in [Tabs -> {"closed", "ready", "answered", "locked", "entering", "backup", "prf", "data"}]
        /\ mark' \in BOOLEAN /\ stored' \in K!Maybe
    BY <1>12, <2>1 DEF K!CodeAnswer, K!EnterKeyless, K!StoreMasterKey
  <2>3. /\ signed' \in [Tabs -> K!Maybe] /\ memory' \in [Tabs -> K!Maybe]
        /\ who' \in [Tabs -> K!Maybe] /\ key' \in [Tabs -> K!Maybe]
    BY <1>12, <2>1 DEF K!CodeAnswer, K!EnterKeyless
  <2> QED BY <1>12, <2>2, <2>3 DEF K!CodeAnswer, K!Joins, K!serverVars
<1>13. ASSUME NEW a \in Accounts, K!Register(t, a) PROVE K!TypeOK'
  BY <1>13 DEF K!Register, K!Joins
<1> QED BY <1>1, <1>2, <1>3, <1>4, <1>5, <1>6, <1>7, <1>8, <1>9, <1>10, <1>11, <1>12, <1>13 DEF K!TabStep

LEMMA KeyTabsNext == KeyTabs /\ [K!Next]_(K!vars) => KeyTabs'
<1> SUFFICES ASSUME KeyTabs, [K!Next]_(K!vars) PROVE KeyTabs'
  OBVIOUS
<1>1. CASE K!SessionEnds \/ UNCHANGED K!vars
  BY <1>1 DEF KeyTabs, KeyTab, K!TypeOK, K!Maybe, K!SessionEnds, K!vars, K!browserVars, K!tabVars, K!serverVars
<1>2. ASSUME NEW t \in Tabs, K!TabStep(t) PROVE KeyTab(t)'
  <2> USE MasterKeysAssumption DEF KeyTabs, KeyTab, K!TypeOK, K!Maybe
  <2>1. CASE K!Load(t)
    <3>1. /\ keyPc'[t] = "ready" /\ key'[t] = None /\ who'[t] = None
          /\ signed'[t] = cookie /\ memory'[t] = IF cookie = None THEN None ELSE stored
      BY <2>1 DEF K!Load
    <3> QED BY <3>1
  <2>2. CASE K!Close(t) \/ K!HasKey(t) \/ K!AskForCode(t)
    BY <2>2 DEF K!Close, K!HasKey, K!EnterKeyless, K!AskForCode
  <2>7. CASE K!Enter(t)
    BY <2>7 DEF K!Enter
  <2>3. CASE K!OpenWithPasskey(t) \/ K!RecoverWithCode(t)
    BY <2>3 DEF K!OpenWithPasskey, K!RecoverWithCode
  <2>4. CASE K!UnlockFromDevice(t) \/ K!UnlockWithPasskey(t) \/ K!UnlockWithCode(t) \/ K!Logout(t)
    BY <2>4 DEF K!UnlockFromDevice, K!UnlockWithPasskey, K!UnlockWithCode, K!Logout, K!tabVars
  <2>5. CASE K!TakeStored(t) \/ K!TakeActive(t)
    <3>1. /\ keyPc'[t] \in {"backup", "prf", "data"} /\ key'[t] # None
          /\ signed'[t] = signed[t] /\ signed[t] # None
          /\ who'[t] = who[t] /\ keyPc[t] = "ready"
      BY <2>5 DEF K!TakeStored, K!TakeActive
    <3> QED BY <3>1
  <2>6. CASE K!SendBackup(t) \/ K!SendPrf(t) \/ K!SendData(t)
    <3>1. K!Sent(t) /\ keyPc[t] \in {"backup", "prf", "data"}
      BY <2>6 DEF K!SendBackup, K!SendPrf, K!SendData
    <3>2. /\ keyPc'[t] = "ready" /\ key'[t] = None
          /\ who'[t] = who[t] /\ signed'[t] = signed[t] /\ memory'[t] = memory[t]
      BY <3>1 DEF K!Sent
    <3> QED BY <3>1, <3>2
  <2> QED BY <1>2, <2>7, <2>1, <2>2, <2>3, <2>4, <2>5, <2>6 DEF K!TabStep
<1>3. ASSUME NEW t \in Tabs, NEW a \in Accounts, K!PasskeyAnswer(t, a) \/ K!CodeAnswer(t, a) \/ K!Register(t, a) PROVE KeyTab(t)'
  BY <1>3, MasterKeysAssumption DEF KeyTabs, KeyTab, K!TypeOK, K!PasskeyAnswer, K!CodeAnswer, K!EnterKeyless, K!Register
<1>4. ASSUME NEW t \in Tabs, K!TabStep(t) \/ (\E a \in Accounts : K!PasskeyAnswer(t, a) \/ K!CodeAnswer(t, a) \/ K!Register(t, a))
      PROVE  KeyTabs'
  <2>1. KeyTab(t)'
    BY <1>2, <1>3, <1>4
  <2>2. \A u \in Tabs \ {t} : KeyTab(u)'
    BY <1>4, KeyTabFrame DEF KeyTabs, KeyTab
  <2> QED BY <1>4, <2>1, <2>2, KeyTypes DEF KeyTabs
<1> QED BY <1>1, <1>4 DEF K!Next

\* A tab works for the account that is signed in, with its key.
LEMMA OneAccountTabs ==
  ASSUME KeyTabs, OneAccount, K!KeysAreOwn, NEW t \in Tabs, K!TabStep(t)
  PROVE  OneAccount' /\ K!KeysAreOwn'
<1> USE MasterKeysAssumption DEF KeyTabs, KeyTab, K!TypeOK, K!Maybe, OneAccount, K!KeysAreOwn, K!OwnKey
<1>1. CASE K!Load(t)
  BY <1>1 DEF K!Load, K!serverVars
<1>2. CASE K!Close(t) \/ K!HasKey(t) \/ K!AskForCode(t) \/ K!Enter(t)
  BY <1>2 DEF K!Close, K!HasKey, K!EnterKeyless, K!AskForCode, K!Enter, K!StoreMasterKey, K!browserVars, K!serverVars
<1>3. CASE K!OpenWithPasskey(t) \/ K!RecoverWithCode(t)
  BY <1>3 DEF K!OpenWithPasskey, K!RecoverWithCode, K!StoreMasterKey, K!serverVars
<1>4. CASE K!UnlockFromDevice(t) \/ K!UnlockWithPasskey(t) \/ K!UnlockWithCode(t)
  BY <1>4 DEF K!UnlockFromDevice, K!UnlockWithPasskey, K!UnlockWithCode, K!StoreMasterKey, K!tabVars, K!serverVars
<1>5. CASE K!Logout(t)
  <2>1. unclean' \subseteq unclean
    BY <1>5 DEF K!Logout, K!Others
  <2>2. \A u \in Tabs \ {t} : {signed[u], who[u]} \subseteq unclean' \cup {None}
    BY <1>5 DEF K!Logout, K!Others
  <2>3. ASSUME NEW u \in Tabs \ {t} PROVE {memory[u], key[u]} \subseteq unclean' \cup {None}
    <3>1. memory[u] # None \/ key[u] # None => signed[u] # None \/ who[u] # None
      OBVIOUS
    <3> QED BY <3>1, <2>1, <2>2
  <2> QED BY <1>5, <2>1, <2>2, <2>3 DEF K!Logout, K!Cleared, K!serverVars
<1>6. CASE K!TakeStored(t) \/ K!TakeActive(t)
  BY <1>6 DEF K!TakeStored, K!TakeActive, K!Active, K!StoreMasterKey, K!serverVars
<1>7. CASE K!SendBackup(t) \/ K!SendPrf(t) \/ K!SendData(t)
  BY <1>7 DEF K!SendBackup, K!SendPrf, K!SendData, K!Sent, K!browserVars
<1> QED BY <1>1, <1>2, <1>3, <1>4, <1>5, <1>6, <1>7 DEF K!TabStep

\* Who signs in finds nothing of another account.
LEMMA OneAccountSignIns ==
  ASSUME KeyTabs, OneAccount, K!KeysAreOwn, Apart, NEW t \in Tabs, NEW a \in Accounts,
         K!PasskeyAnswer(t, a) \/ K!CodeAnswer(t, a) \/ K!Register(t, a)
  PROVE  OneAccount' /\ K!KeysAreOwn'
<1>1. unclean \subseteq {a} /\ unclean' = {a} /\ cookie' = a
  BY DEF K!PasskeyAnswer, K!CodeAnswer, K!Register, K!Joins
<1> USE MasterKeysAssumption DEF KeyTabs, KeyTab, K!TypeOK, K!Maybe, OneAccount, K!KeysAreOwn, K!OwnKey
<1>2. CASE K!PasskeyAnswer(t, a)
  BY <1>1, <1>2 DEF K!PasskeyAnswer, K!serverVars
<1>3. CASE K!CodeAnswer(t, a)
  BY <1>1, <1>3 DEF K!CodeAnswer, K!EnterKeyless, K!StoreMasterKey, K!serverVars
<1>4. CASE K!Register(t, a)
  BY <1>1, <1>4 DEF K!Register
<1> QED BY <1>2, <1>3, <1>4

MasterKeyInv == KeyTabs /\ (Apart => OneAccount /\ K!KeysAreOwn)

\* Tabs hold what they say they hold, and while accounts keep to themselves
\* every key the server was sent is of the account it was sent for.
THEOREM MasterKeyInvariance == K!Spec => []MasterKeyInv
<1>1. K!Init => MasterKeyInv
  <2>1. K!Init => OneAccount /\ K!KeysAreOwn
    BY MasterKeysAssumption DEF K!Init, OneAccount, K!KeysAreOwn, K!OwnKey, K!Maybe
  <2> QED BY <2>1, KeyTabsInit DEF MasterKeyInv
<1>2. MasterKeyInv /\ [K!Next]_(K!vars) => MasterKeyInv'
  <2> SUFFICES ASSUME MasterKeyInv, [K!Next]_(K!vars), Apart PROVE OneAccount' /\ K!KeysAreOwn'
    BY KeyTabsNext DEF MasterKeyInv
  <2>1. CASE K!SessionEnds \/ UNCHANGED K!vars
    BY <2>1 DEF MasterKeyInv, OneAccount, K!KeysAreOwn, K!SessionEnds, K!vars, K!browserVars, K!tabVars, K!serverVars
  <2> QED BY <2>1, OneAccountTabs, OneAccountSignIns DEF K!Next, MasterKeyInv
<1> QED BY <1>1, <1>2, PTL DEF K!Spec

\* What the server keeps for an account is encrypted with its own key while no
\* account signs in where another has not signed out (crypto.ts, clearMasterKey).
THEOREM KeysAreApart == K!Spec => []K!KeysStayApart
<1>1. MasterKeyInv => K!KeysStayApart
  BY DEF MasterKeyInv, K!KeysStayApart
<1> QED BY <1>1, MasterKeyInvariance, PTL

-----------------------------------------------------------------------------
(* The web socket of a page (Sockets).                                     *)

Alive == {"connecting", "accepted", "open"}

\* What the server has of a socket comes from its cookie and its purpose.
SocketSound(s) ==
  /\ state[s] = "connecting" => server[s] = "none" /\ s \notin reading /\ \A a \in Accounts : s \notin clients[a]
  /\ state[s] # "closed" => kind[s] # None
  /\ s \in reading => socketWho[s] # None /\ (state[s] # "closed" => kind[s] = "user")
  /\ \A a \in Accounts : s \in clients[a] => a = socketWho[s] /\ (state[s] # "closed" => kind[s] = "user")
  /\ server[s] = "up" /\ socketWho[s] # None /\ s \notin reading /\ kind[s] = "user" => s \in clients[socketWho[s]]

\* What the page has: signed out it has no socket to listen; signed in, its
\* socket brought the cookie of the account it shows.
PageHeld ==
  /\ config => ws # None /\ kind[ws] = "user" /\ (timer \/ state[ws] \in Alive)
  /\ store # None => socketCookie \in {None, store}
  /\ store = None => ~config /\ ~timer /\ (ws # None => kind[ws] = "request")
  /\ ws # None /\ kind[ws] = "user" /\ state[ws] \in {"accepted", "open"} => socketWho[ws] \in {None, store}
  /\ ~doubled => \A s \in Sockets : state[s] \in Alive => s = ws
  /\ ~socketCrossed /\ ws # None => \A s \in Sockets \ {ws} : state[s] = "closed"
  /\ ~socketCrossed /\ W!IsOpen => connected /\ ping

SocketInv == W!TypeOK /\ (\A s \in Sockets : SocketSound(s)) /\ PageHeld

LEMMA SocketInit == W!Init => SocketInv
<1> SUFFICES ASSUME W!Init PROVE SocketInv
  OBVIOUS
<1>1. W!TypeOK
  BY SocketsAssumption DEF W!Init, W!TypeOK
<1>2. \A s \in Sockets : SocketSound(s)
  BY SocketsAssumption DEF W!Init, SocketSound, Alive
<1>3. PageHeld
  BY SocketsAssumption DEF W!Init, PageHeld, W!IsOpen, Alive
<1> QED BY <1>1, <1>2, <1>3 DEF SocketInv

\* A new socket is one that is nowhere known.
LEMMA ConnectSteps ==
  ASSUME SocketInv, NEW k \in {"user", "request"}, NEW again \in BOOLEAN, W!Connect(k, again), again => k = "user",
         UNCHANGED <<W!serverVars, ping, connected>>, timer' \in {FALSE, timer}, ~again => timer' = timer,
         k = "user" => store' # None, k = "request" => store' = store,
         waiting' \in BOOLEAN,
         store' \in Accounts \cup {None}, socketCookie' \in Accounts \cup {None},
         store' # None => socketCookie' \in {None, store'},
         store # None => store' = store
  PROVE  SocketInv'
<1> USE SocketsAssumption DEF SocketInv, W!TypeOK
<1>1. CASE W!IsOpen
  <2>1. UNCHANGED <<ws, config, state, kind, doubled, socketCrossed>> /\ W!IsOpen'
    BY <1>1 DEF W!Connect, W!IsOpen, W!historyVars
  <2>2. W!TypeOK'
    BY <2>1 DEF W!serverVars
  <2>3. ASSUME NEW s \in Sockets PROVE SocketSound(s)'
    BY <2>1 DEF SocketSound, W!serverVars
  <2>4. PageHeld'
    BY <1>1, <2>1 DEF PageHeld, W!IsOpen, W!serverVars, Alive
  <2> QED BY <2>2, <2>3, <2>4
<1>2. CASE ~W!IsOpen
  <2>1. PICK s \in W!Unused :
           /\ ws' = s /\ config' = again
           /\ state' = [state EXCEPT ![s] = "connecting"]
           /\ kind' = [kind EXCEPT ![s] = k]
           /\ doubled' = (doubled \/ \E t \in Sockets : state[t] \in {"connecting", "accepted", "open"})
           /\ socketCrossed' = (socketCrossed \/ \E t \in Sockets : state[t] # "closed")
    BY <1>2 DEF W!Connect
  <2>2. s \in Sockets /\ state[s] = "closed" /\ server[s] = "none" /\ s \notin reading /\ \A a \in Accounts : s \notin clients[a]
    BY DEF W!Unused, W!Registered
  <2>3. doubled' \in BOOLEAN /\ socketCrossed' \in BOOLEAN
    BY <2>1
  <2>4. W!TypeOK'
    BY <2>1, <2>2, <2>3 DEF W!serverVars
  <2>5. ASSUME NEW t \in Sockets PROVE SocketSound(t)'
    <3>1. /\ server' = server /\ socketWho' = socketWho /\ reading' = reading /\ clients' = clients
          /\ (t # s => state'[t] = state[t] /\ kind'[t] = kind[t])
      BY <2>1 DEF W!serverVars
    <3>2. state'[s] = "connecting" /\ kind'[s] = k /\ k # None
      BY <2>1, <2>2
    <3>3. SocketSound(t)
      OBVIOUS
    <3> HIDE DEF SocketInv, W!TypeOK
    <3> QED BY <2>2, <3>1, <3>2, <3>3 DEF SocketSound
  <2>6. ~W!IsOpen' /\ state'[ws'] = "connecting" /\ kind'[ws'] = k /\ ws' # None
    BY <2>1, <2>2 DEF W!IsOpen
  <2>7. ~doubled' => \A t \in Sockets : state'[t] \in Alive => t = ws'
    BY <2>1, <2>2 DEF Alive
  <2>8. ~socketCrossed' => \A t \in Sockets \ {ws'} : state'[t] = "closed"
    BY <2>1, <2>2
  <2>9. store' = None => ~config' /\ ~timer' /\ k = "request"
    BY <2>1 DEF PageHeld
  <2> QED BY <2>1, <2>4, <2>5, <2>6, <2>7, <2>8, <2>9 DEF PageHeld, Alive
<1> QED BY <1>1, <1>2

LEMMA PageConnects ==
  ASSUME SocketInv, W!Reconnect \/ W!SignedIn \/ W!Mount \/ \E a \in Accounts : W!Login(a)
  PROVE  SocketInv'
<1> USE SocketsAssumption
<1>1. CASE W!Reconnect
  BY <1>1, ConnectSteps DEF W!Reconnect, SocketInv, W!TypeOK, PageHeld
<1>2. CASE W!SignedIn
  BY <1>2, ConnectSteps DEF W!SignedIn, SocketInv, W!TypeOK
<1>3. CASE W!Mount
  BY <1>3, ConnectSteps DEF W!Mount, SocketInv, W!TypeOK, PageHeld
<1>4. ASSUME NEW a \in Accounts, W!Login(a) PROVE SocketInv'
  BY <1>4, ConnectSteps DEF W!Login, SocketInv, W!TypeOK
<1> QED BY <1>1, <1>2, <1>3, <1>4

LEMMA PageLeaves ==
  ASSUME SocketInv, W!SignedOut \/ W!Logout \/ W!Unmount \/ W!Reload \/ W!SessionEnds
  PROVE  SocketInv'
<1> USE SocketsAssumption DEF SocketInv, W!TypeOK
<1>1. CASE W!SignedOut \/ W!Logout \/ W!Unmount
  <2>1. /\ ~timer' /\ ~config' /\ ping' = FALSE /\ connected' = FALSE /\ ws' = None
        /\ state' = IF ws # None /\ state[ws] # "closed" THEN [state EXCEPT ![ws] = "closing"] ELSE state
        /\ timer' \in BOOLEAN /\ config' \in BOOLEAN
    BY <1>1 DEF W!SignedOut, W!Logout, W!Unmount, W!Disconnect
  <2>2. UNCHANGED <<kind, W!serverVars, W!historyVars>> /\ socketCookie' \in Accounts \cup {None} /\ store' \in Accounts \cup {None}
        /\ waiting' \in BOOLEAN /\ (store' # None => socketCookie' \in {None, store'})
    BY <1>1 DEF W!SignedOut, W!Logout, W!Unmount, PageHeld
  <2>3. state' \in [Sockets -> {"closed", "connecting", "accepted", "open", "closing"}]
    BY <2>1
  <2>4. \A s \in Sockets : (state'[s] = state[s] \/ (state'[s] = "closing" /\ s = ws /\ state[s] # "closed"))
                           /\ (s = ws => state'[s] \notin Alive)
    BY <2>1 DEF Alive
  <2>5. W!TypeOK'
    BY <2>1, <2>2, <2>3 DEF W!serverVars, W!historyVars
  <2>6. ASSUME NEW s \in Sockets PROVE SocketSound(s)'
    BY <2>2, <2>4 DEF SocketSound, W!serverVars
  <2>7. PageHeld'
    BY <2>1, <2>2, <2>4 DEF PageHeld, W!IsOpen, W!historyVars
  <2> QED BY <2>5, <2>6, <2>7
<1>2. CASE W!Reload
  <2>1. W!TypeOK'
    BY <1>2 DEF W!Reload, W!serverVars
  <2>2. ASSUME NEW s \in Sockets PROVE SocketSound(s)'
    <3>1. state'[s] = "closed" /\ kind'[s] = None /\ server' = server /\ socketWho' = socketWho /\ reading' = reading /\ clients' = clients
      BY <1>2 DEF W!Reload, W!serverVars
    <3>2. SocketSound(s)
      OBVIOUS
    <3> HIDE DEF SocketInv, W!TypeOK
    <3> QED BY <3>1, <3>2 DEF SocketSound
  <2>3. PageHeld'
    BY <1>2 DEF W!Reload, PageHeld, W!IsOpen, Alive
  <2> QED BY <2>1, <2>2, <2>3
<1>3. CASE W!SessionEnds
  BY <1>3 DEF W!SessionEnds, W!pageVars, W!serverVars, W!historyVars, SocketSound, PageHeld, W!IsOpen
<1> QED BY <1>1, <1>2, <1>3

LEMMA SocketSteps ==
  ASSUME SocketInv, NEW s \in Sockets, W!Opened(s) \/ W!Closed(s) \/ W!Accept(s)
  PROVE  SocketInv'
<1> USE SocketsAssumption DEF SocketInv, W!TypeOK
<1>1. CASE W!Opened(s)
  <2>1. W!TypeOK'
    BY <1>1 DEF W!Opened, W!serverVars, W!historyVars
  <2>2. ASSUME NEW t \in Sockets PROVE SocketSound(t)'
    BY <1>1 DEF W!Opened, SocketSound, W!serverVars
  <2>3. PageHeld'
    BY <1>1 DEF W!Opened, PageHeld, W!IsOpen, Alive, W!serverVars, W!historyVars
  <2> QED BY <2>1, <2>2, <2>3
<1>2. CASE W!Closed(s)
  <2>1. timer' \in BOOLEAN /\ (config => timer') /\ (timer' => timer \/ config)
    BY <1>2 DEF W!Closed
  <2>2. W!TypeOK'
    BY <1>2, <2>1 DEF W!Closed, W!serverVars, W!historyVars
  <2>3. ASSUME NEW t \in Sockets PROVE SocketSound(t)'
    BY <1>2 DEF W!Closed, SocketSound, W!serverVars
  <2>4. PageHeld'
    BY <1>2, <2>1 DEF W!Closed, PageHeld, W!IsOpen, Alive, W!serverVars, W!historyVars
  <2> QED BY <2>2, <2>3, <2>4
<1>3. CASE W!Accept(s)
  <2>1. W!TypeOK'
    BY <1>3 DEF W!Accept, W!pageVars, W!historyVars
  <2>2. ASSUME NEW t \in Sockets PROVE SocketSound(t)'
    BY <1>3 DEF W!Accept, SocketSound
  <2>3. PageHeld'
    BY <1>3 DEF W!Accept, PageHeld, W!IsOpen, Alive, W!pageVars, W!historyVars
  <2> QED BY <2>1, <2>2, <2>3
<1> QED BY <1>1, <1>2, <1>3

LEMMA ServerSteps ==
  ASSUME SocketInv,
         (\E s \in Sockets : W!Admit(s) \/ W!AdmitFails(s) \/ W!ServerCloses(s)) \/ W!NotifyStatus \/ W!Restart
  PROVE  SocketInv'
<1> USE SocketsAssumption DEF SocketInv, W!TypeOK
<1>1. UNCHANGED <<socketCookie, W!pageVars, state, kind, socketWho, W!historyVars>>
  BY DEF W!Admit, W!AdmitFails, W!ServerCloses, W!NotifyStatus, W!Restart
<1>2. PageHeld'
  BY <1>1 DEF PageHeld, W!IsOpen, W!pageVars, W!historyVars
<1>3. ASSUME NEW s \in Sockets, W!Admit(s) PROVE W!TypeOK' /\ \A t \in Sockets : SocketSound(t)'
  <2>1. socketWho[s] \in Accounts
    BY <1>3 DEF W!Admit, SocketSound
  <2>2. CASE socketCookie = socketWho[s]
    <3>1. clients' = [clients EXCEPT ![socketWho[s]] = @ \cup {s}] /\ server' = server
      BY <1>3, <2>2 DEF W!Admit
    <3>2. clients' \in [Accounts -> SUBSET Sockets]
      BY <2>1, <3>1
    <3>3. W!TypeOK'
      BY <1>1, <1>3, <3>1, <3>2 DEF W!Admit, W!pageVars, W!historyVars
    <3>4. ASSUME NEW t \in Sockets PROVE SocketSound(t)'
      BY <1>1, <1>3, <2>1, <3>1 DEF W!Admit, SocketSound
    <3> QED BY <3>3, <3>4
  <2>3. CASE socketCookie # socketWho[s]
    <3>1. server' = [server EXCEPT ![s] = IF @ = "up" THEN "refused" ELSE @] /\ clients' = clients
      BY <1>3, <2>3 DEF W!Admit
    <3>2. W!TypeOK'
      BY <1>1, <1>3, <3>1 DEF W!Admit, W!pageVars, W!historyVars
    <3>3. ASSUME NEW t \in Sockets PROVE SocketSound(t)'
      BY <1>1, <1>3, <3>1 DEF W!Admit, SocketSound
    <3> QED BY <3>2, <3>3
  <2> QED BY <2>2, <2>3
<1>4. ASSUME NEW s \in Sockets, W!AdmitFails(s) PROVE W!TypeOK' /\ \A t \in Sockets : SocketSound(t)'
  <2>1. W!TypeOK'
    BY <1>1, <1>4 DEF W!AdmitFails, W!pageVars, W!historyVars
  <2>2. ASSUME NEW t \in Sockets PROVE SocketSound(t)'
    BY <1>1, <1>4 DEF W!AdmitFails, SocketSound
  <2> QED BY <2>1, <2>2
<1>5. ASSUME NEW s \in Sockets, W!ServerCloses(s) PROVE W!TypeOK' /\ \A t \in Sockets : SocketSound(t)'
  <2>1. W!TypeOK'
    BY <1>1, <1>5 DEF W!ServerCloses, W!pageVars, W!historyVars
  <2>2. ASSUME NEW t \in Sockets PROVE SocketSound(t)'
    BY <1>1, <1>5 DEF W!ServerCloses, SocketSound
  <2> QED BY <2>1, <2>2
<1>6. ASSUME W!NotifyStatus \/ W!Restart PROVE W!TypeOK' /\ \A t \in Sockets : SocketSound(t)'
  <2>1. W!TypeOK'
    BY <1>1, <1>6 DEF W!NotifyStatus, W!Restart, W!pageVars, W!historyVars
  <2>2. ASSUME NEW t \in Sockets PROVE SocketSound(t)'
    BY <1>1, <1>6 DEF W!NotifyStatus, W!Restart, SocketSound
  <2> QED BY <2>1, <2>2
<1> QED BY <1>2, <1>3, <1>4, <1>5, <1>6

\* The socket that a page holds is the only one alive for it unless a socket
\* was opened over another, and the server knows it by the page's account.
THEOREM SocketInvariance == W!Spec => []SocketInv
<1>1. SocketInv /\ [W!Next]_(W!vars) => SocketInv'
  <2> SUFFICES ASSUME SocketInv, [W!Next]_(W!vars) PROVE SocketInv'
    OBVIOUS
  <2>1. CASE UNCHANGED W!vars
    BY <2>1 DEF W!vars, W!pageVars, W!serverVars, W!historyVars, SocketInv, W!TypeOK, SocketSound, PageHeld, W!IsOpen
  <2> QED BY <2>1, PageConnects, PageLeaves, SocketSteps, ServerSteps DEF W!Next
<1> QED BY <1>1, SocketInit, PTL DEF W!Spec

\* A page that is to listen has a socket or a timer to make one, and without
\* overlapping connections hears once, of the account it shows (ws.ts).
THEOREM PageIsHeard == W!Spec => []W!PageListens
<1>1. ASSUME SocketInv PROVE W!PageListens
  <2> USE <1>1, SocketsAssumption DEF SocketInv, W!TypeOK
  <2>1. ASSUME ~doubled, NEW a \in Accounts, NEW s \in W!Hears(a) PROVE a = store /\ s = ws
    <3>1. s \in Sockets /\ s \in clients[a] /\ state[s] = "open"
      BY DEF W!Hears
    <3>2. s = ws /\ a = socketWho[s] /\ kind[s] = "user"
      BY <2>1, <3>1 DEF PageHeld, SocketSound, Alive
    <3> QED BY <3>1, <3>2 DEF PageHeld
  <2> QED BY <2>1 DEF W!PageListens, PageHeld, SocketSound, Alive
<1> QED BY <1>1, SocketInvariance, PTL

-----------------------------------------------------------------------------
(* Signing pages (SigningPage).                                            *)

SigningHandlers == Pages \cup Clients \cup {S!Maker(p) : p \in Pages}

Q == INSTANCE SignatureRequestsProofs WITH
       Requests <- {Request}, Handlers <- SigningHandlers,
       Keys <- SigningKeys, key <- signKey, pc <- signPc

\* What the host was told, or the page is about to tell it: that the request was
\* signed under k, or denied.
Truth(type, k) ==
  /\ type = "signed" => k \in current[Request]
  /\ Request \notin contested =>
       status[Request] = type /\ (type = "signed" => signature[Request] = k)

ContestEnds == Request \in contested => status[Request] \in Q!Terminal

\* The decision of a page is the one its handler has taken, and is about the key
\* the page shows.
PageSound(p) ==
  /\ screen[p] = "closed" =>
       /\ signPc[p] = "idle" /\ call[p] = S!NoCall
       /\ signPc[S!Maker(p)] = "idle" /\ making[p] = "idle"
  /\ call[p].at = "taken" =>
       signPc[p] = call[p].kind /\ (call[p].kind = "sign" => arg[p] = signSent[p])
  /\ S!IsOpen(p) /\ signPc[p] # "idle" => call[p].at = "taken"
  /\ S!IsOpen(p) /\ signPc[S!Maker(p)] # "idle" => making[p] = "taken"
  /\ S!IsOpen(p) /\ call[p].kind = "sign" => screen[p] = "ask" /\ signSent[p] = signShown[p]
  /\ screen[p] = "ask" => signShown[p] \in SigningKeys
  /\ making[p] # "idle" => screen[p] \in {"setup", "error", "ended"}

PageTells(p) ==
  call[p].at = "done" =>
    /\ call[p].kind = "sign" => Truth("signed", signSent[p])
    /\ call[p].kind = "deny" => Truth("denied", None)

HostToldTruth ==
  \A m \in heard : /\ m.type = "signed" => m.sig = m.key /\ Truth("signed", m.sig)
                   /\ m.type = "denied" => Truth("denied", None)

SigningInv ==
  /\ S!TypeOK /\ Q!IInv /\ ContestEnds /\ HostToldTruth
  /\ \A p \in Pages : PageSound(p) /\ PageTells(p)

-----------------------------------------------------------------------------
\* The steps of the server's handlers, as the page takes them.
HandlerStep(h) ==
  \/ S!S!ReadToDeny(h, Request) \/ S!S!ReadToExpire(h, Request)
  \/ \E k \in SigningKeys : \/ S!S!ReadToSign(h, Request, k)
                            \/ S!S!ReadToAddKey(h, k) \/ S!S!StartRotation(h, k)
  \/ S!S!Sign(h) \/ S!S!Deny(h) \/ S!S!MarkExpired(h)
  \/ S!S!ReplaceKey(h) \/ S!S!AddKey(h) \/ S!S!DeleteKey(h) \/ S!S!InsertKey(h)

LEMMA SignRefines ==
  ASSUME NEW h \in SigningHandlers, HandlerStep(h) PROVE Q!Next
<1> USE DEF S!S!requestVars, Q!requestVars, S!S!keyVars, Q!keyVars, S!S!historyVars, Q!historyVars,
       S!S!handlerVars, Q!handlerVars, S!S!HasKey, Q!HasKey, S!S!Start, Q!Start, S!S!Finish, Q!Finish,
       S!S!Open, Q!Open, S!S!Verifies, Q!Verifies, S!S!Remember, Q!Remember, S!S!InsertRow, Q!InsertRow
<1>1. CASE S!S!ReadToDeny(h, Request) \/ S!S!ReadToExpire(h, Request)
  <2>1. Q!ReadToDeny(h, Request) \/ Q!ReadToExpire(h, Request)
    BY <1>1 DEF S!S!ReadToDeny, S!S!ReadToExpire, Q!ReadToDeny, Q!ReadToExpire
  <2> QED BY <2>1 DEF Q!Next
<1>2. ASSUME NEW k \in SigningKeys,
             S!S!ReadToSign(h, Request, k) \/ S!S!ReadToAddKey(h, k) \/ S!S!StartRotation(h, k)
      PROVE  Q!Next
  <2>1. Q!ReadToSign(h, Request, k) \/ Q!ReadToAddKey(h, k) \/ Q!StartRotation(h, k)
    BY <1>2 DEF S!S!ReadToSign, S!S!ReadToAddKey, S!S!StartRotation, Q!ReadToSign, Q!ReadToAddKey, Q!StartRotation
  <2> QED BY <2>1 DEF Q!Next
<1>3. CASE S!S!Sign(h) \/ S!S!Deny(h) \/ S!S!MarkExpired(h)
  <2>1. Q!Sign(h) \/ Q!Deny(h) \/ Q!MarkExpired(h)
    BY <1>3 DEF S!S!Sign, S!S!Deny, S!S!MarkExpired, Q!Sign, Q!Deny, Q!MarkExpired, S!S!Resolve, Q!Resolve,
                S!S!StatusAfter, Q!StatusAfter, S!S!DecidingOn, Q!DecidingOn, S!S!Deciding, Q!Deciding,
                SigningHandlers
  <2> QED BY <2>1 DEF Q!Next
<1>4. CASE S!S!ReplaceKey(h) \/ S!S!AddKey(h) \/ S!S!DeleteKey(h) \/ S!S!InsertKey(h)
  <2>1. Q!ReplaceKey(h) \/ Q!AddKey(h) \/ Q!DeleteKey(h) \/ Q!InsertKey(h)
    BY <1>4 DEF S!S!ReplaceKey, S!S!AddKey, S!S!DeleteKey, S!S!InsertKey,
                Q!ReplaceKey, Q!AddKey, Q!DeleteKey, Q!InsertKey
  <2> QED BY <2>1 DEF Q!Next
<1> QED BY <1>1, <1>2, <1>3, <1>4 DEF HandlerStep

\* A step of one handler is none of another.
LEMMA SignFrame ==
  ASSUME Q!IInv, NEW h \in SigningHandlers, HandlerStep(h), NEW g \in SigningHandlers \ {h}
  PROVE  signPc'[g] = signPc[g] /\ arg'[g] = arg[g]
<1>1. signPc \in [SigningHandlers -> Q!PCs] /\ arg \in [SigningHandlers -> SigningKeys \cup {None}]
  BY DEF Q!IInv, Q!TypeOK
<1> QED BY <1>1 DEF HandlerStep, S!S!ReadToDeny, S!S!ReadToExpire, S!S!ReadToSign, S!S!ReadToAddKey,
  S!S!StartRotation, S!S!Sign, S!S!Deny, S!S!MarkExpired, S!S!Resolve, S!S!ReplaceKey, S!S!AddKey,
  S!S!DeleteKey, S!S!InsertKey, S!S!Start, S!S!Finish

\* What is true of a resolved request stays so.
LEMMA SignKeeps ==
  ASSUME Q!IInv, ContestEnds, [Q!Next]_(Q!vars)
  PROVE  /\ Q!IInv' /\ ContestEnds'
         /\ \A k : /\ Truth("signed", k) => Truth("signed", k)'
                   /\ Truth("denied", k) => Truth("denied", k)'
<1>1. Q!IInv'
  BY Q!NextInv, SigningAssumption
<1> USE DEF Q!requestVars, Q!keyVars, Q!handlerVars, Q!historyVars
<1>2. Q!TypeOK /\ Q!TypeOK' /\ Q!DecisionInv
  BY <1>1 DEF Q!IInv
<1> DEFINE Stays ==
      /\ Request \in contested' => Request \in contested \/ status'[Request] \in Q!Terminal
      /\ status[Request] \in Q!Terminal => status'[Request] \in Q!Terminal
      /\ status[Request] # "absent" => current[Request] \subseteq current'[Request]
      /\ status[Request] # "absent" /\ Q!DecidingOn(Request) = {} =>
           status'[Request] = status[Request] /\ signature'[Request] = signature[Request]
      /\ contested \subseteq contested'
<1>3. Stays
  <2>1. ASSUME NEW h \in SigningHandlers, Q!Sign(h) \/ Q!Deny(h) \/ Q!MarkExpired(h)
        PROVE  Stays
    <3>1. PICK op \in Q!Deciding : Q!Resolve(h, op)
      BY <2>1 DEF Q!Sign, Q!Deny, Q!MarkExpired, Q!Deciding
    <3>2. signPc[h] = op /\ req[h] = Request /\ h \in Q!DecidingOn(Request)
      BY <1>2, <3>1 DEF Q!Resolve, Q!DecisionInv, Q!DecidingOn
    <3>3. /\ status' = [status EXCEPT ![Request] = Q!StatusAfter(op)]
          /\ UNCHANGED current /\ contested \subseteq contested'
      BY <3>1, <3>2 DEF Q!Resolve
    <3>4. Q!StatusAfter(op) \in Q!Terminal
      BY DEF Q!StatusAfter, Q!Deciding, Q!Terminal
    <3>5. status'[Request] = Q!StatusAfter(op)
      BY <1>2, <3>3 DEF Q!TypeOK
    <3> QED BY <3>2, <3>3, <3>4, <3>5
  <2>2. ASSUME NEW h \in SigningHandlers,
               \/ \E q \in {Request}, k \in SigningKeys : Q!ReadToSign(h, q, k)
               \/ \E q \in {Request} : Q!ReadToDeny(h, q) \/ Q!ReadToExpire(h, q)
               \/ \E k \in SigningKeys : Q!ReadToAddKey(h, k) \/ Q!StartRotation(h, k)
               \/ Q!Crash(h)
        PROVE  Stays
    BY <2>2 DEF Q!ReadToSign, Q!ReadToDeny, Q!ReadToExpire, Q!ReadToAddKey, Q!StartRotation, Q!Crash
  <2>3. ASSUME NEW h \in SigningHandlers, Q!ReplaceKey(h) \/ Q!AddKey(h) \/ Q!DeleteKey(h) \/ Q!InsertKey(h)
        PROVE  Stays
    BY <1>2, <2>3 DEF Q!ReplaceKey, Q!AddKey, Q!DeleteKey, Q!InsertKey, Q!InsertRow, Q!Remember, Q!TypeOK
  <2>4. CASE \E q \in {Request} : Q!PassDeadline(q) \/ \E demo \in BOOLEAN : Q!Create(q, demo)
    BY <1>2, <2>4 DEF Q!PassDeadline, Q!Create, Q!TypeOK, Q!Terminal
  <2>5. CASE UNCHANGED Q!vars
    BY <2>5 DEF Q!vars
  <2> QED BY <2>1, <2>2, <2>3, <2>4, <2>5 DEF Q!Next
<1>5. ContestEnds'
  BY <1>3 DEF ContestEnds
<1>6. ASSUME NEW type \in {"signed", "denied"}, NEW k, Truth(type, k) PROVE Truth(type, k)'
  <2>1. status[Request] # "absent"
    BY <1>6 DEF Truth, ContestEnds, Q!Terminal
  <2>2. Request \notin contested' => Q!DecidingOn(Request) = {}
    BY <1>2, <1>3, <1>6 DEF Truth, Q!DecisionInv, Q!Terminated, Q!Terminal
  <2> QED BY <1>3, <1>6, <2>1, <2>2 DEF Truth
<1> QED BY <1>1, <1>5, <1>6

-----------------------------------------------------------------------------
TruthKeeps ==
  \A k : /\ Truth("signed", k) => Truth("signed", k)'
         /\ Truth("denied", k) => Truth("denied", k)'

PageSame(p) ==
  /\ screen'[p] = screen[p] /\ call'[p] = call[p] /\ making'[p] = making[p]
  /\ signShown'[p] = signShown[p] /\ signSent'[p] = signSent[p]
  /\ signPc'[p] = signPc[p] /\ arg'[p] = arg[p] /\ signPc'[S!Maker(p)] = signPc[S!Maker(p)]

LEMMA SignType == S!S!TypeOK <=> Q!TypeOK
BY DEF S!S!TypeOK, Q!TypeOK, S!S!PCs, Q!PCs, S!S!Deciding, Q!Deciding, S!S!Statuses, Q!Statuses, SigningHandlers

LEMMA SignServer ==
  ASSUME SigningInv,
         \/ UNCHANGED S!serverVars
         \/ \E h \in SigningHandlers : HandlerStep(h)
         \/ S!S!PassDeadline(Request) \/ \E demo \in BOOLEAN : S!S!Create(Request, demo)
  PROVE  Q!IInv' /\ ContestEnds' /\ S!S!TypeOK' /\ TruthKeeps
<1>1. [Q!Next]_(Q!vars)
  <2>1. CASE UNCHANGED S!serverVars
    BY <2>1 DEF S!serverVars, Q!vars, Q!requestVars, Q!keyVars, Q!handlerVars, Q!historyVars
  <2>2. CASE \E h \in SigningHandlers : HandlerStep(h)
    BY <2>2, SignRefines
  <2>3. CASE S!S!PassDeadline(Request) \/ \E demo \in BOOLEAN : S!S!Create(Request, demo)
    <3>1. Q!PassDeadline(Request) \/ \E demo \in BOOLEAN : Q!Create(Request, demo)
      BY <2>3 DEF S!S!PassDeadline, Q!PassDeadline, S!S!Create, Q!Create, S!S!keyVars, Q!keyVars,
           S!S!handlerVars, Q!handlerVars, S!S!historyVars, Q!historyVars, S!S!HasKey, Q!HasKey
    <3> QED BY <3>1 DEF Q!Next
  <2> QED BY <2>1, <2>2, <2>3
<1>2. Q!IInv' /\ ContestEnds' /\ TruthKeeps
  BY <1>1, SignKeeps DEF SigningInv, TruthKeeps
<1>3. Q!TypeOK'
  BY <1>2 DEF Q!IInv
<1>4. S!S!TypeOK'
  BY <1>3 DEF S!S!TypeOK, Q!TypeOK, S!S!PCs, Q!PCs, S!S!Deciding, Q!Deciding, S!S!Statuses, Q!Statuses, SigningHandlers
<1> QED BY <1>2, <1>4

LEMMA PageFrame ==
  ASSUME SigningInv, TruthKeeps, NEW p \in Pages, PageSame(p)
  PROVE  PageSound(p)' /\ PageTells(p)'
BY DEF SigningInv, TruthKeeps, PageSame, PageSound, PageTells, S!IsOpen

LEMMA SigningInit == S!Init => SigningInv
<1> SUFFICES ASSUME S!Init PROVE SigningInv
  OBVIOUS
<1>1. Q!Init
  BY DEF S!Init, S!S!Init, Q!Init, SigningHandlers
<1>2. Q!IInv
  BY <1>1, Q!InitInv, SigningAssumption
<1>3. Q!TypeOK
  BY <1>2 DEF Q!IInv
<1>4. S!TypeOK
  BY <1>3, SignType DEF S!Init, S!TypeOK, S!Screens, S!NoCall, S!Progress
<1>5. ContestEnds /\ HostToldTruth
  BY <1>1 DEF S!Init, Q!Init, ContestEnds, HostToldTruth
<1>6. ASSUME NEW p \in Pages PROVE PageSound(p) /\ PageTells(p)
  <2>1. signPc[p] = "idle" /\ signPc[S!Maker(p)] = "idle"
    BY <1>1 DEF Q!Init, SigningHandlers
  <2> QED BY <2>1 DEF S!Init, PageSound, PageTells, S!NoCall, S!IsOpen
<1> QED BY <1>2, <1>4, <1>5, <1>6 DEF SigningInv

-----------------------------------------------------------------------------
(* What a page does by itself.                                             *)

\* On its way to the request, nothing is decided.
LEMMA PageNavigates ==
  ASSUME SigningInv, TruthKeeps, NEW p \in Pages,
         screen[p] \in {"closed", "gate", "waiting", "loading", "locked"},
         screen'[p] \in {"gate", "waiting", "loading", "ask", "setup", "locked", "error"},
         screen'[p] = "ask" => signShown'[p] \in SigningKeys,
         call'[p] = call[p], signSent'[p] = signSent[p], making'[p] = making[p],
         signPc'[p] = signPc[p], arg'[p] = arg[p], signPc'[S!Maker(p)] = signPc[S!Maker(p)]
  PROVE  PageSound(p)' /\ PageTells(p)'
BY DEF SigningInv, TruthKeeps, PageSound, PageTells, S!IsOpen, S!NoCall

\* A step of the page alone.
LEMMA PageAlone ==
  ASSUME SigningInv, NEW T \in SUBSET Pages, UNCHANGED S!serverVars,
         \A p \in Pages \ T : screen'[p] = screen[p] /\ call'[p] = call[p] /\ making'[p] = making[p]
                              /\ signShown'[p] = signShown[p] /\ signSent'[p] = signSent[p],
         TruthKeeps => \A p \in T : PageSound(p)' /\ PageTells(p)',
         TruthKeeps => HostToldTruth',
         S!S!TypeOK' => S!TypeOK'
  PROVE  SigningInv'
<1>1. Q!IInv' /\ ContestEnds' /\ S!S!TypeOK' /\ TruthKeeps
  BY SignServer
<1>2. signPc' = signPc /\ arg' = arg
  BY DEF S!serverVars
<1>3. \A p \in Pages \ T : PageSame(p)
  BY <1>2 DEF PageSame
<1>4. \A p \in Pages \ T : PageSound(p)' /\ PageTells(p)'
  BY <1>1, <1>3, PageFrame
<1> QED BY <1>1, <1>4 DEF SigningInv

LEMMA ToldStays == ASSUME SigningInv, TruthKeeps, heard' = heard PROVE HostToldTruth'
BY DEF SigningInv, TruthKeeps, HostToldTruth

LEMMA PageComes ==
  ASSUME SigningInv, NEW p \in Pages,
         S!Open(p) \/ S!Enter(p) \/ S!LeaveHost(p) \/ S!Load(p) \/ S!Unlock(p)
  PROVE  SigningInv'
<1>1. /\ UNCHANGED S!serverVars /\ UNCHANGED <<call, signSent, making, heard>>
      /\ screen[p] \in {"closed", "gate", "waiting", "loading", "locked"}
  BY DEF S!Open, S!Enter, S!LeaveHost, S!Load, S!Unlock
<1>2. PICK s \in {"gate", "waiting", "loading", "ask", "setup", "locked", "error"},
           k \in SigningKeys \cup {None} :
        S!Shows(p, s, k) /\ (s = "ask" => k \in SigningKeys)
  <2>1. S!S!HasKey => signKey \in SigningKeys
    BY DEF S!S!HasKey
  <2>2. CASE S!Load(p)
    BY <2>1, <2>2 DEF S!Load, S!Go, SigningInv, S!TypeOK, S!S!TypeOK
  <2>3. CASE S!Open(p) \/ S!Enter(p) \/ S!LeaveHost(p) \/ S!Unlock(p)
    BY <2>3 DEF S!Open, S!Enter, S!LeaveHost, S!Unlock, S!Go
  <2> QED BY <2>2, <2>3
<1>3. S!TypeOK
  BY DEF SigningInv
<1>4. /\ screen'[p] = s /\ signShown'[p] = k
      /\ \A q \in Pages \ {p} : screen'[q] = screen[q] /\ signShown'[q] = signShown[q]
      /\ screen' \in [Pages -> S!Screens] /\ signShown' \in [Pages -> SigningKeys \cup {None}]
  BY <1>2, <1>3 DEF S!Shows, S!TypeOK, S!Screens
<1>5. embedded' \subseteq Pages /\ master' \in BOOLEAN
  BY <1>3 DEF S!Open, S!Enter, S!LeaveHost, S!Load, S!Unlock, S!TypeOK
<1>6. S!S!TypeOK' => S!TypeOK'
  BY <1>1, <1>3, <1>4, <1>5 DEF S!TypeOK
<1>7. ASSUME TruthKeeps PROVE PageSound(p)' /\ PageTells(p)'
  <2>1. signPc' = signPc /\ arg' = arg
    BY <1>1 DEF S!serverVars
  <2> QED BY <1>1, <1>2, <1>4, <1>7, <2>1, PageNavigates
<1>8. TruthKeeps => HostToldTruth'
  BY <1>1, ToldStays
<1>9. \A q \in Pages \ {p} : screen'[q] = screen[q] /\ call'[q] = call[q] /\ making'[q] = making[q]
                             /\ signShown'[q] = signShown[q] /\ signSent'[q] = signSent[q]
  BY <1>1, <1>4
<1>10. {p} \in SUBSET Pages /\ \A q \in {p} : q = p
  OBVIOUS
<1> QED BY <1>1, <1>6, <1>7, <1>8, <1>9, <1>10, PageAlone

\* A frame that gives up waiting opens a window.
LEMMA PageOpensWindow ==
  ASSUME SigningInv, NEW p \in Pages, NEW q \in Pages, S!OpenPopup(p, q)
  PROVE  SigningInv'
<1>1. /\ UNCHANGED S!serverVars /\ UNCHANGED <<signShown, call, signSent, making, master, heard>>
      /\ screen[p] = "gate" /\ screen[q] = "closed" /\ p # q /\ embedded' = embedded \cup {q}
      /\ screen' = [screen EXCEPT ![p] = "waiting", ![q] = "loading"]
  BY DEF S!OpenPopup
<1>2. S!TypeOK
  BY DEF SigningInv
<1>3. /\ screen'[p] = "waiting" /\ screen'[q] = "loading"
      /\ screen' \in [Pages -> S!Screens]
      /\ \A g \in Pages \ {p, q} : screen'[g] = screen[g]
  BY <1>1, <1>2 DEF S!TypeOK, S!Screens
<1>4. S!S!TypeOK' => S!TypeOK'
  BY <1>1, <1>2, <1>3 DEF S!TypeOK
<1>5. ASSUME TruthKeeps, NEW g \in {p, q} PROVE PageSound(g)' /\ PageTells(g)'
  <2>1. signPc' = signPc /\ arg' = arg
    BY <1>1 DEF S!serverVars
  <2> QED BY <1>1, <1>3, <1>5, <2>1, PageNavigates
<1>6. TruthKeeps => HostToldTruth'
  BY <1>1, ToldStays
<1>7. {p, q} \in SUBSET Pages
  OBVIOUS
<1> QED BY <1>1, <1>3, <1>4, <1>5, <1>6, <1>7, PageAlone

\* A page decides, has a key made, or gives up.
LEMMA PageStarts ==
  ASSUME SigningInv, NEW p \in Pages, S!StartToSign(p) \/ S!StartToDeny(p) \/ S!StartToMake(p) \/ S!MakingFails(p)
  PROVE  SigningInv'
<1>1. UNCHANGED S!serverVars /\ UNCHANGED <<embedded, master, heard>> /\ signPc' = signPc /\ arg' = arg
  BY DEF S!StartToSign, S!StartToDeny, S!StartToMake, S!MakingFails, S!serverVars
<1>2. S!TypeOK /\ PageSound(p) /\ PageTells(p)
  BY DEF SigningInv
<1>3. /\ screen' \in [Pages -> S!Screens] /\ signShown' \in [Pages -> SigningKeys \cup {None}]
      /\ call' \in [Pages -> [kind : {"none", "sign", "deny"}, at : S!Progress]]
      /\ signSent' \in [Pages -> SigningKeys \cup {None}] /\ making' \in [Pages -> S!Progress]
  <2>1. /\ screen' \in [Pages -> S!Screens] /\ signShown' \in [Pages -> SigningKeys \cup {None}]
        /\ signSent' \in [Pages -> SigningKeys \cup {None}] /\ making' \in [Pages -> S!Progress]
    BY <1>2 DEF S!StartToSign, S!StartToDeny, S!StartToMake, S!MakingFails, S!TypeOK, S!Stays, S!Go, S!Shows, S!Screens, S!Progress
  <2>2. \/ call' = call
        \/ \E c \in [kind : {"none", "sign", "deny"}, at : S!Progress] : call' = [call EXCEPT ![p] = c]
    BY DEF S!StartToSign, S!StartToDeny, S!StartToMake, S!MakingFails, S!Progress
  <2> QED BY SMTT(30), <1>2, <2>1, <2>2 DEF S!TypeOK
<1>4. S!S!TypeOK' => S!TypeOK'
  BY <1>1, <1>2, <1>3 DEF S!TypeOK
<1>5. \A q \in Pages \ {p} : screen'[q] = screen[q] /\ call'[q] = call[q] /\ making'[q] = making[q]
                             /\ signShown'[q] = signShown[q] /\ signSent'[q] = signSent[q]
  BY <1>2 DEF S!StartToSign, S!StartToDeny, S!StartToMake, S!MakingFails, S!TypeOK, S!Stays, S!Go, S!Shows
<1>6. ASSUME TruthKeeps PROVE PageSound(p)' /\ PageTells(p)'
  <2>1. CASE S!StartToSign(p) /\ master
    <3>1. /\ screen[p] = "ask" /\ call[p] = S!NoCall /\ call'[p] = [kind |-> "sign", at |-> "sent"]
          /\ signSent'[p] = signShown[p] /\ UNCHANGED <<screen, signShown, making>>
      BY <1>2, <2>1 DEF S!StartToSign, S!Undecided, S!Stays, S!TypeOK
    <3> QED BY <1>1, <1>2, <3>1 DEF PageSound, PageTells, S!IsOpen, S!NoCall
  <2>2. CASE ~master /\ (S!StartToSign(p) \/ S!StartToMake(p))
    <3>1. /\ screen[p] \in {"ask", "setup"} /\ screen'[p] = "locked" /\ making[p] = "idle"
          /\ UNCHANGED <<call, signSent, making>> /\ (screen[p] = "ask" => call[p] = S!NoCall)
      BY <1>2, <2>2 DEF S!StartToSign, S!StartToMake, S!Undecided, S!Go, S!Shows, S!TypeOK, PageSound
    <3> QED BY <1>1, <1>2, <1>6, <3>1 DEF PageSound, PageTells, S!IsOpen, S!NoCall, TruthKeeps
  <2>3. CASE S!StartToDeny(p)
    <3>1. /\ screen[p] \in {"ask", "setup"} /\ call[p] = S!NoCall /\ call'[p] = [kind |-> "deny", at |-> "sent"]
          /\ UNCHANGED <<screen, signShown, signSent, making>>
      BY <1>2, <2>3 DEF S!StartToDeny, S!Undecided, S!TypeOK
    <3> QED BY <1>1, <1>2, <3>1 DEF PageSound, PageTells, S!IsOpen, S!NoCall
  <2>4. CASE S!StartToMake(p) /\ master
    <3>1. screen[p] = "setup" /\ making[p] = "idle" /\ making'[p] = "sent" /\ UNCHANGED <<screen, signShown, call, signSent>>
      BY <1>2, <2>4 DEF S!StartToMake, S!Stays, S!TypeOK
    <3> QED BY <1>1, <1>2, <1>6, <3>1 DEF PageSound, PageTells, S!IsOpen, TruthKeeps
  <2>5. CASE S!MakingFails(p)
    <3>1. S!IsOpen(p) /\ making[p] # "taken" /\ making'[p] = "idle" /\ UNCHANGED <<screen, signShown, call, signSent>>
      BY <1>2, <2>5 DEF S!MakingFails, S!TypeOK
    <3> QED BY <1>1, <1>2, <1>6, <3>1 DEF PageSound, PageTells, S!IsOpen, TruthKeeps
  <2> QED BY <2>1, <2>2, <2>3, <2>4, <2>5
<1>7. TruthKeeps => HostToldTruth'
  BY <1>1, ToldStays
<1>8. {p} \in SUBSET Pages /\ \A q \in {p} : q = p
  OBVIOUS
<1> QED BY <1>1, <1>4, <1>5, <1>6, <1>7, <1>8, PageAlone

\* A page hears, or goes.
LEMMA PageEnds ==
  ASSUME SigningInv, NEW p \in Pages, S!Close(p) \/ S!Resolve(p) \/ S!DecisionFails(p) \/ S!Made(p)
  PROVE  SigningInv'
<1>1. UNCHANGED S!serverVars /\ master' = master /\ signPc' = signPc /\ arg' = arg /\ S!IsOpen(p)
  BY DEF S!Close, S!Resolve, S!DecisionFails, S!Made, S!serverVars
<1>2. S!TypeOK /\ PageSound(p) /\ PageTells(p) /\ None \notin SigningKeys
  BY SigningAssumption DEF SigningInv
<1>3. /\ screen' \in [Pages -> S!Screens] /\ signShown' \in [Pages -> SigningKeys \cup {None}]
      /\ call' \in [Pages -> [kind : {"none", "sign", "deny"}, at : S!Progress]]
      /\ signSent' \in [Pages -> SigningKeys \cup {None}] /\ making' \in [Pages -> S!Progress]
      /\ embedded' \subseteq Pages
  <2>1. /\ screen' \in [Pages -> S!Screens] /\ signShown' \in [Pages -> SigningKeys \cup {None}]
        /\ signSent' \in [Pages -> SigningKeys \cup {None}] /\ making' \in [Pages -> S!Progress]
        /\ embedded' \subseteq Pages
    BY <1>2 DEF S!Close, S!Resolve, S!DecisionFails, S!Made, S!Forgets, S!TypeOK, S!Stays, S!Go, S!Shows, S!Screens, S!Progress
  <2>2. S!NoCall \in [kind : {"none", "sign", "deny"}, at : S!Progress]
    BY DEF S!NoCall, S!Progress
  <2>3. call' = call \/ call' = [call EXCEPT ![p] = S!NoCall]
    BY DEF S!Close, S!Resolve, S!DecisionFails, S!Made, S!Forgets
  <2> QED BY <1>2, <2>1, <2>2, <2>3 DEF S!TypeOK
<1>4. ASSUME S!Resolve(p), NEW m \in heard' \ heard
      PROVE  /\ m \in S!Messages
             /\ m.type = "signed" => m.sig = m.key /\ Truth("signed", m.sig)
             /\ m.type = "denied" => Truth("denied", None)
  <2>1. CASE call[p] = [kind |-> "sign", at |-> "done"]
    <3>1. m = [type |-> "signed", sig |-> signSent[p], key |-> signShown[p]]
      BY <1>4, <2>1 DEF S!Resolve, S!Answered, S!At
    <3>2. screen[p] = "ask" /\ signSent[p] = signShown[p] /\ Truth("signed", signSent[p])
      BY <1>1, <1>2, <2>1 DEF PageSound, PageTells
    <3>3. signShown[p] \in SigningKeys
      BY <1>2, <3>2 DEF PageSound
    <3> QED BY <3>1, <3>2, <3>3 DEF S!Messages
  <2>2. CASE call[p] = [kind |-> "deny", at |-> "done"]
    <3>1. m = [type |-> "denied"]
      BY <1>4, <2>2 DEF S!Resolve, S!Answered, S!At
    <3>2. Truth("denied", None)
      BY <1>2, <2>2 DEF PageTells
    <3> QED BY <3>1, <3>2 DEF S!Messages
  <2> QED BY <1>4, <2>1, <2>2 DEF S!Resolve, S!Answered, S!At
<1>5. heard' \subseteq S!Messages
  BY <1>2, <1>4 DEF S!Close, S!Resolve, S!DecisionFails, S!Made, S!TypeOK
<1>6. S!S!TypeOK' => S!TypeOK'
  BY <1>1, <1>2, <1>3, <1>5 DEF S!TypeOK
<1>7. \A q \in Pages \ {p} : screen'[q] = screen[q] /\ call'[q] = call[q] /\ making'[q] = making[q]
                             /\ signShown'[q] = signShown[q] /\ signSent'[q] = signSent[q]
  BY <1>2 DEF S!Close, S!Resolve, S!DecisionFails, S!Made, S!Forgets, S!TypeOK, S!Stays, S!Go, S!Shows
<1>8. ASSUME TruthKeeps PROVE PageSound(p)' /\ PageTells(p)'
  <2>1. CASE S!Close(p)
    <3>1. /\ screen'[p] = "ended" /\ (making'[p] = "sent" \/ making'[p] = "idle")
          /\ (call'[p] = S!NoCall \/ (call[p].at = "sent" /\ call'[p] = call[p]))
      BY <1>2, <2>1 DEF S!Close, S!Go, S!Shows, S!Forgets, S!TypeOK
    <3> QED BY <1>1, <1>2, <3>1 DEF PageSound, PageTells, S!IsOpen, S!NoCall
  <2>2. CASE S!Resolve(p)
    <3>1. call[p].at = "done" /\ call'[p] = S!NoCall /\ making' = making
          /\ (screen'[p] = "ended" \/ UNCHANGED <<screen, signShown>>)
      BY <1>2, <2>2 DEF S!Resolve, S!Answered, S!At, S!Go, S!Shows, S!Stays, S!Forgets, S!TypeOK
    <3> QED BY <1>1, <1>2, <3>1 DEF PageSound, PageTells, S!IsOpen, S!NoCall
  <2>3. CASE S!DecisionFails(p)
    <3>1. call[p].at # "taken" /\ call'[p] = S!NoCall /\ making' = making /\ screen'[p] = "error"
      BY <1>2, <2>3 DEF S!DecisionFails, S!Go, S!Shows, S!Forgets, S!TypeOK
    <3> QED BY <1>1, <1>2, <3>1 DEF PageSound, PageTells, S!IsOpen, S!NoCall
  <2>4. CASE S!Made(p)
    <3>1. /\ making[p] = "done" /\ making'[p] = "idle" /\ UNCHANGED <<call, signSent>>
          /\ \/ screen[p] = "error" /\ screen'[p] = "error"
             \/ screen'[p] = "loading"
      BY <1>2, <2>4 DEF S!Made, S!Go, S!Shows, S!Stays, S!TypeOK
    <3> QED BY <1>1, <1>2, <1>8, <3>1 DEF PageSound, PageTells, S!IsOpen, TruthKeeps
  <2> QED BY <2>1, <2>2, <2>3, <2>4
<1>9. TruthKeeps => HostToldTruth'
  <2>1. \A m \in heard' \ heard : S!Resolve(p)
    BY DEF S!Close, S!DecisionFails, S!Made
  <2> QED BY <1>4, <2>1 DEF SigningInv, TruthKeeps, HostToldTruth
<1>10. {p} \in SUBSET Pages /\ \A q \in {p} : q = p
  OBVIOUS
<1> QED BY <1>1, <1>6, <1>7, <1>8, <1>9, <1>10, PageAlone

-----------------------------------------------------------------------------
(* What the server does for it.                                            *)

LEMMA MakersApart ==
  \A p \in Pages :
    /\ p \in SigningHandlers /\ S!Maker(p) \in SigningHandlers
    /\ \A q \in Pages : S!Maker(p) # q /\ (p # q => S!Maker(p) # S!Maker(q))
    /\ \A h \in Clients : h # p /\ h # S!Maker(p) /\ h \in SigningHandlers
BY SigningAssumption DEF SigningHandlers, S!Maker

LEMMA FreshKey ==
  ASSUME SigningInv, generated # SigningKeys PROVE S!Generated \in SigningKeys
<1>1. \E k \in SigningKeys \ generated : TRUE
  BY DEF SigningInv, S!TypeOK, S!S!TypeOK
<1> QED BY <1>1 DEF S!Generated

LEMMA ElsewhereStep ==
  ASSUME SigningInv, S!Elsewhere PROVE SigningInv'
<1>1. UNCHANGED <<screen, embedded, signShown, call, signSent, making, master, heard>>
  BY DEF S!Elsewhere
<1>2. \/ S!S!PassDeadline(Request) \/ \E demo \in BOOLEAN : S!S!Create(Request, demo)
      \/ \E h \in Clients : HandlerStep(h)
  BY FreshKey DEF S!Elsewhere, HandlerStep
<1>3. Q!IInv' /\ ContestEnds' /\ S!S!TypeOK' /\ TruthKeeps
  <2>1. \A h \in Clients : h \in SigningHandlers
    BY DEF SigningHandlers
  <2> QED BY <1>2, <2>1, SignServer
<1>4. \A p \in Pages : signPc'[p] = signPc[p] /\ arg'[p] = arg[p] /\ signPc'[S!Maker(p)] = signPc[S!Maker(p)]
  <2>1. CASE S!S!PassDeadline(Request) \/ \E demo \in BOOLEAN : S!S!Create(Request, demo)
    BY <2>1 DEF S!S!PassDeadline, S!S!Create, S!S!handlerVars
  <2>2. ASSUME NEW h \in Clients, HandlerStep(h), NEW p \in Pages
        PROVE  signPc'[p] = signPc[p] /\ arg'[p] = arg[p] /\ signPc'[S!Maker(p)] = signPc[S!Maker(p)]
    <3>1. h \in SigningHandlers /\ p \in SigningHandlers \ {h} /\ S!Maker(p) \in SigningHandlers \ {h}
      BY MakersApart
    <3> QED BY <2>2, <3>1, SignFrame DEF SigningInv
  <2> QED BY <1>2, <2>1, <2>2
<1>5. \A p \in Pages : PageSame(p)
  BY <1>1, <1>4 DEF PageSame
<1>6. S!TypeOK'
  BY <1>1, <1>3 DEF SigningInv, S!TypeOK
<1> QED BY <1>1, <1>3, <1>5, <1>6, PageFrame, ToldStays DEF SigningInv

\* A handler of page p takes a step, and only p notices.
LEMMA PageServed ==
  ASSUME SigningInv, NEW p \in Pages, NEW h \in {p, S!Maker(p)}, UNCHANGED S!serverVars \/ HandlerStep(h),
         UNCHANGED <<screen, embedded, signShown, master, heard>>,
         call' \in [Pages -> [kind : {"none", "sign", "deny"}, at : S!Progress]],
         signSent' \in [Pages -> SigningKeys \cup {None}], making' \in [Pages -> S!Progress],
         \A q \in Pages \ {p} : call'[q] = call[q] /\ signSent'[q] = signSent[q] /\ making'[q] = making[q],
         TruthKeeps => PageSound(p)' /\ PageTells(p)'
  PROVE  SigningInv'
<1>1. h \in SigningHandlers
  BY DEF SigningHandlers
<1>2. Q!IInv' /\ ContestEnds' /\ S!S!TypeOK' /\ TruthKeeps
  BY <1>1, SignServer
<1>3. S!TypeOK'
  BY <1>2 DEF SigningInv, S!TypeOK
<1>4. ASSUME NEW q \in Pages \ {p} PROVE PageSame(q)
  <2>1. q \in SigningHandlers \ {h} /\ S!Maker(q) \in SigningHandlers \ {h}
    BY MakersApart
  <2>2. HandlerStep(h) => signPc'[q] = signPc[q] /\ arg'[q] = arg[q] /\ signPc'[S!Maker(q)] = signPc[S!Maker(q)]
    BY <1>1, <2>1, SignFrame DEF SigningInv
  <2>3. UNCHANGED S!serverVars => signPc' = signPc /\ arg' = arg
    BY DEF S!serverVars
  <2> QED BY <2>2, <2>3 DEF PageSame
<1> QED BY <1>2, <1>3, <1>4, PageFrame, ToldStays DEF SigningInv

LEMMA MovesAre ==
  ASSUME S!TypeOK, NEW p \in Pages, NEW at2 \in S!Progress, S!Moves(p, at2)
  PROVE  /\ call' \in [Pages -> [kind : {"none", "sign", "deny"}, at : S!Progress]]
         /\ signSent' \in [Pages -> SigningKeys \cup {None}]
         /\ \A q \in Pages \ {p} : call'[q] = call[q] /\ signSent'[q] = signSent[q]
         /\ S!IsOpen(p) => call'[p].at = at2 /\ call'[p].kind = call[p].kind /\ signSent'[p] = signSent[p]
         /\ ~S!IsOpen(p) => call'[p] = S!NoCall
<1>1. call \in [Pages -> [kind : {"none", "sign", "deny"}, at : S!Progress]] /\ signSent \in [Pages -> SigningKeys \cup {None}]
  BY DEF S!TypeOK
<1>2. S!NoCall \in [kind : {"none", "sign", "deny"}, at : S!Progress]
  BY DEF S!NoCall, S!Progress
<1>3. CASE S!IsOpen(p)
  BY <1>1, <1>3 DEF S!Moves
<1>4. CASE ~S!IsOpen(p)
  BY <1>1, <1>2, <1>4 DEF S!Moves, S!Forgets
<1> QED BY <1>3, <1>4

LEMMA PageDecides ==
  ASSUME SigningInv, NEW p \in Pages, S!Decide(p) PROVE SigningInv'
<1>1. S!TypeOK /\ PageSound(p) /\ PageTells(p) /\ Q!TypeOK
  BY DEF SigningInv, Q!IInv
<1>2. UNCHANGED <<screen, embedded, signShown, making, master, heard>> /\ call[p].at = "sent"
  BY DEF S!Decide, S!At
<1>3. PICK at2 \in {"taken", "refused"} :
        /\ S!Moves(p, at2)
        /\ \/ at2 = "refused" /\ UNCHANGED S!serverVars
           \/ at2 = "taken" /\ call[p].kind = "sign" /\ S!S!ReadToSign(p, Request, signSent[p])
           \/ at2 = "taken" /\ call[p].kind = "deny" /\ S!S!ReadToDeny(p, Request)
  BY DEF S!Decide, S!At
<1>4. UNCHANGED S!serverVars \/ HandlerStep(p)
  <2>1. S!S!ReadToSign(p, Request, signSent[p]) => signSent[p] \in SigningKeys
    BY <1>1 DEF S!S!ReadToSign, Q!TypeOK
  <2> QED BY <1>3, <2>1 DEF HandlerStep
<1>5. at2 \in S!Progress
  BY DEF S!Progress
<1>6. ASSUME TruthKeeps PROVE PageSound(p)' /\ PageTells(p)'
  <2>1. screen[p] # "closed"
    BY <1>1, <1>2 DEF PageSound, S!NoCall
  <2>2. signPc'[S!Maker(p)] = signPc[S!Maker(p)]
    <3>1. HandlerStep(p) => signPc'[S!Maker(p)] = signPc[S!Maker(p)]
      BY MakersApart, SignFrame DEF SigningInv
    <3>2. UNCHANGED S!serverVars => signPc' = signPc
      BY DEF S!serverVars
    <3> QED BY <1>4, <3>1, <3>2
  <2>3. CASE ~S!IsOpen(p)
    <3>1. call'[p] = S!NoCall
      BY <1>1, <1>3, <1>5, <2>3, MovesAre
    <3> QED BY <1>1, <1>2, <2>1, <2>2, <2>3, <3>1 DEF PageSound, PageTells, S!IsOpen, S!NoCall
  <2>4. CASE S!IsOpen(p) /\ at2 = "refused"
    <3>1. call'[p].at = "refused" /\ call'[p].kind = call[p].kind /\ signSent'[p] = signSent[p] /\ signPc' = signPc /\ arg' = arg
      BY <1>1, <1>3, <1>5, <2>4, MovesAre DEF S!serverVars
    <3> QED BY <1>1, <1>2, <2>1, <2>2, <2>4, <3>1 DEF PageSound, PageTells, S!IsOpen
  <2>5. CASE S!IsOpen(p) /\ at2 = "taken"
    <3>1. call'[p].at = "taken" /\ call'[p].kind = call[p].kind /\ signSent'[p] = signSent[p]
      BY <1>1, <1>3, <1>5, <2>5, MovesAre
    <3>2. signPc'[p] = call[p].kind /\ (call[p].kind = "sign" => arg'[p] = signSent[p])
      <4>1. p \in SigningHandlers
        BY MakersApart
      <4> QED BY <1>1, <1>3, <2>5, <4>1 DEF S!S!ReadToSign, S!S!ReadToDeny, S!S!Start, Q!TypeOK
    <3> QED BY <1>1, <1>2, <2>1, <2>2, <2>5, <3>1, <3>2 DEF PageSound, PageTells, S!IsOpen
  <2> QED BY <2>3, <2>4, <2>5
<1>7. /\ call' \in [Pages -> [kind : {"none", "sign", "deny"}, at : S!Progress]]
      /\ signSent' \in [Pages -> SigningKeys \cup {None}]
      /\ \A q \in Pages \ {p} : call'[q] = call[q] /\ signSent'[q] = signSent[q]
  BY <1>1, <1>3, <1>5, MovesAre
<1>8. making' \in [Pages -> S!Progress]
  BY <1>1, <1>2 DEF S!TypeOK
<1> QED BY <1>2, <1>4, <1>6, <1>7, <1>8, PageServed

\* Its decision is written, and is what the page will tell.
LEMMA PageWrites ==
  ASSUME SigningInv, NEW p \in Pages, S!Write(p) PROVE SigningInv'
<1>1. S!TypeOK /\ PageSound(p) /\ PageTells(p) /\ Q!TypeOK /\ Q!DecisionInv
  BY DEF SigningInv, Q!IInv
<1>2. UNCHANGED <<screen, embedded, signShown, making, master, heard>> /\ S!Moves(p, "done") /\ HandlerStep(p)
  BY DEF S!Write, HandlerStep
<1>3. "done" \in S!Progress /\ p \in SigningHandlers
  BY MakersApart DEF S!Progress
<1>4. PICK op \in {"sign", "deny"} :
        /\ S!S!Resolve(p, op)
        /\ IF op = "sign" THEN signature' = [signature EXCEPT ![req[p]] = arg[p]] ELSE UNCHANGED signature
  BY DEF S!Write, S!S!Sign, S!S!Deny
<1>5. signPc[p] = op /\ req[p] = Request /\ status' = [status EXCEPT ![Request] = S!S!StatusAfter(op)]
      /\ signPc'[p] = "idle" /\ current' = current /\ (op = "sign" => arg[p] \in current[Request])
  <2>1. signPc[p] = op /\ op \in Q!Deciding
    BY <1>4 DEF S!S!Resolve, Q!Deciding
  <2>2. req[p] = Request /\ (op = "sign" => arg[p] \in current[req[p]])
    BY <1>1, <1>3, <2>1 DEF Q!DecisionInv
  <2> QED BY <1>1, <1>3, <1>4, <2>1, <2>2 DEF S!S!Resolve, S!S!Finish, Q!TypeOK
<1>6. status'[Request] = S!S!StatusAfter(op)
  BY <1>1, <1>5 DEF Q!TypeOK
<1>0. PICK k : k = arg[p]
  OBVIOUS
<1>7. op = "sign" => Truth("signed", k)'
  <2>1. ASSUME op = "sign"
        PROVE  k \in current'[Request] /\ status'[Request] = "signed" /\ signature'[Request] = k
    BY <1>1, <1>4, <1>5, <1>6, <1>0, <2>1 DEF S!S!StatusAfter, Q!TypeOK
  <2> QED BY <2>1 DEF Truth
<1>8. op = "deny" => Truth("denied", None)'
  BY <1>6 DEF Truth, S!S!StatusAfter
<1>9. ASSUME TruthKeeps PROVE PageSound(p)' /\ PageTells(p)'
  <2>1. screen[p] # "closed"
    BY <1>1, <1>5 DEF PageSound
  <2>2. signPc'[S!Maker(p)] = signPc[S!Maker(p)]
    BY <1>2, <1>3, MakersApart, SignFrame DEF SigningInv
  <2>3. CASE ~S!IsOpen(p)
    <3>1. call'[p] = S!NoCall
      BY <1>1, <1>2, <1>3, <2>3, MovesAre
    <3> QED BY <1>1, <1>2, <2>1, <2>2, <2>3, <3>1 DEF PageSound, PageTells, S!IsOpen, S!NoCall
  <2>4. CASE S!IsOpen(p)
    <3>1. call'[p].at = "done" /\ call'[p].kind = call[p].kind /\ signSent'[p] = signSent[p]
      BY <1>1, <1>2, <1>3, <2>4, MovesAre
    <3>2. call[p].at = "taken" /\ call[p].kind = op /\ (op = "sign" => arg[p] = signSent[p])
      BY <1>1, <1>5, <2>4 DEF PageSound
    <3>3. PageSound(p)'
      BY <1>1, <1>2, <1>5, <2>1, <2>2, <2>4, <3>1, <3>2 DEF PageSound, S!IsOpen
    <3>4. PageTells(p)'
      <4>1. op = "sign" => signSent'[p] = k /\ Truth("signed", k)'
        BY <1>0, <1>7, <3>1, <3>2
      <4>2. op = "sign" => Truth("signed", signSent[p])'
        BY <4>1 DEF Truth
      <4> QED BY <1>8, <3>1, <3>2, <4>2 DEF PageTells
    <3> QED BY <3>3, <3>4
  <2> QED BY <2>3, <2>4
<1>10. /\ call' \in [Pages -> [kind : {"none", "sign", "deny"}, at : S!Progress]]
       /\ signSent' \in [Pages -> SigningKeys \cup {None}]
       /\ \A q \in Pages \ {p} : call'[q] = call[q] /\ signSent'[q] = signSent[q]
  BY <1>1, <1>2, <1>3, MovesAre
<1>11. making' \in [Pages -> S!Progress]
  BY <1>1, <1>2 DEF S!TypeOK
<1> QED BY <1>2, <1>9, <1>10, <1>11, PageServed

LEMMA PageMakes ==
  ASSUME SigningInv, NEW p \in Pages, S!Make(p) PROVE SigningInv'
<1>1. S!TypeOK /\ PageSound(p) /\ PageTells(p) /\ Q!TypeOK
  BY DEF SigningInv, Q!IInv
<1>2. UNCHANGED <<screen, embedded, signShown, call, signSent, master, heard>>
  BY DEF S!Make
<1>3. S!Maker(p) \in SigningHandlers /\ p \in SigningHandlers \ {S!Maker(p)}
  BY MakersApart
<1>4. PICK at2 \in {"taken", "done", "refused"} :
        /\ making' = [making EXCEPT ![p] = IF S!IsOpen(p) THEN at2 ELSE "idle"]
        /\ \/ at2 = "refused" /\ making[p] = "sent" /\ UNCHANGED S!serverVars
           \/ at2 = "taken" /\ making[p] = "sent" /\ generated # SigningKeys
                /\ S!S!ReadToAddKey(S!Maker(p), S!Generated)
           \/ at2 # "taken" /\ (S!S!ReplaceKey(S!Maker(p)) \/ S!S!AddKey(S!Maker(p)))
  BY DEF S!Make
<1>5. UNCHANGED S!serverVars \/ HandlerStep(S!Maker(p))
  BY <1>4, FreshKey DEF HandlerStep
<1>6. signPc'[p] = signPc[p] /\ arg'[p] = arg[p]
  <2>1. HandlerStep(S!Maker(p)) => signPc'[p] = signPc[p] /\ arg'[p] = arg[p]
    BY <1>3, SignFrame DEF SigningInv
  <2>2. UNCHANGED S!serverVars => signPc' = signPc /\ arg' = arg
    BY DEF S!serverVars
  <2> QED BY <1>5, <2>1, <2>2
<1>7. making'[p] = IF S!IsOpen(p) THEN at2 ELSE "idle"
  BY <1>1, <1>4 DEF S!TypeOK
<1>8. screen[p] # "closed" /\ (S!IsOpen(p) => making[p] # "idle")
  <2>1. making[p] = "sent" \/ signPc[S!Maker(p)] # "idle"
    BY <1>4 DEF S!S!ReplaceKey, S!S!AddKey
  <2> QED BY <1>1, <2>1 DEF PageSound
<1>9. S!IsOpen(p) /\ at2 # "taken" => signPc'[S!Maker(p)] = "idle"
  <2>1. CASE making[p] = "sent" /\ UNCHANGED S!serverVars
    BY <1>1, <2>1 DEF PageSound, S!serverVars
  <2>2. CASE S!S!ReplaceKey(S!Maker(p)) \/ S!S!AddKey(S!Maker(p))
    BY <1>1, <1>3, <2>2 DEF S!S!ReplaceKey, S!S!AddKey, S!S!Finish, Q!TypeOK
  <2> QED BY <1>4, <2>1, <2>2
<1>10. ASSUME TruthKeeps PROVE PageSound(p)' /\ PageTells(p)'
  BY <1>1, <1>2, <1>6, <1>7, <1>8, <1>9, <1>10 DEF PageSound, PageTells, S!IsOpen, TruthKeeps
<1>11. /\ making' \in [Pages -> S!Progress] /\ \A q \in Pages \ {p} : making'[q] = making[q]
       /\ call' \in [Pages -> [kind : {"none", "sign", "deny"}, at : S!Progress]]
       /\ signSent' \in [Pages -> SigningKeys \cup {None}]
  BY <1>1, <1>2, <1>4 DEF S!TypeOK, S!Progress
<1> QED BY <1>2, <1>5, <1>10, <1>11, PageServed

\* The decision a page waits for is the one its handler took, and what a page
\* has told its host stays true of the request unless it was contested.
THEOREM SigningInvariance == S!Spec => []SigningInv
<1>1. SigningInv /\ [S!Next]_(S!vars) => SigningInv'
  <2> SUFFICES ASSUME SigningInv, [S!Next]_(S!vars) PROVE SigningInv'
    OBVIOUS
  <2>1. CASE S!Elsewhere
    BY <2>1, ElsewhereStep
  <2>2. ASSUME NEW p \in Pages, NEW q \in Pages, S!OpenPopup(p, q) PROVE SigningInv'
    BY <2>2, PageOpensWindow
  <2>3. ASSUME NEW p \in Pages, S!Open(p) \/ S!Enter(p) \/ S!LeaveHost(p) \/ S!Load(p) \/ S!Unlock(p) PROVE SigningInv'
    BY <2>3, PageComes
  <2>4. ASSUME NEW p \in Pages, S!StartToSign(p) \/ S!StartToDeny(p) \/ S!StartToMake(p) \/ S!MakingFails(p) PROVE SigningInv'
    BY <2>4, PageStarts
  <2>5. ASSUME NEW p \in Pages, S!Close(p) \/ S!Resolve(p) \/ S!DecisionFails(p) \/ S!Made(p) PROVE SigningInv'
    BY <2>5, PageEnds
  <2>6. ASSUME NEW p \in Pages, S!Decide(p) \/ S!Write(p) \/ S!Make(p) PROVE SigningInv'
    BY <2>6, PageDecides, PageWrites, PageMakes
  <2>7. CASE UNCHANGED S!vars
    <3>1. UNCHANGED S!serverVars /\ UNCHANGED <<screen, embedded, signShown, call, signSent, making, master, heard>>
      BY <2>7 DEF S!vars
    <3>2. S!S!TypeOK' => S!TypeOK'
      BY <3>1 DEF SigningInv, S!TypeOK
    <3>3. TruthKeeps => HostToldTruth'
      BY <3>1, ToldStays
    <3>4. {} \in SUBSET Pages
      OBVIOUS
    <3> QED BY <3>1, <3>2, <3>3, <3>4, PageAlone
  <2> QED BY <2>1, <2>2, <2>3, <2>4, <2>5, <2>6, <2>7 DEF S!Next
<1> QED BY <1>1, SigningInit, PTL DEF S!Spec

\* A host hears of a signature with the key it verifies under, and, unless the
\* request was contested, of what the server keeps (handleSign, handleDeny).
THEOREM HostHearsTheTruth == S!Spec => []S!HostHearsTruth
<1>1. SigningInv => S!HostHearsTruth
  BY DEF SigningInv, HostToldTruth, S!HostHearsTruth, Truth, S!TypeOK, S!Messages
<1> QED BY <1>1, SigningInvariance, PTL

-----------------------------------------------------------------------------
(* Rate limits (RateLimits).                                               *)

LEMMA LimitCount == ASSUME NEW T PROVE L!Cardinality(T) = Cardinality(T)
BY DEF L!Cardinality, Cardinality

Labels == [L!RuleChecks -> [count : Nat, reset : Nat]]

\* The checks S of one rule are counted in bucket b: label is the bucket as each
\* was counted in it, at the time tm.  Windows do not overlap, and within one
\* window no two checks have the same count.
Windowed(Members, b, label, tm) ==
  /\ \A c \in Members : label[c].count >= 1 /\ tm[c] < label[c].reset /\ label[c].reset <= tm[c] + Window
  /\ \A c, d \in Members : c # d /\ label[c].reset = label[d].reset => label[c].count # label[d].count
  /\ \A c, d \in Members : label[c].reset < label[d].reset => label[c].reset + Window <= label[d].reset
  /\ \A c \in Members : \/ label[c].reset = b.reset /\ label[c].count <= b.count
                        \/ label[c].reset + Window <= b.reset

LEMMA CountedIs ==
  ASSUME NEW b \in [count : Nat, reset : Nat], now \in Nat, b.reset <= now + Window
  PROVE  /\ L!Counted(b) \in [count : Nat, reset : Nat]
         /\ b.reset > now => L!Counted(b).count = b.count + 1 /\ L!Counted(b).reset = b.reset
         /\ b.reset <= now => L!Counted(b).count = 1 /\ L!Counted(b).reset = now + Window
         /\ L!Counted(b).count \in 1 .. b.count + 1
         /\ now < L!Counted(b).reset /\ L!Counted(b).reset <= now + Window
BY LimitsAssumption DEF L!Counted, L!Active

\* One more check is counted.
LEMMA WindowedExtend ==
  ASSUME NEW Members \in SUBSET L!RuleChecks, NEW b \in [count : Nat, reset : Nat], NEW label \in Labels,
         NEW tm \in [L!RuleChecks -> Nat], NEW c \in L!RuleChecks \ Members, now \in Nat, b.reset <= now + Window,
         Windowed(Members, b, label, tm)
  PROVE  Windowed(Members \cup {c}, L!Counted(b), [label EXCEPT ![c] = L!Counted(b)], [tm EXCEPT ![c] = now])
<1> DEFINE k == L!Counted(b)
<1> DEFINE label2 == [label EXCEPT ![c] = k]
<1> DEFINE tm2 == [tm EXCEPT ![c] = now]
<1>1. /\ k \in [count : Nat, reset : Nat] /\ k.count >= 1 /\ now < k.reset /\ k.reset <= now + Window
      /\ \/ k.reset = b.reset /\ k.count = b.count + 1
         \/ k.count = 1 /\ b.reset <= now /\ k.reset = now + Window
  BY CountedIs
<1> HIDE DEF k
<1>2. label2[c] = k /\ tm2[c] = now /\ \A d \in Members : label2[d] = label[d] /\ tm2[d] = tm[d] /\ d # c
  BY DEF Labels
<1>3. \A d \in Members : label[d] \in [count : Nat, reset : Nat] /\ tm[d] \in Nat
  BY DEF Labels
<1> HIDE DEF label2, tm2
<1>4. ASSUME NEW d \in Members
      PROVE  \/ label[d].reset = k.reset /\ label[d].count < k.count
             \/ label[d].reset + Window <= k.reset
  <2>1. \/ label[d].reset = b.reset /\ label[d].count <= b.count
        \/ label[d].reset + Window <= b.reset
    BY DEF Windowed
  <2> QED BY <1>1, <1>3, <2>1, LimitsAssumption
<1>5. \A d \in Members \cup {c} : label2[d].count >= 1 /\ tm2[d] < label2[d].reset /\ label2[d].reset <= tm2[d] + Window
  BY <1>1, <1>2 DEF Windowed
<1>6. ASSUME NEW d \in Members \cup {c}, NEW e \in Members \cup {c}, d # e, label2[d].reset = label2[e].reset
      PROVE  label2[d].count # label2[e].count
  <2>1. CASE d \in Members /\ e \in Members
    BY <1>2, <1>6, <2>1 DEF Windowed
  <2>2. CASE d = c /\ e \in Members
    BY <1>1, <1>2, <1>3, <1>4, <1>6, <2>2, LimitsAssumption
  <2>3. CASE e = c /\ d \in Members
    BY <1>1, <1>2, <1>3, <1>4, <1>6, <2>3, LimitsAssumption
  <2> QED BY <1>6, <2>1, <2>2, <2>3
<1>7. ASSUME NEW d \in Members \cup {c}, NEW e \in Members \cup {c}, label2[d].reset < label2[e].reset
      PROVE  label2[d].reset + Window <= label2[e].reset
  <2>1. CASE d \in Members /\ e \in Members
    BY <1>2, <1>7, <2>1 DEF Windowed
  <2>2. CASE d = c /\ e \in Members
    BY <1>1, <1>2, <1>3, <1>4, <1>7, <2>2, LimitsAssumption
  <2>3. CASE e = c /\ d \in Members
    BY <1>1, <1>2, <1>3, <1>4, <1>7, <2>3, LimitsAssumption
  <2>4. CASE d = c /\ e = c
    BY <1>1, <1>2, <1>7, <2>4
  <2> QED BY <2>1, <2>2, <2>3, <2>4
<1>8. \A d \in Members \cup {c} : \/ label2[d].reset = k.reset /\ label2[d].count <= k.count
                                  \/ label2[d].reset + Window <= k.reset
  BY <1>1, <1>2, <1>3, <1>4
<1>9. Windowed(Members \cup {c}, k, label2, tm2)
  BY <1>5, <1>6, <1>7, <1>8 DEF Windowed
<1> QED BY <1>9 DEF k, label2, tm2

\* Fewer checks are counted in the same way.
LEMMA WindowedFrame ==
  ASSUME NEW Members, NEW T \in SUBSET Members, NEW b, NEW label, NEW tm, NEW tm2, NEW label2,
         Windowed(Members, b, label, tm), \A c \in T : tm2[c] = tm[c] /\ label2[c] = label[c]
  PROVE  Windowed(T, b, label2, tm2)
BY DEF Windowed

\* A span as long as a window meets two of them at most.
LEMMA WindowedSpan ==
  ASSUME NEW Members \in SUBSET L!RuleChecks, NEW b, NEW label \in Labels, NEW tm \in [L!RuleChecks -> Nat],
         Windowed(Members, b, label, tm), NEW t \in Nat, NEW A \in SUBSET Members,
         \A c \in A : label[c].count <= Quota /\ tm[c] \in t .. (t + Window - 1)
  PROVE  Cardinality(A) <= 2 * Quota
<1>1. CASE A = {}
  BY <1>1, FS_EmptySet, LimitsAssumption
<1>2. CASE A # {}
  <2>1. PICK a \in A : TRUE
    BY <1>2
  <2>2. \A c \in A : /\ label[c].reset \in Nat /\ label[c].count \in 1 .. Quota
                     /\ t < label[c].reset /\ label[c].reset <= t + 2 * Window - 1
    BY LimitsAssumption DEF Windowed, Labels
  <2>3. \A c, d, e \in A : label[c].reset < label[d].reset /\ label[d].reset < label[e].reset => FALSE
    BY <2>2, LimitsAssumption DEF Windowed
  <2>4. PICK d \in A : \A e \in A : label[e].reset \in {label[a].reset, label[d].reset}
    <3>1. CASE \A e \in A : label[e].reset = label[a].reset
      BY <2>1, <3>1
    <3>2. CASE \E d \in A : label[d].reset # label[a].reset
      <4>1. PICK d \in A : label[d].reset # label[a].reset
        BY <3>2
      <4>2. ASSUME NEW e \in A PROVE label[e].reset \in {label[a].reset, label[d].reset}
        <5>1. label[e].reset \in Nat /\ label[d].reset \in Nat /\ label[a].reset \in Nat
          BY <2>2
        <5> QED BY <2>1, <2>3, <4>1, <5>1
      <4> QED BY <4>2
    <3> QED BY <3>1, <3>2
  <2> DEFINE Resets == {label[a].reset, label[d].reset}
             f == [c \in A |-> <<label[c].reset, label[c].count>>]
  <2>5. IsFiniteSet(Resets) /\ Cardinality(Resets) <= 2
    <3>1. IsFiniteSet({label[a].reset}) /\ Cardinality({label[a].reset}) = 1
      BY FS_Singleton
    <3>2. Resets = {label[a].reset} \cup {label[d].reset}
      OBVIOUS
    <3>3. IsFiniteSet({label[a].reset} \cup {label[d].reset}) /\ Cardinality({label[a].reset} \cup {label[d].reset}) <= 2
      <4>1. /\ IsFiniteSet({label[a].reset} \cup {label[d].reset})
            /\ Cardinality({label[a].reset} \cup {label[d].reset}) =
                 IF label[d].reset \in {label[a].reset} THEN Cardinality({label[a].reset}) ELSE Cardinality({label[a].reset}) + 1
        BY <3>1, FS_AddElement
      <4> QED BY <3>1, <4>1
    <3> QED BY <3>2, <3>3
  <2>6. IsFiniteSet(1 .. Quota) /\ Cardinality(1 .. Quota) = Quota
    <3>1. Quota \in Int /\ 1 \in Int
      BY LimitsAssumption
    <3>2. IsFiniteSet(1 .. Quota) /\ Cardinality(1 .. Quota) = IF 1 > Quota THEN 0 ELSE Quota - 1 + 1
      BY <3>1, FS_Interval
    <3> QED BY <3>2, LimitsAssumption
  <2>7. IsFiniteSet(Resets \X (1 .. Quota)) /\ Cardinality(Resets \X (1 .. Quota)) = Cardinality(Resets) * Quota
    BY <2>5, <2>6, FS_Product
  <2>8. Cardinality(Resets \X (1 .. Quota)) <= 2 * Quota
    <3>1. Cardinality(Resets) \in Nat
      BY <2>5, FS_CardinalityType
    <3>2. Cardinality(Resets) = 0 \/ Cardinality(Resets) = 1 \/ Cardinality(Resets) = 2
      BY <2>5, <3>1
    <3> QED BY <2>7, <3>2, LimitsAssumption
  <2>9. f \in Injection(A, Resets \X (1 .. Quota))
    <3>1. f \in [A -> Resets \X (1 .. Quota)]
      BY <2>2, <2>4
    <3>2. \A c, e \in A : f[c] = f[e] => c = e
      BY DEF Windowed
    <3> QED BY <3>1, <3>2 DEF Injection, IsInjective
  <2>10. Cardinality(A) <= Cardinality(Resets \X (1 .. Quota)) /\ Cardinality(A) \in Nat
    BY <2>7, <2>9, FS_Injection, FS_CardinalityType
  <2>11. Cardinality(Resets \X (1 .. Quota)) \in Nat
    BY <2>7, FS_CardinalityType
  <2> QED BY <2>8, <2>10, <2>11, LimitsAssumption
<1> QED BY <1>1, <1>2

-----------------------------------------------------------------------------
\* Checks of rule r: that an object may have counted, that have ended, that the
\* object answered, that the memory answered.
Past(r) == {c \in L!RuleChecks : c[2] = r /\ check[c] \notin {"idle", "asked"}}
Ended(r) == {c \in L!RuleChecks : c[2] = r /\ check[c] \in L!Settled}
ObjectSet(r) == {c \in L!RuleChecks : c[2] = r /\ (check[c] = "counted" \/ from[c] = "object")}
MemorySet(r) == {c \in L!RuleChecks : c[2] = r /\ from[c] = "memory"}

\* What was counted was counted once, and no bucket is ahead of the clock.
CountsSound ==
  \A r \in Rules :
    /\ bucket[r].reset <= now + Window /\ limitMemory[r].reset <= now + Window
    /\ bucket[r].count <= Cardinality(Past(r)) /\ limitMemory[r].count <= Cardinality(Ended(r))

CheckSound(c) ==
  /\ check[c] \in {"idle", "asked", "counted", "storing", "unavailable"} <=> from[c] = "nowhere"
  /\ from[c] = "memory" => c[2] \notin FailClosed
  /\ check[c] = "storing" =>
       /\ c[2] \notin FailClosed /\ time[c] = now
       /\ now < next[c].reset /\ next[c].reset <= now + Window
       /\ next[c].count <= Cardinality(Ended(c[2])) + 1
       /\ c[2] \notin limitCrossed => next[c] = L!Counted(limitMemory[c[2]])
  /\ reply[c[1]] = "none" => check[c] = "idle"

ObjectLabels(label) ==
  /\ label \in Labels
  /\ \A r \in Rules : Windowed(ObjectSet(r), bucket[r], label, time)
  /\ \A c \in L!RuleChecks : check[c] = "counted" => next[c] = label[c]
  /\ \A c \in L!RuleChecks : from[c] = "object" =>
       \/ check[c] = "allowed" /\ label[c].count <= Quota
       \/ check[c] = "refused" /\ time[c] + wait[c] * Second >= label[c].reset

\* In memory only while no two checks have met.
MemoryLabels(label) ==
  /\ label \in Labels
  /\ \A r \in Rules \ limitCrossed : Windowed(MemorySet(r), limitMemory[r], label, time)
  /\ \A c \in L!RuleChecks : from[c] = "memory" /\ c[2] \notin limitCrossed /\ check[c] = "allowed" => label[c].count <= Quota

AdmittedSound ==
  \A q \in RateRequests : reply[q] = "admitted" => \A c \in L!ChecksOf(q) : check[c] = "allowed"

LimitSound == L!TypeOK /\ CountsSound /\ AdmittedSound /\ \A c \in L!RuleChecks : CheckSound(c)

LimitInv ==
  /\ LimitSound
  /\ \E label \in Labels : ObjectLabels(label)
  /\ \E label \in Labels : MemoryLabels(label)

LEMMA CheckRule == ASSUME NEW c \in L!RuleChecks PROVE c[1] \in RateRequests /\ c[2] \in Rules
BY DEF L!RuleChecks

\* There is one check of a rule in a request.
LEMMA RuleSize ==
  ASSUME NEW r \in Rules, NEW T \in SUBSET {c \in L!RuleChecks : c[2] = r}
  PROVE  IsFiniteSet(T) /\ Cardinality(T) \in Nat /\ Cardinality(T) <= Cardinality(RateRequests) /\ Cardinality(RateRequests) \in Nat
<1> DEFINE f == [c \in T |-> c[1]]
<1>1. f \in Injection(T, RateRequests)
  <2>1. f \in [T -> RateRequests]
    BY CheckRule
  <2>2. \A c, d \in T : f[c] = f[d] => c = d
    BY DEF L!RuleChecks
  <2> QED BY <2>1, <2>2 DEF Injection, IsInjective
<1>2. IsFiniteSet(RateRequests)
  BY LimitsAssumption
<1>3. IsFiniteSet(T) /\ Cardinality(T) <= Cardinality(RateRequests)
  BY <1>1, <1>2, FS_Injection
<1> QED BY <1>2, <1>3, FS_CardinalityType

LEMMA RuleGrows ==
  ASSUME NEW r \in Rules, NEW T \in SUBSET {c \in L!RuleChecks : c[2] = r}, NEW c \in L!RuleChecks \ T, c[2] = r
  PROVE  Cardinality(T \cup {c}) = Cardinality(T) + 1 /\ Cardinality(T) + 1 <= Cardinality(RateRequests)
<1>1. IsFiniteSet(T)
  BY RuleSize
<1>2. Cardinality(T \cup {c}) = Cardinality(T) + 1
  BY <1>1, FS_AddElement
<1>3. T \cup {c} \in SUBSET {d \in L!RuleChecks : d[2] = r}
  OBVIOUS
<1>4. Cardinality(T \cup {c}) <= Cardinality(RateRequests)
  BY <1>3, RuleSize
<1> QED BY <1>2, <1>4

LEMMA RuleKeeps ==
  ASSUME NEW r \in Rules, NEW T \in SUBSET {c \in L!RuleChecks : c[2] = r}, NEW Members \in SUBSET T
  PROVE  Cardinality(Members) <= Cardinality(T)
<1>1. IsFiniteSet(T)
  BY RuleSize
<1> QED BY <1>1, FS_Subset

LEMMA BucketsPlain == L!Buckets \subseteq [count : Nat, reset : Nat] /\ L!Nothing \in L!Buckets
<1>1. IsFiniteSet(RateRequests)
  BY LimitsAssumption
<1>2. Cardinality(RateRequests) \in Nat
  BY <1>1, FS_CardinalityType
<1> QED BY <1>2, LimitsAssumption, LimitCount DEF L!Buckets, L!Nothing

LEMMA LimitInit == L!Init => LimitInv
<1> SUFFICES ASSUME L!Init PROVE LimitInv
  OBVIOUS
<1>1. L!TypeOK
  BY BucketsPlain, LimitsAssumption DEF L!Init, L!TypeOK, L!Settled
<1>2. CountsSound
  <2>1. \A r \in Rules : Cardinality(Past(r)) \in Nat /\ Cardinality(Ended(r)) \in Nat
    BY RuleSize DEF Past, Ended
  <2> QED BY <2>1, LimitsAssumption DEF L!Init, CountsSound, L!Nothing
<1>3. AdmittedSound /\ \A c \in L!RuleChecks : CheckSound(c)
  BY CheckRule DEF L!Init, AdmittedSound, CheckSound
<1> DEFINE label == [c \in L!RuleChecks |-> [count |-> 0, reset |-> 0]]
<1>4. label \in Labels
  BY DEF Labels
<1>5. \A r \in Rules : ObjectSet(r) = {} /\ MemorySet(r) = {}
  BY DEF L!Init, ObjectSet, MemorySet
<1>6. ObjectLabels(label) /\ MemoryLabels(label)
  BY <1>4, <1>5 DEF L!Init, ObjectLabels, MemoryLabels, Windowed
<1> QED BY <1>1, <1>2, <1>3, <1>4, <1>6 DEF LimitInv, LimitSound

\* Time passes, and requests are answered, on the checks as they are.
LEMMA LimitAnswers ==
  ASSUME LimitInv, L!Tick \/ \E q \in RateRequests : L!Answer(q) \/ L!Native(q)
  PROVE  LimitInv'
<1>1. UNCHANGED <<brought, bound, bucket, limitMemory, check, next, from, time, wait, limitCrossed>>
  BY DEF L!Tick, L!Answer, L!Native, L!checkVars
<1>2. now' \in 0 .. Horizon /\ now <= now' /\ (now' = now \/ \A c \in L!RuleChecks : check[c] # "storing")
  BY LimitsAssumption DEF L!Tick, L!Answer, L!Native, LimitInv, LimitSound, L!TypeOK
<1>3. reply' \in [RateRequests -> {"none", "checked", "admitted", "limited", "unavailable", "native"}]
  BY DEF L!Tick, L!Answer, L!Native, LimitInv, LimitSound, L!TypeOK
<1>4. AdmittedSound' /\ \A q \in RateRequests : reply'[q] = "none" => reply[q] = "none"
  BY <1>1 DEF L!Tick, L!Answer, L!Native, LimitInv, LimitSound, L!TypeOK, AdmittedSound, L!ChecksOf
<1>5. L!TypeOK'
  BY <1>1, <1>2, <1>3 DEF LimitInv, LimitSound, L!TypeOK
<1>6. \A r \in Rules : /\ Past(r)' = Past(r) /\ Ended(r)' = Ended(r)
                        /\ ObjectSet(r)' = ObjectSet(r) /\ MemorySet(r)' = MemorySet(r)
  BY <1>1 DEF Past, Ended, ObjectSet, MemorySet
<1>7. CountsSound'
  <2>1. \A r \in Rules : bucket[r].reset \in Nat /\ limitMemory[r].reset \in Nat
    BY BucketsPlain DEF LimitInv, LimitSound, L!TypeOK
  <2> QED BY <1>1, <1>2, <1>6, <2>1, LimitsAssumption DEF LimitInv, LimitSound, CountsSound, L!TypeOK
<1>8. ASSUME NEW c \in L!RuleChecks PROVE CheckSound(c)'
  <2>1. c[1] \in RateRequests /\ c[2] \in Rules /\ CheckSound(c)
    BY CheckRule DEF LimitInv, LimitSound
  <2>2. now' = now => L!Counted(limitMemory[c[2]])' = L!Counted(limitMemory[c[2]])
    BY <1>1 DEF L!Counted, L!Active
  <2>3. CASE check[c] # "storing"
    BY <1>1, <1>4, <2>1, <2>3 DEF CheckSound
  <2>4. CASE now' = now
    BY <1>1, <1>4, <1>6, <2>1, <2>2, <2>4 DEF CheckSound
  <2> QED BY <1>2, <2>3, <2>4
<1>9. \A label \in Labels : /\ ObjectLabels(label) => ObjectLabels(label)'
                            /\ MemoryLabels(label) => MemoryLabels(label)'
  BY <1>1, <1>6 DEF ObjectLabels, MemoryLabels, Windowed
<1> QED BY <1>4, <1>5, <1>7, <1>8, <1>9 DEF LimitInv, LimitSound

\* Checks that read the bucket in memory, or give up.
LEMMA LimitFallBack ==
  ASSUME LimitInv, NEW C \in SUBSET L!RuleChecks, L!FallBack(C),
         \A c \in C : check[c] \in {"idle", "asked", "counted"},
         UNCHANGED <<now, brought, bound, bucket, limitMemory, limitCrossed>>,
         reply' \in [RateRequests -> {"none", "checked", "admitted", "limited", "unavailable", "native"}],
         \A q \in RateRequests : /\ reply'[q] = "admitted" => reply[q] = "admitted"
                                 /\ reply'[q] = "none" => reply[q] = "none" /\ \A c \in C : c[1] # q
  PROVE  LimitInv'
<1> USE DEF LimitInv, LimitSound
<1>1. ASSUME NEW c \in L!RuleChecks \ C
      PROVE  check'[c] = check[c] /\ next'[c] = next[c] /\ from'[c] = from[c] /\ time'[c] = time[c]
  BY <1>1 DEF L!FallBack
<1>2. ASSUME NEW c \in C
      PROVE  /\ from'[c] = "nowhere" /\ from[c] = "nowhere"
             /\ \/ c[2] \in FailClosed /\ check'[c] = "unavailable" /\ next'[c] = L!Nothing /\ time'[c] = 0
                \/ c[2] \notin FailClosed /\ check'[c] = "storing" /\ next'[c] = L!Counted(limitMemory[c[2]]) /\ time'[c] = now
  BY <1>2 DEF L!FallBack, CheckSound
<1>3. ASSUME NEW c \in C
      PROVE  /\ L!Counted(limitMemory[c[2]]) \in L!Buckets
             /\ L!Counted(limitMemory[c[2]]).count <= Cardinality(Ended(c[2])) + 1
             /\ now < L!Counted(limitMemory[c[2]]).reset /\ L!Counted(limitMemory[c[2]]).reset <= now + Window
  <2>1. c[2] \in Rules /\ limitMemory[c[2]] \in [count : Nat, reset : Nat] /\ now \in Nat /\ limitMemory[c[2]].reset <= now + Window
    BY CheckRule, BucketsPlain DEF L!TypeOK, CountsSound
  <2>2. limitMemory[c[2]].count <= Cardinality(Ended(c[2]))
    BY <2>1 DEF CountsSound
  <2>3. Ended(c[2]) \in SUBSET {d \in L!RuleChecks : d[2] = c[2]} /\ c \notin Ended(c[2])
    BY <1>3 DEF Ended, L!Settled
  <2>4. Cardinality(Ended(c[2])) + 1 <= Cardinality(RateRequests) /\ Cardinality(Ended(c[2])) \in Nat /\ Cardinality(RateRequests) \in Nat
    BY <2>1, <2>3, RuleGrows, RuleSize
  <2>5. now <= Horizon
    BY LimitsAssumption DEF L!TypeOK
  <2>6. /\ L!Counted(limitMemory[c[2]]) \in [count : Nat, reset : Nat]
        /\ L!Counted(limitMemory[c[2]]).count <= limitMemory[c[2]].count + 1
        /\ now < L!Counted(limitMemory[c[2]]).reset /\ L!Counted(limitMemory[c[2]]).reset <= now + Window
    BY <2>1, CountedIs
  <2>7. L!Counted(limitMemory[c[2]]).count \in 0 .. Cardinality(RateRequests) /\ L!Counted(limitMemory[c[2]]).reset \in 0 .. (Horizon + Window)
    BY <2>1, <2>2, <2>4, <2>5, <2>6, LimitsAssumption
  <2> QED BY <2>1, <2>2, <2>4, <2>6, <2>7, LimitCount DEF L!Buckets
<1>4. L!TypeOK'
  <2>1. check' \in [L!RuleChecks -> {"idle", "asked", "counted", "storing"} \cup L!Settled]
    BY DEF L!FallBack, L!TypeOK, L!Settled
  <2>2. next' \in [L!RuleChecks -> L!Buckets]
    <3>1. \A c \in L!RuleChecks : next'[c] \in L!Buckets
      BY <1>1, <1>2, <1>3, BucketsPlain DEF L!TypeOK
    <3> QED BY <3>1 DEF L!FallBack
  <2>3. from' \in [L!RuleChecks -> {"nowhere", "object", "memory"}]
    BY DEF L!FallBack, L!TypeOK
  <2>4. time' \in [L!RuleChecks -> 0 .. Horizon]
    BY LimitsAssumption DEF L!FallBack, L!TypeOK
  <2> QED BY <2>1, <2>2, <2>3, <2>4 DEF L!FallBack, L!TypeOK
<1>5. \A r \in Rules : Past(r) \subseteq Past(r)' /\ Ended(r) \subseteq Ended(r)'
  BY <1>1, <1>2 DEF Past, Ended, L!Settled
<1>6. \A r \in Rules : /\ Cardinality(Past(r)) <= Cardinality(Past(r)') /\ Cardinality(Ended(r)) <= Cardinality(Ended(r)')
                        /\ Cardinality(Past(r)) \in Nat /\ Cardinality(Ended(r)) \in Nat
                        /\ Cardinality(Past(r)') \in Nat /\ Cardinality(Ended(r)') \in Nat
  BY <1>5, RuleKeeps, RuleSize DEF Past, Ended
<1>7. CountsSound'
  <2>1. \A r \in Rules : bucket[r].count \in Nat /\ limitMemory[r].count \in Nat
    BY BucketsPlain DEF L!TypeOK
  <2> QED BY <1>6, <2>1 DEF CountsSound
<1>8. AdmittedSound'
  <2>1. ASSUME NEW q \in RateRequests, reply'[q] = "admitted", NEW c \in L!ChecksOf(q)' PROVE check'[c] = "allowed"
    <3>1. c \in L!ChecksOf(q) /\ reply[q] = "admitted"
      BY <2>1 DEF L!ChecksOf
    <3>2. check[c] = "allowed" /\ c \in L!RuleChecks
      BY <3>1, LimitsAssumption DEF AdmittedSound, L!ChecksOf, L!TypeOK, L!RuleChecks
    <3> QED BY <1>1, <3>2
  <2> QED BY <2>1 DEF AdmittedSound
<1>9. ASSUME NEW c \in L!RuleChecks PROVE CheckSound(c)'
  <2>1. c[1] \in RateRequests /\ c[2] \in Rules
    BY CheckRule
  <2>2. L!Counted(limitMemory[c[2]])' = L!Counted(limitMemory[c[2]])
    BY DEF L!Counted, L!Active
  <2>3. CASE c \in C
    <3>1. L!Counted(limitMemory[c[2]]).count <= Cardinality(Ended(c[2])') + 1
      <4>1. L!Counted(limitMemory[c[2]]).count \in Nat
        BY <1>3, <2>3, BucketsPlain
      <4> QED BY <1>3, <1>6, <2>1, <2>3, <4>1
    <3> QED BY <1>2, <1>3, <2>1, <2>2, <2>3, <3>1 DEF CheckSound
  <2>4. CASE c \notin C
    <3>1. check[c] = "storing" => next[c].count <= Cardinality(Ended(c[2])') + 1
      <4>1. next[c].count \in Nat
        BY BucketsPlain DEF L!TypeOK
      <4> QED BY <1>6, <2>1, <4>1 DEF CheckSound
    <3> QED BY <1>1, <2>1, <2>2, <2>4, <3>1 DEF CheckSound
  <2> QED BY <2>3, <2>4
<1>10. ASSUME NEW r \in Rules
       PROVE  /\ ObjectSet(r)' \subseteq ObjectSet(r) \ C /\ MemorySet(r)' \subseteq MemorySet(r) \ C
              /\ ObjectSet(r)' \subseteq L!RuleChecks /\ MemorySet(r)' \subseteq L!RuleChecks
  BY <1>1, <1>2 DEF ObjectSet, MemorySet
<1>11. ASSUME NEW label \in Labels, ObjectLabels(label) PROVE ObjectLabels(label)'
  <2>1. ASSUME NEW r \in Rules PROVE Windowed(ObjectSet(r)', bucket[r], label, time')
    <3>1. Windowed(ObjectSet(r), bucket[r], label, time)
      BY <1>11 DEF ObjectLabels
    <3>2. \A c \in ObjectSet(r)' : time'[c] = time[c]
      BY <1>1, <1>10
    <3> QED BY <1>10, <3>1, <3>2, WindowedFrame
  <2>2. ASSUME NEW c \in L!RuleChecks, check'[c] = "counted" PROVE next'[c] = label[c]
    BY <1>1, <1>2, <1>11, <2>2 DEF ObjectLabels
  <2>3. ASSUME NEW c \in L!RuleChecks, from'[c] = "object"
        PROVE  \/ check'[c] = "allowed" /\ label[c].count <= Quota
               \/ check'[c] = "refused" /\ time'[c] + wait'[c] * Second >= label[c].reset
    <3>1. c \notin C
      BY <1>2, <2>3
    <3>2. wait' = wait
      BY DEF L!FallBack
    <3> QED BY <1>1, <1>11, <2>3, <3>1, <3>2 DEF ObjectLabels
  <2> QED BY <2>1, <2>2, <2>3 DEF ObjectLabels
<1>12. ASSUME NEW label \in Labels, MemoryLabels(label) PROVE MemoryLabels(label)'
  <2>1. ASSUME NEW r \in Rules \ limitCrossed PROVE Windowed(MemorySet(r)', limitMemory[r], label, time')
    <3>1. Windowed(MemorySet(r), limitMemory[r], label, time)
      BY <1>12 DEF MemoryLabels
    <3>2. \A c \in MemorySet(r)' : time'[c] = time[c]
      BY <1>1, <1>10
    <3> QED BY <1>10, <3>1, <3>2, WindowedFrame
  <2>2. ASSUME NEW c \in L!RuleChecks, from'[c] = "memory" PROVE c \notin C
    BY <1>2, <2>2
  <2> QED BY <1>1, <1>12, <2>1, <2>2 DEF MemoryLabels
<1> QED BY <1>4, <1>7, <1>8, <1>9, <1>11, <1>12

LEMMA LimitEnforce ==
  ASSUME LimitInv, NEW q \in RateRequests, L!Enforce(q)
  PROVE  LimitInv'
<1> USE DEF LimitInv, LimitSound
<1>0. L!ChecksOf(q) \in SUBSET L!RuleChecks /\ \A c \in L!ChecksOf(q) : c[1] = q /\ check[c] = "idle"
  BY LimitsAssumption DEF L!ChecksOf, L!TypeOK, L!RuleChecks, L!Enforce, CheckSound
<1>1. /\ reply' = [reply EXCEPT ![q] = "checked"]
      /\ UNCHANGED <<now, brought, bound, bucket, limitMemory, limitCrossed>>
  BY DEF L!Enforce
<1>2. reply' \in [RateRequests -> {"none", "checked", "admitted", "limited", "unavailable", "native"}]
  BY <1>1 DEF L!TypeOK
<1>3. \A p \in RateRequests : /\ reply'[p] = "admitted" => reply[p] = "admitted"
                              /\ reply'[p] = "none" => reply[p] = "none" /\ \A c \in L!ChecksOf(q) : c[1] # p
  BY <1>0, <1>1 DEF L!TypeOK
<1>4. CASE ~bound
  <2>1. L!FallBack(L!ChecksOf(q))
    BY <1>4 DEF L!Enforce
  <2> QED BY <1>0, <1>1, <1>2, <1>3, <2>1, LimitFallBack
<1>5. CASE bound
  <2>1. /\ check' = [c \in L!RuleChecks |-> IF c \in L!ChecksOf(q) THEN "asked" ELSE check[c]]
        /\ UNCHANGED <<next, from, time, wait>>
    BY <1>5 DEF L!Enforce
  <2>2. L!TypeOK'
    BY <1>1, <1>2, <2>1 DEF L!TypeOK
  <2>3. \A r \in Rules : /\ Past(r)' = Past(r) /\ Ended(r)' = Ended(r)
                          /\ ObjectSet(r)' = ObjectSet(r) /\ MemorySet(r)' = MemorySet(r)
    BY <1>0, <2>1 DEF Past, Ended, L!Settled, ObjectSet, MemorySet
  <2>4. CountsSound'
    BY <1>1, <2>3 DEF CountsSound
  <2>5. AdmittedSound'
    BY <1>0, <1>1, <1>3, <2>1, LimitsAssumption DEF AdmittedSound, L!ChecksOf, L!TypeOK, L!RuleChecks
  <2>6. ASSUME NEW c \in L!RuleChecks PROVE CheckSound(c)'
    <3>1. c[1] \in RateRequests /\ c[2] \in Rules /\ CheckSound(c) /\ L!Counted(limitMemory[c[2]])' = L!Counted(limitMemory[c[2]])
      BY <1>1, CheckRule DEF L!Counted, L!Active
    <3>2. CASE c \in L!ChecksOf(q)
      BY <1>0, <1>3, <2>1, <3>1, <3>2 DEF CheckSound
    <3>3. CASE c \notin L!ChecksOf(q)
      BY <1>1, <1>3, <2>1, <2>3, <3>1, <3>3 DEF CheckSound
    <3> QED BY <3>2, <3>3
  <2>7. \A label \in Labels : /\ ObjectLabels(label) => ObjectLabels(label)'
                              /\ MemoryLabels(label) => MemoryLabels(label)'
    BY <1>0, <1>1, <2>1, <2>3 DEF ObjectLabels, MemoryLabels, Windowed
  <2> QED BY <2>2, <2>4, <2>5, <2>6, <2>7
<1> QED BY <1>4, <1>5

\* One check c goes on: what that leaves of the others.
LEMMA OneCheck ==
  ASSUME LimitInv, NEW c \in L!RuleChecks, check[c] \notin L!Settled, check[c] # "idle", check'[c] # "idle",
         UNCHANGED <<now, brought, reply>>, limitCrossed \subseteq limitCrossed',
         check' = [check EXCEPT ![c] = check'[c]], next' = [next EXCEPT ![c] = next'[c]],
         from' = [from EXCEPT ![c] = from'[c]], time' = [time EXCEPT ![c] = time'[c]],
         check'[c] \notin {"asked", "storing"},
         \A d \in L!RuleChecks \ {c} :
           check[d] = "storing" /\ d[2] \notin limitCrossed' => limitMemory'[d[2]] = limitMemory[d[2]]
  PROVE  /\ AdmittedSound'
         /\ \A d \in L!RuleChecks \ {c} : CheckSound(d)'
         /\ \A r \in Rules : /\ Cardinality(Past(r)) <= Cardinality(Past(r)') /\ Cardinality(Ended(r)) <= Cardinality(Ended(r)')
                              /\ Cardinality(Past(r)) \in Nat /\ Cardinality(Ended(r)) \in Nat
                              /\ Cardinality(Past(r)') \in Nat /\ Cardinality(Ended(r)') \in Nat
<1> USE DEF LimitInv, LimitSound
<1>1. \A d \in L!RuleChecks \ {c} : check'[d] = check[d] /\ next'[d] = next[d] /\ from'[d] = from[d] /\ time'[d] = time[d]
  BY DEF L!TypeOK
<1>2. \A r \in Rules : Past(r) \subseteq Past(r)' /\ Ended(r) \subseteq Ended(r)'
  BY <1>1 DEF Past, Ended
<1>3. \A r \in Rules : /\ Cardinality(Past(r)) <= Cardinality(Past(r)') /\ Cardinality(Ended(r)) <= Cardinality(Ended(r)')
                        /\ Cardinality(Past(r)) \in Nat /\ Cardinality(Ended(r)) \in Nat
                        /\ Cardinality(Past(r)') \in Nat /\ Cardinality(Ended(r)') \in Nat
  BY <1>2, RuleKeeps, RuleSize DEF Past, Ended
<1>4. AdmittedSound'
  <2>1. ASSUME NEW q \in RateRequests, reply'[q] = "admitted", NEW d \in L!ChecksOf(q)' PROVE check'[d] = "allowed"
    <3>1. d \in L!ChecksOf(q) /\ reply[q] = "admitted"
      BY <2>1 DEF L!ChecksOf
    <3>2. check[d] = "allowed" /\ d \in L!RuleChecks
      BY <3>1, LimitsAssumption DEF AdmittedSound, L!ChecksOf, L!TypeOK, L!RuleChecks
    <3> QED BY <1>1, <3>2 DEF L!Settled
  <2> QED BY <2>1 DEF AdmittedSound
<1>5. ASSUME NEW d \in L!RuleChecks \ {c} PROVE CheckSound(d)'
  <2>1. d[1] \in RateRequests /\ d[2] \in Rules /\ CheckSound(d)
    BY CheckRule
  <2>2. check[d] = "storing" /\ d[2] \notin limitCrossed' => L!Counted(limitMemory[d[2]])' = L!Counted(limitMemory[d[2]])
    BY DEF L!Counted, L!Active
  <2>3. check[d] = "storing" => next[d].count <= Cardinality(Ended(d[2])') + 1
    <3>1. next[d].count \in Nat
      BY BucketsPlain DEF L!TypeOK
    <3> QED BY <1>3, <2>1, <3>1 DEF CheckSound
  <2> QED BY <1>1, <2>1, <2>2, <2>3 DEF CheckSound
<1> QED BY <1>3, <1>4, <1>5

\* The object counts one more.
LEMMA LimitServe ==
  ASSUME LimitInv, NEW c \in L!RuleChecks, L!Serve(c)
  PROVE  LimitInv'
<1> DEFINE r == c[2]
           b == L!Counted(bucket[r])
<1> USE DEF LimitInv, LimitSound
<1>1. c[1] \in RateRequests /\ r \in Rules /\ CheckSound(c)
  BY CheckRule
<1>2. /\ check[c] = "asked" /\ bucket' = [bucket EXCEPT ![r] = b] /\ check' = [check EXCEPT ![c] = "counted"]
      /\ next' = [next EXCEPT ![c] = b] /\ time' = [time EXCEPT ![c] = now]
      /\ UNCHANGED <<now, brought, bound, limitMemory, from, wait, reply, limitCrossed>>
  BY DEF L!Serve
<1>3. bucket[r] \in [count : Nat, reset : Nat] /\ now \in Nat /\ now <= Horizon /\ bucket[r].reset <= now + Window
      /\ bucket[r].count <= Cardinality(Past(r))
  BY <1>1, BucketsPlain, LimitsAssumption DEF L!TypeOK, CountsSound
<1>4. /\ b \in [count : Nat, reset : Nat] /\ b.count <= bucket[r].count + 1
      /\ now < b.reset /\ b.reset <= now + Window
  BY <1>3, CountedIs
<1>5. /\ check'[c] = "counted" /\ next'[c] = b /\ from'[c] = "nowhere" /\ time'[c] = now /\ from[c] = "nowhere"
      /\ check' = [check EXCEPT ![c] = check'[c]] /\ next' = [next EXCEPT ![c] = next'[c]]
      /\ from' = [from EXCEPT ![c] = from'[c]] /\ time' = [time EXCEPT ![c] = time'[c]]
  BY <1>1, <1>2 DEF L!TypeOK, CheckSound
<1>6. /\ Past(r)' = Past(r) \cup {c} /\ Past(r) \in SUBSET {d \in L!RuleChecks : d[2] = r} /\ c \in L!RuleChecks \ Past(r)
      /\ \A q \in Rules : Ended(q)' = Ended(q) /\ (q # r => Past(q)' = Past(q))
  BY <1>1, <1>2 DEF Past, Ended, L!Settled, L!TypeOK
<1>7. /\ Cardinality(Past(r)') = Cardinality(Past(r)) + 1 /\ Cardinality(Past(r)) + 1 <= Cardinality(RateRequests)
      /\ Cardinality(Past(r)) \in Nat /\ Cardinality(RateRequests) \in Nat
  BY <1>1, <1>6, RuleGrows, RuleSize
<1>8. b \in L!Buckets
  <2>1. b.count \in 0 .. Cardinality(RateRequests) /\ b.reset \in 0 .. (Horizon + Window)
    BY <1>3, <1>4, <1>7, LimitsAssumption
  <2> QED BY <1>4, <2>1, LimitCount DEF L!Buckets
<1> HIDE DEF b, r
<1>9. L!TypeOK'
  BY <1>1, <1>2, <1>8, LimitsAssumption DEF L!TypeOK
<1>10. AdmittedSound' /\ \A d \in L!RuleChecks \ {c} : CheckSound(d)'
  <2> HIDE DEF LimitInv, LimitSound
  <2> QED BY <1>2, <1>5, OneCheck DEF L!Settled
<1>11. CheckSound(c)'
  BY <1>1, <1>2, <1>5 DEF CheckSound
<1>12. CountsSound'
  <2>1. ASSUME NEW q \in Rules
        PROVE  /\ bucket'[q].reset <= now + Window /\ limitMemory[q].reset <= now + Window
               /\ bucket'[q].count <= Cardinality(Past(q)') /\ limitMemory[q].count <= Cardinality(Ended(q)')
    <3>1. CASE q = r
      <4>1. bucket'[q] = b
        BY <1>1, <1>2, <3>1 DEF L!TypeOK
      <4>2. b.count <= Cardinality(Past(r)')
        BY <1>3, <1>4, <1>7
      <4>3. limitMemory[r].reset <= now + Window /\ limitMemory[r].count <= Cardinality(Ended(r))
        BY <1>1 DEF CountsSound
      <4> QED BY <1>1, <1>4, <1>6, <3>1, <4>1, <4>2, <4>3
    <3>2. CASE q # r
      <4>1. bucket'[q] = bucket[q]
        BY <1>2, <3>2 DEF L!TypeOK
      <4> QED BY <1>6, <3>2, <4>1 DEF CountsSound
    <3> QED BY <3>1, <3>2
  <2> QED BY <1>2, <2>1 DEF CountsSound
<1>13. /\ ObjectSet(r)' = ObjectSet(r) \cup {c} /\ c \notin ObjectSet(r) /\ ObjectSet(r) \subseteq L!RuleChecks
       /\ \A q \in Rules : MemorySet(q)' = MemorySet(q) /\ c \notin MemorySet(q)
                           /\ (q # r => ObjectSet(q)' = ObjectSet(q) /\ c \notin ObjectSet(q))
  BY <1>2, <1>5 DEF ObjectSet, MemorySet, r
<1>14. \A d \in L!RuleChecks \ {c} : time'[d] = time[d] /\ check'[d] = check[d] /\ next'[d] = next[d]
  BY <1>2
<1>15. ASSUME NEW label \in Labels, ObjectLabels(label)
       PROVE  \E label2 \in Labels : ObjectLabels(label2)'
  <2>0. PICK label2 \in Labels : label2 = [label EXCEPT ![c] = b]
    BY <1>4 DEF Labels
  <2>1. label2 \in Labels /\ label2[c] = b /\ \A d \in L!RuleChecks \ {c} : label2[d] = label[d]
    BY <2>0 DEF Labels
  <2>2. ASSUME NEW q \in Rules PROVE Windowed(ObjectSet(q)', bucket'[q], label2, time')
    <3>1. Windowed(ObjectSet(q), bucket[q], label, time)
      BY <1>15 DEF ObjectLabels
    <3>2. CASE q = r
      <4>1. bucket'[q] = b
        BY <1>1, <1>2, <3>2 DEF L!TypeOK
      <4>2. time \in [L!RuleChecks -> Nat]
        BY LimitsAssumption DEF L!TypeOK
      <4>3. Windowed(ObjectSet(r) \cup {c}, L!Counted(bucket[r]), [label EXCEPT ![c] = L!Counted(bucket[r])], [time EXCEPT ![c] = now])
        BY <1>3, <1>13, <3>1, <3>2, <4>2, WindowedExtend
      <4> QED BY <1>2, <1>13, <2>0, <3>2, <4>1, <4>3 DEF b
    <3>3. CASE q # r
      <4>1. bucket'[q] = bucket[q] /\ ObjectSet(q)' = ObjectSet(q)
        BY <1>2, <1>13, <3>3 DEF L!TypeOK
      <4>2. \A d \in ObjectSet(q) : time'[d] = time[d] /\ label2[d] = label[d]
        BY <1>13, <1>14, <2>1, <3>3 DEF ObjectSet
      <4> QED BY <3>1, <4>1, <4>2, WindowedFrame
    <3> QED BY <3>2, <3>3
  <2>3. \A d \in L!RuleChecks : check'[d] = "counted" => next'[d] = label2[d]
    BY <1>5, <1>14, <1>15, <2>1 DEF ObjectLabels
  <2>4. ASSUME NEW d \in L!RuleChecks, from'[d] = "object"
        PROVE  \/ check'[d] = "allowed" /\ label2[d].count <= Quota
               \/ check'[d] = "refused" /\ time'[d] + wait'[d] * Second >= label2[d].reset
    <3>1. d # c /\ from[d] = "object" /\ wait' = wait
      BY <1>2, <1>5, <2>4
    <3> QED BY <1>14, <1>15, <2>1, <3>1 DEF ObjectLabels
  <2>5. ObjectLabels(label2)'
    BY <2>1, <2>2, <2>3, <2>4 DEF ObjectLabels
  <2> QED BY <2>1, <2>5
<1>16. ASSUME NEW label \in Labels, MemoryLabels(label) PROVE MemoryLabels(label)'
  <2>1. ASSUME NEW q \in Rules \ limitCrossed PROVE Windowed(MemorySet(q)', limitMemory[q], label, time')
    <3>1. Windowed(MemorySet(q), limitMemory[q], label, time)
      BY <1>16 DEF MemoryLabels
    <3>2. \A d \in MemorySet(q) : time'[d] = time[d]
      BY <1>13, <1>14 DEF MemorySet
    <3>3. MemorySet(q)' = MemorySet(q)
      BY <1>13
    <3> QED BY <3>1, <3>2, <3>3, WindowedFrame
  <2> QED BY <1>2, <1>5, <1>14, <1>16, <2>1 DEF MemoryLabels
<1> QED BY <1>9, <1>10, <1>11, <1>12, <1>15, <1>16

LEMMA RetryIs ==
  ASSUME NEW b \in [count : Nat, reset : Nat], NEW t \in Nat, t < b.reset, b.reset <= t + Window
  PROVE  L!RetryAfter(b, t) \in 1 .. Window /\ t + L!RetryAfter(b, t) * Second >= b.reset
<1> DEFINE x == b.reset - t
           k == (x + Second - 1) \div Second
<1>1. x \in 1 .. Window /\ b.reset \in Nat
  BY LimitsAssumption
<1>2. k \in 1 .. x /\ k * Second >= x
  <2> HIDE DEF x
  <2>1. x \in Nat /\ x >= 1 /\ Second \in Nat \ {0}
    BY <1>1, LimitsAssumption
  <2>2. k * Second >= x
    BY <2>1, SMTT(30)
  <2>3. k \in Int /\ k >= 1 /\ k <= x
    BY <2>1, SMTT(30)
  <2> QED BY <2>1, <2>2, <2>3
<1>3. L!RetryAfter(b, t) = k
  BY <1>1, <1>2 DEF L!RetryAfter
<1> HIDE DEF k
<1> QED BY <1>1, <1>2, <1>3, LimitsAssumption

\* The answer of the object arrives.
LEMMA LimitHear ==
  ASSUME LimitInv, NEW c \in L!RuleChecks, L!Hear(c)
  PROVE  LimitInv'
<1> DEFINE r == c[2]
<1> USE DEF LimitInv, LimitSound
<1>1. c[1] \in RateRequests /\ r \in Rules /\ CheckSound(c)
  BY CheckRule
<1>2. /\ check[c] = "counted" /\ check' = [check EXCEPT ![c] = L!Verdict(next[c])]
      /\ wait' = [wait EXCEPT ![c] = IF L!Verdict(next[c]) = "refused" THEN L!RetryAfter(next[c], time[c]) ELSE 0]
      /\ from' = [from EXCEPT ![c] = "object"] /\ next' = [next EXCEPT ![c] = L!Nothing]
      /\ UNCHANGED <<now, brought, bound, bucket, limitMemory, time, reply, limitCrossed>>
  BY DEF L!Hear
<1>3. L!Verdict(next[c]) \in {"allowed", "refused"} /\ (L!Verdict(next[c]) = "allowed" => next[c].count <= Quota)
  BY DEF L!Verdict
<1>4. /\ check'[c] = L!Verdict(next[c]) /\ from'[c] = "object" /\ from[c] = "nowhere" /\ time'[c] = time[c]
      /\ check' = [check EXCEPT ![c] = check'[c]] /\ next' = [next EXCEPT ![c] = next'[c]]
      /\ from' = [from EXCEPT ![c] = from'[c]] /\ time' = [time EXCEPT ![c] = time'[c]]
  BY <1>1, <1>2 DEF L!TypeOK, CheckSound
<1>5. L!RetryAfter(next[c], time[c]) \in 1 .. Window /\ time[c] + L!RetryAfter(next[c], time[c]) * Second >= next[c].reset
  <2>1. PICK label \in Labels : ObjectLabels(label)
    OBVIOUS
  <2>2. c \in ObjectSet(r) /\ Windowed(ObjectSet(r), bucket[r], label, time) /\ next[c] = label[c]
    BY <1>1, <1>2, <2>1 DEF ObjectSet, ObjectLabels
  <2>3. time[c] < next[c].reset /\ next[c].reset <= time[c] + Window
    BY <2>2 DEF Windowed
  <2>4. next[c] \in [count : Nat, reset : Nat] /\ time[c] \in Nat
    BY BucketsPlain, LimitsAssumption DEF L!TypeOK
  <2> QED BY <2>3, <2>4, RetryIs
<1>6. L!TypeOK'
  <2>1. check' \in [L!RuleChecks -> {"idle", "asked", "counted", "storing"} \cup L!Settled]
    BY <1>2, <1>3 DEF L!TypeOK, L!Settled
  <2>2. wait' \in [L!RuleChecks -> 0 .. (Window + 1)]
    BY <1>2, <1>5, LimitsAssumption DEF L!TypeOK
  <2>3. next' \in [L!RuleChecks -> L!Buckets] /\ from' \in [L!RuleChecks -> {"nowhere", "object", "memory"}]
    BY <1>2, BucketsPlain DEF L!TypeOK
  <2> QED BY <1>2, <2>1, <2>2, <2>3 DEF L!TypeOK
<1>7. /\ AdmittedSound' /\ \A d \in L!RuleChecks \ {c} : CheckSound(d)'
      /\ \A q \in Rules : /\ Cardinality(Past(q)) <= Cardinality(Past(q)') /\ Cardinality(Ended(q)) <= Cardinality(Ended(q)')
                           /\ Cardinality(Past(q)) \in Nat /\ Cardinality(Ended(q)) \in Nat
                           /\ Cardinality(Past(q)') \in Nat /\ Cardinality(Ended(q)') \in Nat
  <2>1. check[c] \notin L!Settled /\ check[c] # "idle" /\ check'[c] # "idle" /\ check'[c] \notin {"asked", "storing"}
    BY <1>2, <1>3, <1>4 DEF L!Settled
  <2>2. UNCHANGED <<now, brought, reply>> /\ limitCrossed \subseteq limitCrossed' /\ limitMemory' = limitMemory
    BY <1>2
  <2> HIDE DEF LimitInv, LimitSound
  <2> QED BY <1>4, <2>1, <2>2, OneCheck
<1>8. CheckSound(c)'
  BY <1>1, <1>2, <1>3, <1>4 DEF CheckSound
<1>9. CountsSound'
  <2>1. \A q \in Rules : bucket[q].count \in Nat /\ limitMemory[q].count \in Nat
    BY BucketsPlain DEF L!TypeOK
  <2> QED BY <1>2, <1>7, <2>1 DEF CountsSound
<1>10. \A d \in L!RuleChecks \ {c} : check'[d] = check[d] /\ next'[d] = next[d] /\ from'[d] = from[d] /\ wait'[d] = wait[d]
  BY <1>2 DEF L!TypeOK
<1>11. \A q \in Rules : ObjectSet(q)' = ObjectSet(q) /\ MemorySet(q)' = MemorySet(q)
  BY <1>2, <1>3, <1>4, <1>10 DEF ObjectSet, MemorySet
<1>12. ASSUME NEW label \in Labels, ObjectLabels(label) PROVE ObjectLabels(label)'
  <2>1. ASSUME NEW q \in Rules PROVE Windowed(ObjectSet(q)', bucket'[q], label, time')
    BY <1>2, <1>11, <1>12 DEF ObjectLabels
  <2>2. ASSUME NEW d \in L!RuleChecks, check'[d] = "counted" PROVE next'[d] = label[d]
    BY <1>3, <1>4, <1>10, <1>12, <2>2 DEF ObjectLabels
  <2>3. ASSUME NEW d \in L!RuleChecks, from'[d] = "object"
        PROVE  \/ check'[d] = "allowed" /\ label[d].count <= Quota
               \/ check'[d] = "refused" /\ time'[d] + wait'[d] * Second >= label[d].reset
    <3>1. CASE d = c
      <4>1. next[c] = label[c]
        BY <1>2, <1>12 DEF ObjectLabels
      <4>2. L!Verdict(next[c]) = "refused" => wait'[c] = L!RetryAfter(next[c], time[c])
        BY <1>2 DEF L!TypeOK
      <4> QED BY <1>3, <1>4, <1>5, <3>1, <4>1, <4>2
    <3>2. CASE d # c
      BY <1>2, <1>10, <1>12, <2>3, <3>2 DEF ObjectLabels
    <3> QED BY <3>1, <3>2
  <2> QED BY <2>1, <2>2, <2>3 DEF ObjectLabels
<1>13. ASSUME NEW label \in Labels, MemoryLabels(label) PROVE MemoryLabels(label)'
  BY <1>2, <1>4, <1>10, <1>11, <1>13 DEF MemoryLabels
<1> QED BY <1>6, <1>7, <1>8, <1>9, <1>12, <1>13

\* The fetch fails.
LEMMA LimitMiss ==
  ASSUME LimitInv, NEW c \in L!RuleChecks, L!Miss(c)
  PROVE  LimitInv'
<1>1. /\ check[c] \in {"asked", "counted"} /\ L!FallBack({c})
      /\ UNCHANGED <<now, brought, bound, bucket, limitMemory, reply, limitCrossed>>
  BY DEF L!Miss
<1>2. reply' \in [RateRequests -> {"none", "checked", "admitted", "limited", "unavailable", "native"}]
  BY <1>1 DEF LimitInv, LimitSound, L!TypeOK
<1>3. reply[c[1]] # "none"
  BY <1>1 DEF LimitInv, LimitSound, CheckSound
<1>4. {c} \in SUBSET L!RuleChecks /\ \A d \in {c} : check[d] \in {"idle", "asked", "counted"}
  BY <1>1
<1>5. \A q \in RateRequests : /\ reply'[q] = "admitted" => reply[q] = "admitted"
                              /\ reply'[q] = "none" => reply[q] = "none" /\ \A d \in {c} : d[1] # q
  BY <1>1, <1>3
<1> QED BY <1>1, <1>2, <1>4, <1>5, LimitFallBack

\* The bucket in memory is written.
LEMMA LimitStore ==
  ASSUME LimitInv, NEW c \in L!RuleChecks, L!Store(c)
  PROVE  LimitInv'
<1> DEFINE r == c[2]
           k == next[c]
<1> USE DEF LimitInv, LimitSound
<1>1. c[1] \in RateRequests /\ r \in Rules /\ CheckSound(c)
  BY CheckRule
<1>2. /\ check[c] = "storing" /\ limitMemory' = [limitMemory EXCEPT ![r] = k] /\ check' = [check EXCEPT ![c] = L!Verdict(k)]
      /\ wait' = [wait EXCEPT ![c] = IF L!Verdict(k) = "refused" THEN L!RetryAfter(k, time[c]) ELSE 0]
      /\ from' = [from EXCEPT ![c] = "memory"] /\ next' = [next EXCEPT ![c] = L!Nothing]
      /\ UNCHANGED <<now, brought, bound, bucket, time, reply>>
  BY DEF L!Store
<1>3. /\ limitCrossed \subseteq limitCrossed' /\ limitCrossed' \subseteq limitCrossed \cup {r}
      /\ \A d \in L!RuleChecks \ {c} : d[2] = r /\ check[d] = "storing" => r \in limitCrossed'
  BY DEF L!Store
<1>4. L!Verdict(k) \in {"allowed", "refused"} /\ (L!Verdict(k) = "allowed" => k.count <= Quota)
  BY DEF L!Verdict
<1>5. /\ check'[c] = L!Verdict(k) /\ from'[c] = "memory" /\ from[c] = "nowhere" /\ time'[c] = now /\ time[c] = now
      /\ check' = [check EXCEPT ![c] = check'[c]] /\ next' = [next EXCEPT ![c] = next'[c]]
      /\ from' = [from EXCEPT ![c] = from'[c]] /\ time' = [time EXCEPT ![c] = time'[c]]
  BY <1>1, <1>2 DEF L!TypeOK, CheckSound
<1>6. /\ k \in L!Buckets /\ k \in [count : Nat, reset : Nat] /\ now \in Nat /\ now < k.reset /\ k.reset <= now + Window
      /\ k.count <= Cardinality(Ended(r)) + 1 /\ r \notin FailClosed
      /\ (r \notin limitCrossed => k = L!Counted(limitMemory[r]))
  BY <1>1, <1>2, BucketsPlain, LimitsAssumption DEF L!TypeOK, CheckSound
<1>7. L!RetryAfter(k, time[c]) \in 1 .. Window
  BY <1>5, <1>6, RetryIs
<1> HIDE DEF k, r
<1>8. L!TypeOK'
  <2>1. check' \in [L!RuleChecks -> {"idle", "asked", "counted", "storing"} \cup L!Settled]
    BY <1>2, <1>4 DEF L!TypeOK, L!Settled
  <2>2. wait' \in [L!RuleChecks -> 0 .. (Window + 1)]
    BY <1>2, <1>7, LimitsAssumption DEF L!TypeOK
  <2>3. next' \in [L!RuleChecks -> L!Buckets] /\ from' \in [L!RuleChecks -> {"nowhere", "object", "memory"}]
    BY <1>2, BucketsPlain DEF L!TypeOK
  <2>4. limitMemory' \in [Rules -> L!Buckets] /\ limitCrossed' \subseteq Rules
    BY <1>1, <1>2, <1>3, <1>6 DEF L!TypeOK
  <2> QED BY <1>2, <2>1, <2>2, <2>3, <2>4 DEF L!TypeOK
<1>9. \A d \in L!RuleChecks \ {c} : check'[d] = check[d] /\ next'[d] = next[d] /\ from'[d] = from[d] /\ wait'[d] = wait[d]
  BY <1>2 DEF L!TypeOK
<1>10. /\ limitMemory'[r] = k /\ \A q \in Rules \ {r} : limitMemory'[q] = limitMemory[q]
  BY <1>1, <1>2 DEF L!TypeOK
<1>11. /\ AdmittedSound' /\ \A d \in L!RuleChecks \ {c} : CheckSound(d)'
       /\ \A q \in Rules : /\ Cardinality(Past(q)) <= Cardinality(Past(q)') /\ Cardinality(Ended(q)) <= Cardinality(Ended(q)')
                            /\ Cardinality(Past(q)) \in Nat /\ Cardinality(Ended(q)) \in Nat
                            /\ Cardinality(Past(q)') \in Nat /\ Cardinality(Ended(q)') \in Nat
  <2>1. check[c] \notin L!Settled /\ check[c] # "idle" /\ check'[c] # "idle" /\ check'[c] \notin {"asked", "storing"}
    BY <1>2, <1>4, <1>5 DEF L!Settled
  <2>2. UNCHANGED <<now, brought, reply>> /\ limitCrossed \subseteq limitCrossed'
    BY <1>2, <1>3
  <2>3. \A d \in L!RuleChecks \ {c} : check[d] = "storing" /\ d[2] \notin limitCrossed' => limitMemory'[d[2]] = limitMemory[d[2]]
    BY <1>3, <1>10, CheckRule
  <2> HIDE DEF LimitInv, LimitSound
  <2> QED BY <1>5, <2>1, <2>2, <2>3, OneCheck
<1>12. CheckSound(c)'
  BY <1>1, <1>2, <1>4, <1>5, <1>6 DEF CheckSound, r
<1>13. CountsSound'
  <2>1. \A q \in Rules : bucket[q].count \in Nat /\ limitMemory[q].count \in Nat
    BY BucketsPlain DEF L!TypeOK
  <2>2. /\ Ended(r)' = Ended(r) \cup {c} /\ Ended(r) \in SUBSET {d \in L!RuleChecks : d[2] = r} /\ c \in L!RuleChecks \ Ended(r)
    BY <1>2, <1>4, <1>5, <1>9 DEF Ended, L!Settled, r
  <2>3. Cardinality(Ended(r)') = Cardinality(Ended(r)) + 1
    BY <1>1, <2>2, RuleGrows DEF r
  <2>4. ASSUME NEW q \in Rules
        PROVE  /\ bucket[q].reset <= now + Window /\ limitMemory'[q].reset <= now + Window
               /\ bucket[q].count <= Cardinality(Past(q)') /\ limitMemory'[q].count <= Cardinality(Ended(q)')
    <3>1. CASE q = r
      BY <1>6, <1>10, <1>11, <2>1, <2>3, <3>1 DEF CountsSound
    <3>2. CASE q # r
      BY <1>10, <1>11, <2>1, <3>2 DEF CountsSound
    <3> QED BY <3>1, <3>2
  <2> QED BY <1>2, <2>4 DEF CountsSound
<1>14. /\ MemorySet(r)' = MemorySet(r) \cup {c} /\ c \notin MemorySet(r) /\ MemorySet(r) \subseteq L!RuleChecks
       /\ \A q \in Rules : ObjectSet(q)' = ObjectSet(q) /\ c \notin ObjectSet(q)
                           /\ (q # r => MemorySet(q)' = MemorySet(q) /\ c \notin MemorySet(q))
  BY <1>2, <1>4, <1>5, <1>9 DEF ObjectSet, MemorySet, r
<1>15. ASSUME NEW label \in Labels, ObjectLabels(label) PROVE ObjectLabels(label)'
  <2>1. ASSUME NEW q \in Rules PROVE Windowed(ObjectSet(q)', bucket'[q], label, time')
    BY <1>2, <1>14, <1>15 DEF ObjectLabels
  <2>2. ASSUME NEW d \in L!RuleChecks, check'[d] = "counted" PROVE next'[d] = label[d]
    BY <1>4, <1>5, <1>9, <1>15, <2>2 DEF ObjectLabels
  <2>3. ASSUME NEW d \in L!RuleChecks, from'[d] = "object"
        PROVE  \/ check'[d] = "allowed" /\ label[d].count <= Quota
               \/ check'[d] = "refused" /\ time'[d] + wait'[d] * Second >= label[d].reset
    <3>1. d # c
      BY <1>5, <2>3
    <3> QED BY <1>2, <1>9, <1>15, <2>3, <3>1 DEF ObjectLabels
  <2> QED BY <2>1, <2>2, <2>3 DEF ObjectLabels
<1>16. ASSUME NEW label \in Labels, MemoryLabels(label)
       PROVE  \E label2 \in Labels : MemoryLabels(label2)'
  <2>0. PICK label2 \in Labels : label2 = [label EXCEPT ![c] = k]
    BY <1>6 DEF Labels
  <2>1. label2 \in Labels /\ label2[c] = k /\ \A d \in L!RuleChecks \ {c} : label2[d] = label[d]
    BY <2>0 DEF Labels
  <2>2. ASSUME NEW q \in Rules \ limitCrossed' PROVE Windowed(MemorySet(q)', limitMemory'[q], label2, time')
    <3>1. Windowed(MemorySet(q), limitMemory[q], label, time) /\ time' = time
      BY <1>2, <1>3, <1>16 DEF MemoryLabels
    <3>2. CASE q = r
      <4>1. k = L!Counted(limitMemory[r]) /\ limitMemory[r] \in [count : Nat, reset : Nat] /\ limitMemory[r].reset <= now + Window
        BY <1>1, <1>3, <1>6, <2>2, <3>2, BucketsPlain DEF L!TypeOK, CountsSound
      <4>2. time \in [L!RuleChecks -> Nat]
        BY LimitsAssumption DEF L!TypeOK
      <4>3. Windowed(MemorySet(r) \cup {c}, L!Counted(limitMemory[r]), [label EXCEPT ![c] = L!Counted(limitMemory[r])], [time EXCEPT ![c] = now])
        BY <1>6, <1>14, <3>1, <3>2, <4>1, <4>2, WindowedExtend
      <4>4. [time EXCEPT ![c] = now] = time
        BY <1>5, <4>2
      <4> QED BY <1>10, <1>14, <2>0, <3>1, <3>2, <4>1, <4>3, <4>4
    <3>3. CASE q # r
      <4>1. limitMemory'[q] = limitMemory[q] /\ MemorySet(q)' = MemorySet(q)
        BY <1>10, <1>14, <3>3
      <4>2. \A d \in MemorySet(q) : time'[d] = time[d] /\ label2[d] = label[d]
        BY <1>14, <2>1, <3>1, <3>3 DEF MemorySet
      <4> QED BY <3>1, <4>1, <4>2, WindowedFrame
    <3> QED BY <3>2, <3>3
  <2>3. ASSUME NEW d \in L!RuleChecks, from'[d] = "memory", d[2] \notin limitCrossed', check'[d] = "allowed" PROVE label2[d].count <= Quota
    <3>1. CASE d = c
      BY <1>4, <1>5, <2>1, <2>3, <3>1
    <3>2. CASE d # c
      BY <1>3, <1>9, <1>16, <2>1, <2>3, <3>2 DEF MemoryLabels
    <3> QED BY <3>1, <3>2
  <2>4. MemoryLabels(label2)'
    BY <2>1, <2>2, <2>3 DEF MemoryLabels
  <2> QED BY <2>1, <2>4
<1> QED BY <1>8, <1>11, <1>12, <1>13, <1>15, <1>16

\* Every check that was allowed carries the window in which it was counted;
\* the windows of a bucket do not overlap and count each check once.
THEOREM LimitInvariance == L!Spec => []LimitInv
<1>1. L!Init => LimitInv
  BY LimitInit
<1>2. LimitInv /\ [L!Next]_(L!vars) => LimitInv'
  <2> SUFFICES ASSUME LimitInv, [L!Next]_(L!vars) PROVE LimitInv'
    OBVIOUS
  <2>1. CASE L!Tick \/ \E q \in RateRequests : L!Answer(q) \/ L!Native(q)
    BY <2>1, LimitAnswers
  <2>2. CASE \E q \in RateRequests : L!Enforce(q)
    BY <2>2, LimitEnforce
  <2>3. ASSUME NEW c \in brought, L!Serve(c) \/ L!Hear(c) \/ L!Miss(c) \/ L!Store(c) PROVE LimitInv'
    <3>1. c \in L!RuleChecks
      BY <2>3, LimitsAssumption DEF LimitInv, LimitSound, L!TypeOK, L!RuleChecks
    <3> QED BY <2>3, <3>1, LimitServe, LimitHear, LimitMiss, LimitStore
  <2>4. CASE UNCHANGED L!vars
    <3> USE <2>4 DEF L!vars, L!checkVars
    <3>1. L!TypeOK' /\ AdmittedSound' /\ CountsSound'
      BY DEF LimitInv, LimitSound, L!TypeOK, AdmittedSound, L!ChecksOf, CountsSound, Past, Ended
    <3>2. \A c \in L!RuleChecks : CheckSound(c)'
      BY DEF LimitInv, LimitSound, CheckSound, L!Counted, L!Active, Ended
    <3>3. \A label \in Labels : /\ ObjectLabels(label) => ObjectLabels(label)'
                                /\ MemoryLabels(label) => MemoryLabels(label)'
      BY DEF ObjectLabels, MemoryLabels, ObjectSet, MemorySet, Windowed
    <3> QED BY <3>1, <3>2, <3>3 DEF LimitInv, LimitSound
  <2> QED BY <2>1, <2>2, <2>3, <2>4 DEF L!Next
<1> QED BY <1>1, <1>2, PTL DEF L!Spec

\* A quota is worth what it says.
LEMMA SpansAreHeld == LimitInv => L!SpansHold
<1> SUFFICES ASSUME LimitInv, NEW r \in Rules, NEW t \in 0 .. Horizon
             PROVE  /\ Cardinality(L!AllowedIn(r, t, "object")) <= 2 * Quota
                    /\ r \notin limitCrossed => Cardinality(L!AllowedIn(r, t, "memory")) <= 2 * Quota
  BY LimitCount DEF L!SpansHold
<1> USE DEF LimitInv, LimitSound
<1>1. t \in Nat /\ time \in [L!RuleChecks -> Nat]
  BY LimitsAssumption DEF L!TypeOK
<1>2. Cardinality(L!AllowedIn(r, t, "object")) <= 2 * Quota
  <2> DEFINE A == L!AllowedIn(r, t, "object")
  <2>1. PICK label \in Labels : ObjectLabels(label)
    OBVIOUS
  <2>2. Windowed(ObjectSet(r), bucket[r], label, time)
    BY <2>1 DEF ObjectLabels
  <2>3. A \in SUBSET ObjectSet(r) /\ ObjectSet(r) \in SUBSET L!RuleChecks
    BY DEF L!AllowedIn, ObjectSet
  <2>4. \A c \in A : label[c].count <= Quota /\ time[c] \in t .. (t + Window - 1)
    BY <2>1 DEF L!AllowedIn, ObjectLabels
  <2> HIDE DEF A
  <2>5. Cardinality(A) <= 2 * Quota
    BY <1>1, <2>2, <2>3, <2>4, WindowedSpan
  <2> QED BY <2>5 DEF A
<1>3. ASSUME r \notin limitCrossed PROVE Cardinality(L!AllowedIn(r, t, "memory")) <= 2 * Quota
  <2> DEFINE A == L!AllowedIn(r, t, "memory")
  <2>1. PICK label \in Labels : MemoryLabels(label)
    OBVIOUS
  <2>2. Windowed(MemorySet(r), limitMemory[r], label, time)
    BY <1>3, <2>1 DEF MemoryLabels
  <2>3. A \in SUBSET MemorySet(r) /\ MemorySet(r) \in SUBSET L!RuleChecks
    BY DEF L!AllowedIn, MemorySet
  <2>4. \A c \in A : label[c].count <= Quota /\ time[c] \in t .. (t + Window - 1)
    BY <1>3, <2>1 DEF L!AllowedIn, MemoryLabels
  <2> HIDE DEF A
  <2>5. Cardinality(A) <= 2 * Quota
    BY <1>1, <2>2, <2>3, <2>4, WindowedSpan
  <2> QED BY <2>5 DEF A
<1> QED BY <1>2, <1>3

LEMMA LimitsFollow == LimitInv => L!LimitsHold
<1> SUFFICES ASSUME LimitInv PROVE L!LimitsHold
  OBVIOUS
<1> USE DEF LimitInv, LimitSound
<1>1. L!SpansHold
  BY SpansAreHeld
<1>2. L!ClosedHolds
  <2> SUFFICES ASSUME NEW q \in RateRequests, reply[q] = "admitted", NEW c \in L!ChecksOf(q), c[2] \in FailClosed
               PROVE  check[c] = "allowed" /\ from[c] = "object"
    BY DEF L!ClosedHolds
  <2>1. c \in L!RuleChecks
    BY LimitsAssumption DEF L!ChecksOf, L!TypeOK, L!RuleChecks
  <2>2. check[c] = "allowed" /\ CheckSound(c)
    BY <2>1 DEF AdmittedSound
  <2> QED BY <2>1, <2>2 DEF CheckSound, L!TypeOK
<1>3. L!RetryHelps
  <2> SUFFICES ASSUME NEW c \in L!RuleChecks, check[c] = "refused", from[c] = "object",
                      now >= time[c] + wait[c] * Second, bucket[c[2]].reset > now
               PROVE  bucket[c[2]].reset - Window > time[c]
    BY DEF L!RetryHelps
  <2>1. PICK label \in Labels : ObjectLabels(label)
    OBVIOUS
  <2>2. c[2] \in Rules /\ c \in ObjectSet(c[2])
    BY CheckRule DEF ObjectSet
  <2>3. /\ time[c] < label[c].reset
        /\ label[c].reset = bucket[c[2]].reset \/ label[c].reset + Window <= bucket[c[2]].reset
        /\ time[c] + wait[c] * Second >= label[c].reset
    BY <2>1, <2>2 DEF ObjectLabels, Windowed
  <2>4. /\ label[c].reset \in Nat /\ bucket[c[2]].reset \in Nat /\ time[c] \in Nat /\ now \in Nat /\ wait[c] \in Nat
    BY <2>2, BucketsPlain, LimitsAssumption DEF L!TypeOK, Labels
  <2>5. wait[c] * Second \in Nat
    BY <2>4, LimitsAssumption
  <2> QED BY <2>3, <2>4, <2>5, LimitsAssumption
<1> QED BY <1>1, <1>2, <1>3 DEF L!LimitsHold

\* No stretch of time as long as a window sees more than two quotas allowed,
\* rules that fail closed admit by the object alone, and a wait that was
\* answered is enough (updateBucket, checkRule).
THEOREM LimitsAreHeld == L!Spec => []L!LimitsHold
BY LimitInvariance, LimitsFollow, PTL

\* Buckets, checks and requests keep to their types.
THEOREM LimitsType == L!Spec => []L!TypeOK
<1>1. LimitInv => L!TypeOK
  BY DEF LimitInv, LimitSound
<1> QED BY <1>1, LimitInvariance, PTL

-----------------------------------------------------------------------------
(* The parts side by side (MCAccounts).                                  *)

\* A behavior is one of the part that its first state chooses, and the sign-ins
\* rest in it when they are not chosen.
LEMMA SessionsRun == MCSpec => Spec
<1>1. MCInit => Init
  BY DEF MCInit
<1>2. [MCNext]_mcVars => [Next]_vars
  BY DEF MCNext, mcVars
<1> QED BY <1>1, <1>2, PTL DEF MCSpec, Spec

LEMMA CodesRun == MCSpec => (R!Spec /\ [](part = "codes")) \/ [](~(part = "codes"))
<1>1. MCInit /\ part = "codes" => R!Init
  BY DEF MCInit
<1>2. part = "codes" /\ [MCNext]_mcVars => (part = "codes")' /\ [R!Next]_(R!vars)
  BY DEF MCNext, mcVars, codeVars, R!vars, R!useVars, R!pageVars
<1>3. ~(part = "codes") /\ [MCNext]_mcVars => ~((part = "codes")')
  BY DEF MCNext, mcVars
<1> QED BY <1>1, <1>2, <1>3, PTL DEF MCSpec, R!Spec

LEMMA MasterKeysRun == MCSpec => (K!Spec /\ [](part = "keys")) \/ [](~(part = "keys"))
<1>1. MCInit /\ part = "keys" => K!Init
  BY DEF MCInit
<1>2. part = "keys" /\ [MCNext]_mcVars => (part = "keys")' /\ [K!Next]_(K!vars)
  BY DEF MCNext, mcVars, masterKeyVars, K!vars, K!browserVars, K!tabVars, K!serverVars
<1>3. ~(part = "keys") /\ [MCNext]_mcVars => ~((part = "keys")')
  BY DEF MCNext, mcVars
<1> QED BY <1>1, <1>2, <1>3, PTL DEF MCSpec, K!Spec

LEMMA RegistrationRun == MCSpec => (N!Spec /\ [](part = "registration")) \/ [](~(part = "registration"))
<1>1. MCInit /\ part = "registration" => N!Init
  BY DEF MCInit
<1>2. part = "registration" /\ [MCNext]_mcVars => (part = "registration")' /\ [N!Next]_(N!vars)
  BY DEF MCNext, mcVars, registrationVars, N!vars, N!rowVars, N!pageVars
<1>3. ~(part = "registration") /\ [MCNext]_mcVars => ~((part = "registration")')
  BY DEF MCNext, mcVars
<1> QED BY <1>1, <1>2, <1>3, PTL DEF MCSpec, N!Spec

LEMMA IdentitiesRun == MCSpec => (I!Spec /\ [](part = "identities")) \/ [](~(part = "identities"))
<1>1. MCInit /\ part = "identities" => I!Init
  BY DEF MCInit
<1>2. part = "identities" /\ [MCNext]_mcVars => (part = "identities")' /\ [I!Next]_(I!vars)
  BY DEF MCNext, mcVars, identityVars, I!vars, I!rowVars, I!requestVars, I!historyVars
<1>3. ~(part = "identities") /\ [MCNext]_mcVars => ~((part = "identities")')
  BY DEF MCNext, mcVars
<1> QED BY <1>1, <1>2, <1>3, PTL DEF MCSpec, I!Spec

LEMMA EmailRun == MCSpec => (E!Spec /\ [](part = "email")) \/ [](~(part = "email"))
<1>1. MCInit /\ part = "email" => E!Init
  BY DEF MCInit
<1>2. part = "email" /\ [MCNext]_mcVars => (part = "email")' /\ [E!Next]_(E!vars)
  BY DEF MCNext, mcVars, emailVars, E!vars, E!requestVars, E!historyVars
<1>3. ~(part = "email") /\ [MCNext]_mcVars => ~((part = "email")')
  BY DEF MCNext, mcVars
<1> QED BY <1>1, <1>2, <1>3, PTL DEF MCSpec, E!Spec

LEMMA SocketsRun == MCSpec => (W!Spec /\ [](part = "sockets")) \/ [](~(part = "sockets"))
<1>1. MCInit /\ part = "sockets" => W!Init
  BY DEF MCInit
<1>2. part = "sockets" /\ [MCNext]_mcVars => (part = "sockets")' /\ [W!Next]_(W!vars)
  BY DEF MCNext, mcVars, socketVars, W!vars, W!pageVars, W!serverVars, W!historyVars
<1>3. ~(part = "sockets") /\ [MCNext]_mcVars => ~((part = "sockets")')
  BY DEF MCNext, mcVars
<1> QED BY <1>1, <1>2, <1>3, PTL DEF MCSpec, W!Spec

LEMMA SigningRun == MCSpec => (S!Spec /\ [](part = "signing")) \/ [](~(part = "signing"))
<1>1. MCInit /\ part = "signing" => S!Init
  BY DEF MCInit
<1>2. part = "signing" /\ [MCNext]_mcVars => (part = "signing")' /\ [S!Next]_(S!vars)
  BY DEF MCNext, mcVars, signingVars, S!vars, S!serverVars
<1>3. ~(part = "signing") /\ [MCNext]_mcVars => ~((part = "signing")')
  BY DEF MCNext, mcVars
<1> QED BY <1>1, <1>2, <1>3, PTL DEF MCSpec, S!Spec

LEMMA LimitsRun == MCSpec => (L!Spec /\ [](part = "limits")) \/ [](~(part = "limits"))
<1>1. MCInit /\ part = "limits" => L!Init
  BY DEF MCInit
<1>2. part = "limits" /\ [MCNext]_mcVars => (part = "limits")' /\ [L!Next]_(L!vars)
  BY DEF MCNext, mcVars, limitVars, L!vars, L!checkVars
<1>3. ~(part = "limits") /\ [MCNext]_mcVars => ~((part = "limits")')
  BY DEF MCNext, mcVars
<1> QED BY <1>1, <1>2, <1>3, PTL DEF MCSpec, L!Spec

LEMMA PicturesRun == MCSpec => (P!Spec /\ [](part = "pictures")) \/ [](~(part = "pictures"))
<1>1. MCInit /\ part = "pictures" => P!Init
  BY DEF MCInit
<1>2. part = "pictures" /\ [MCNext]_mcVars => (part = "pictures")' /\ [P!Next]_(P!vars)
  BY DEF MCNext, mcVars, pictureVars, P!vars, P!rowVars, P!requestVars, P!pageVars, P!historyVars
<1>3. ~(part = "pictures") /\ [MCNext]_mcVars => ~((part = "pictures")')
  BY DEF MCNext, mcVars
<1> QED BY <1>1, <1>2, <1>3, PTL DEF MCSpec, P!Spec

\* Every part keeps to the types of its tables, pages and handlers.
THEOREM AccountTypes == MCSpec => []TypesOK
<1>0. MCSpec => []TypeOK
  <2>1. SessionInv => TypeOK
    BY DEF SessionInv
  <2> QED BY <2>1, SessionsRun, SessionInvariance, PTL
<1>1. MCSpec => [](part = "codes" => R!TypeOK)
  <2>1. CodesInv => R!TypeOK
    BY DEF CodesInv
  <2> QED BY <2>1, CodesRun, CodesInvariance, PTL
<1>2. MCSpec => [](part = "keys" => K!TypeOK)
  <2>1. MasterKeyInv => K!TypeOK
    BY DEF MasterKeyInv, KeyTabs
  <2> QED BY <2>1, MasterKeysRun, MasterKeyInvariance, PTL
<1>3. MCSpec => [](part = "registration" => N!TypeOK)
  <2>1. RegInv => N!TypeOK
    BY DEF RegInv
  <2> QED BY <2>1, RegistrationRun, RegInvariance, PTL
<1>4. MCSpec => [](part = "identities" => I!TypeOK)
  <2>1. IdentityInv => I!TypeOK
    BY DEF IdentityInv
  <2> QED BY <2>1, IdentitiesRun, IdentityInvariance, PTL
<1>5. MCSpec => [](part = "email" => E!TypeOK)
  <2>1. EmailInv => E!TypeOK
    BY DEF EmailInv
  <2> QED BY <2>1, EmailRun, EmailInvariance, PTL
<1>6. MCSpec => [](part = "sockets" => W!TypeOK)
  <2>1. SocketInv => W!TypeOK
    BY DEF SocketInv
  <2> QED BY <2>1, SocketsRun, SocketInvariance, PTL
<1>7. MCSpec => [](part = "signing" => S!TypeOK)
  <2>1. SigningInv => S!TypeOK
    BY DEF SigningInv
  <2> QED BY <2>1, SigningRun, SigningInvariance, PTL
<1>8. MCSpec => [](part = "limits" => L!TypeOK)
  <2>1. LimitInv => L!TypeOK
    BY DEF LimitInv, LimitSound
  <2> QED BY <2>1, LimitsRun, LimitInvariance, PTL
<1>9. MCSpec => [](part = "pictures" => P!TypeOK)
  <2>1. PictureInv => P!TypeOK
    BY DEF PictureInv
  <2> QED BY <2>1, PicturesRun, PictureInvariance, PTL
<1>10. /\ TypeOK
       /\ (part = "codes" => R!TypeOK)
       /\ (part = "keys" => K!TypeOK)
       /\ (part = "registration" => N!TypeOK)
       /\ (part = "identities" => I!TypeOK)
       /\ (part = "email" => E!TypeOK)
       /\ (part = "sockets" => W!TypeOK)
       /\ (part = "signing" => S!TypeOK)
       /\ (part = "limits" => L!TypeOK)
       /\ (part = "pictures" => P!TypeOK)
       => TypesOK
  BY DEF TypesOK
<1> QED BY <1>0, <1>1, <1>2, <1>3, <1>4, <1>5, <1>6, <1>7, <1>8, <1>9, <1>10, PTL

\* A recovery code is spent once, and a verified address is one a code came
\* back from (UPDATE ... WHERE used = false; the code's hash and its row).
THEOREM CodesDoProve == MCSpec => []CodesProve
<1>1. MCSpec => [](part = "codes" => R!CodeSpentOnce)
  BY CodesRun, CodesAreSpentOnce, PTL
<1>2. MCSpec => [](part = "email" => E!VerifiedWasMailed)
  BY EmailRun, VerifiedIsMailed, PTL
<1>3. /\ (part = "codes" => R!CodeSpentOnce)
      /\ (part = "email" => E!VerifiedWasMailed)
      => CodesProve
  BY DEF CodesProve
<1> QED BY <1>1, <1>2, <1>3, PTL

\* What the server keeps for an account is encrypted with its own master key
\* when the browser is left to one account at a time (lib/crypto.ts,
\* clearMasterKey).
THEOREM AccountsKeepKeysApart == MCSpec => []KeysStayApart
<1>1. MCSpec => [](part = "keys" => K!KeysStayApart)
  BY MasterKeysRun, KeysAreApart, PTL
<1>2. (part = "keys" => K!KeysStayApart) => KeysStayApart
  BY DEF KeysStayApart
<1> QED BY <1>1, <1>2, PTL

\* An account is there as a whole or not at all, its identities have one
\* primary, and the pictures its rows name are in the bucket.
THEOREM AccountsAreWhole == MCSpec => []AccountWhole
<1>1. MCSpec => [](part = "registration" => N!AccountWhole)
  BY RegistrationRun, AccountIsWhole, PTL
<1>2. MCSpec => [](part = "identities" => I!PrimaryExact)
  BY IdentitiesRun, PrimaryIsExact, PTL
<1>3. MCSpec => [](part = "pictures" => P!PicturesStand)
  BY PicturesRun, PicturesAreThere, PTL
<1>4. /\ (part = "registration" => N!AccountWhole)
      /\ (part = "identities" => I!PrimaryExact)
      /\ (part = "pictures" => P!PicturesStand)
      => AccountWhole
  BY DEF AccountWhole
<1> QED BY <1>1, <1>2, <1>3, <1>4, PTL

\* What the host of a signing page is told is what the server keeps.
THEOREM HostsHearTruth == MCSpec => []HostHearsTruth
<1>1. MCSpec => [](part = "signing" => S!HostHearsTruth)
  BY SigningRun, HostHearsTheTruth, PTL
<1>2. (part = "signing" => S!HostHearsTruth) => HostHearsTruth
  BY DEF HostHearsTruth
<1> QED BY <1>1, <1>2, PTL

\* What nobody overlapped stands: recovery codes, mailings, pictures, the web
\* socket of a page and the quotas of rate limits.
THEOREM LoneRequestsDoKeep == MCSpec => []LoneRequestsKeep
<1>1. MCSpec => [](part = "codes" => R!LoneSetOpens)
  BY CodesRun, LoneSetsOpen, PTL
<1>2. MCSpec => [](part = "email" => E!LastMailingStands)
  BY EmailRun, LastMailingIsKept, PTL
<1>3. MCSpec => [](part = "pictures" => P!LoneChangesShown)
  BY PicturesRun, LoneChangesAreShown, PTL
<1>4. MCSpec => [](part = "sockets" => W!PageListens)
  BY SocketsRun, PageIsHeard, PTL
<1>5. MCSpec => [](part = "limits" => L!LimitsHold)
  BY LimitsRun, LimitsAreHeld, PTL
<1>6. /\ (part = "codes" => R!LoneSetOpens)
      /\ (part = "email" => E!LastMailingStands)
      /\ (part = "pictures" => P!LoneChangesShown)
      /\ (part = "sockets" => W!PageListens)
      /\ (part = "limits" => L!LimitsHold)
      => LoneRequestsKeep
  BY DEF LoneRequestsKeep
<1> QED BY <1>1, <1>2, <1>3, <1>4, <1>5, <1>6, PTL
=============================================================================
