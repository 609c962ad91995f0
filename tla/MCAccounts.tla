------------------------------ MODULE MCAccounts ------------------------------
(* What belongs to one account or one browser, side by side on small         *)
(* instances: the parts share no state, and the first state chooses one.     *)
EXTENDS SignInSessions, TLC

CONSTANTS
  Pages, Indices, Uses, Accounts, Tabs, Apart, Tries, Old, First, Creations,
  Choices, IdentityDeletions, Limit, Emails, Mailings, Checks, Clears,
  Sockets, Clients, Request, SigningKeys, LegacyKey, RateRequests, Rules,
  Traffic, FailClosed, Quota, Window, Second, Horizon, PictureIds, Before,
  Uploads, Removals, Color

VARIABLES
  part,
  rows, backup, pc, upc, entered, got, disturbed,
  cookie, stored, mark, signed, memory, keyPc, who, key, known, keyBackup,
  prf, wrapped, unclean,
  regChallenge, made, sent, shown, regPc, user, identity, passkey,
  regSession, stranded,
  idRows, primary, idPc, target, empty, met, doubtful,
  row, mailPc, read, to, typed, arrived, expected, mailCrossed,
  socketCookie, store, waiting, ws, config, timer, ping, connected, state,
  kind, server, socketWho, reading, clients, subscriber, doubled,
  socketCrossed,
  status, signature, overdue, signKey, firstRow, signPc, req, arg,
  generated, current, lostKey, contested, screen, embedded, signShown, call,
  signSent, making, master, heard,
  now, brought, bound, bucket, limitMemory, check, next, from, time, wait,
  reply, limitCrossed,
  pic, picStored, picPc, at, old, open, picShown, picGot, meant, moved,
  lost, picDoubtful

codeVars ==
  <<rows, backup, pc, upc, entered, got, disturbed>>
masterKeyVars ==
  <<cookie, stored, mark, signed, memory, keyPc, who, key, known, keyBackup,
    prf, wrapped, unclean>>
registrationVars ==
  <<regChallenge, made, sent, shown, regPc, user, identity, passkey,
    regSession, stranded>>
identityVars ==
  <<idRows, primary, idPc, target, empty, met, doubtful>>
emailVars ==
  <<row, mailPc, read, to, typed, arrived, expected, mailCrossed>>
socketVars ==
  <<socketCookie, store, waiting, ws, config, timer, ping, connected, state,
    kind, server, socketWho, reading, clients, subscriber, doubled,
    socketCrossed>>
signingVars ==
  <<status, signature, overdue, signKey, firstRow, signPc, req, arg,
    generated, current, lostKey, contested, screen, embedded, signShown,
    call, signSent, making, master, heard>>
limitVars ==
  <<now, brought, bound, bucket, limitMemory, check, next, from, time, wait,
    reply, limitCrossed>>
pictureVars ==
  <<pic, picStored, picPc, at, old, open, picShown, picGot, meant, moved,
    lost, picDoubtful>>

R == INSTANCE RecoveryCodes
K == INSTANCE MasterKeys WITH
       pc <- keyPc, backup <- keyBackup
N == INSTANCE Registration WITH
       challenge <- regChallenge, pc <- regPc, session <- regSession
I == INSTANCE Identities WITH
       Deletions <- IdentityDeletions, rows <- idRows, pc <- idPc
E == INSTANCE EmailVerification WITH
       pc <- mailPc, crossed <- mailCrossed
W == INSTANCE Sockets WITH
       cookie <- socketCookie, who <- socketWho, crossed <- socketCrossed
S == INSTANCE SigningPage WITH
       Keys <- SigningKeys, key <- signKey, pc <- signPc,
       shown <- signShown, sent <- signSent
L == INSTANCE RateLimits WITH
       Requests <- RateRequests, memory <- limitMemory,
       crossed <- limitCrossed
P == INSTANCE Pictures WITH
       Ids <- PictureIds, stored <- picStored, pc <- picPc,
       shown <- picShown, got <- picGot, doubtful <- picDoubtful

\* Requests of one kind are none of another kind, and nobody is no request; a page
\* has any number of tries.
ASSUME RegistrationAssumption == None \notin N!Requests /\ Tries \in Nat

\* The account starts with its first identity (Registration).
ASSUME IdentitiesAssumption ==
  /\ First \in Old
  /\ Creations \cap (Choices \cup IdentityDeletions) = {}

ASSUME EmailAssumption ==
  Mailings \cap Checks = {} /\ Mailings \cap Clears = {} /\ Checks \cap Clears = {}

\* There is an identity, and a file is the one of a single request; a color and
\* nothing are no files.
ASSUME PicturesAssumption ==
  /\ IsFiniteSet(PictureIds) /\ PictureIds # {}
  /\ Before \cap Uploads = {} /\ Uploads \cap Removals = {}
  /\ Color \notin P!Files /\ None \notin P!Files

\* Nobody is no account; Apart says how the browser is used (MasterKeys).
ASSUME MasterKeysAssumption == None \notin Accounts /\ Apart \in BOOLEAN

ASSUME SocketsAssumption == None \notin Accounts \cup Sockets \cup {"user", "request"}

\* A row with no key, or with one of an earlier kind, has none of those that are made;
\* a page is not another device.
ASSUME SigningAssumption ==
  /\ LegacyKey \notin SigningKeys /\ None \notin SigningKeys
  /\ None # LegacyKey /\ None # Request
  /\ Pages \cap Clients = {} /\ \A p \in Pages : S!Maker(p) \notin Pages \cup Clients

ASSUME LimitsAssumption ==
  /\ IsFiniteSet(RateRequests) /\ Traffic \subseteq SUBSET (RateRequests \X Rules)
  /\ Quota \in Nat /\ Window \in Nat \ {0} /\ Second \in Nat \ {0}
  /\ Horizon \in Nat \ {0}

\* Sign-ins, pages, uses of a code, tabs, mailings, uploads and sockets are named by
\* the same values, so that one permutation serves all parts; none is told apart.
Symmetry == Permutations(Uploads)

\* Bound: a second page is opened to sign, or a second signing key is made, not both.
OnePageOrKey ==
  part = "signing" =>
    \/ \E p \in Pages : screen[p] = "closed"
    \/ \A k, l \in generated : k = l

\* What requests bring: all of them one rule or some the other, or one of them both.
SomeTraffic ==
  {RateRequests \X {"open"}, Uploads \X {"closed"}, (RateRequests \ Uploads) \X Rules}

\* The variables of the parts that do not run stay None.
CodeIdle ==
  /\ rows = None /\ backup = None /\ pc = None /\ upc = None
  /\ entered = None /\ got = None /\ disturbed = None

MasterKeyIdle ==
  /\ cookie = None /\ stored = None /\ mark = None /\ signed = None
  /\ memory = None /\ keyPc = None /\ who = None /\ key = None
  /\ known = None /\ keyBackup = None /\ prf = None /\ wrapped = None
  /\ unclean = None

RegistrationIdle ==
  /\ regChallenge = None /\ made = None /\ sent = None /\ shown = None
  /\ regPc = None /\ user = None /\ identity = None /\ passkey = None
  /\ regSession = None /\ stranded = None

IdentityIdle ==
  /\ idRows = None /\ primary = None /\ idPc = None /\ target = None
  /\ empty = None /\ met = None /\ doubtful = None

EmailIdle ==
  /\ row = None /\ mailPc = None /\ read = None /\ to = None /\ typed = None
  /\ arrived = None /\ expected = None /\ mailCrossed = None

SocketIdle ==
  /\ socketCookie = None /\ store = None /\ waiting = None /\ ws = None
  /\ config = None /\ timer = None /\ ping = None /\ connected = None
  /\ state = None /\ kind = None /\ server = None /\ socketWho = None
  /\ reading = None /\ clients = None /\ subscriber = None /\ doubled = None
  /\ socketCrossed = None

SigningIdle ==
  /\ status = None /\ signature = None /\ overdue = None /\ signKey = None
  /\ firstRow = None /\ signPc = None /\ req = None /\ arg = None
  /\ generated = None /\ current = None /\ lostKey = None
  /\ contested = None /\ screen = None /\ embedded = None
  /\ signShown = None /\ call = None /\ signSent = None /\ making = None
  /\ master = None /\ heard = None

LimitIdle ==
  /\ now = None /\ brought = None /\ bound = None /\ bucket = None
  /\ limitMemory = None /\ check = None /\ next = None /\ from = None
  /\ time = None /\ wait = None /\ reply = None /\ limitCrossed = None

PictureIdle ==
  /\ pic = None /\ picStored = None /\ picPc = None /\ at = None
  /\ old = None /\ open = None /\ picShown = None /\ picGot = None
  /\ meant = None /\ moved = None /\ lost = None /\ picDoubtful = None

MCInit ==
  /\ part \in {"sessions", "codes", "keys", "registration", "identities", "email", "sockets", "signing", "limits", "pictures"}
  /\ Init
  /\ IF part = "codes" THEN R!Init ELSE CodeIdle
  /\ IF part = "keys" THEN K!Init ELSE MasterKeyIdle
  /\ IF part = "registration" THEN N!Init ELSE RegistrationIdle
  /\ IF part = "identities" THEN I!Init ELSE IdentityIdle
  /\ IF part = "email" THEN E!Init ELSE EmailIdle
  /\ IF part = "sockets" THEN W!Init ELSE SocketIdle
  /\ IF part = "signing" THEN S!Init /\ master = (signKey = None) ELSE SigningIdle
  /\ IF part = "limits" THEN L!Init ELSE LimitIdle
  /\ IF part = "pictures" THEN P!Init /\ pic[P!Unread] # None ELSE PictureIdle

MCNext ==
  /\ UNCHANGED part
  /\ \/ part = "sessions" /\ Next
        /\ UNCHANGED <<codeVars, masterKeyVars, registrationVars, identityVars, emailVars, socketVars, signingVars, limitVars, pictureVars>>
     \/ part = "codes" /\ R!Next
        /\ UNCHANGED <<vars, masterKeyVars, registrationVars, identityVars, emailVars, socketVars, signingVars, limitVars, pictureVars>>
     \/ part = "keys" /\ K!Next
        /\ UNCHANGED <<vars, codeVars, registrationVars, identityVars, emailVars, socketVars, signingVars, limitVars, pictureVars>>
     \/ part = "registration" /\ N!Next
        /\ UNCHANGED <<vars, codeVars, masterKeyVars, identityVars, emailVars, socketVars, signingVars, limitVars, pictureVars>>
     \/ part = "identities" /\ I!Next
        /\ UNCHANGED <<vars, codeVars, masterKeyVars, registrationVars, emailVars, socketVars, signingVars, limitVars, pictureVars>>
     \/ part = "email" /\ E!Next
        /\ UNCHANGED <<vars, codeVars, masterKeyVars, registrationVars, identityVars, socketVars, signingVars, limitVars, pictureVars>>
     \/ part = "sockets" /\ W!Next
        /\ UNCHANGED <<vars, codeVars, masterKeyVars, registrationVars, identityVars, emailVars, signingVars, limitVars, pictureVars>>
     \/ part = "signing" /\ S!Next
        /\ UNCHANGED <<vars, codeVars, masterKeyVars, registrationVars, identityVars, emailVars, socketVars, limitVars, pictureVars>>
     \/ part = "limits" /\ L!Next
        /\ UNCHANGED <<vars, codeVars, masterKeyVars, registrationVars, identityVars, emailVars, socketVars, signingVars, pictureVars>>
     \/ part = "pictures" /\ P!Next
        /\ UNCHANGED <<vars, codeVars, masterKeyVars, registrationVars, identityVars, emailVars, socketVars, signingVars, limitVars>>

mcVars ==
  <<part, vars, codeVars, masterKeyVars, registrationVars, identityVars,
    emailVars, socketVars, signingVars, limitVars, pictureVars>>

MCSpec == MCInit /\ [][MCNext]_mcVars

\* Each part keeps to the types of its tables, pages and handlers.
TypesOK ==
  /\ part = "sessions" => TypeOK
  /\ part = "codes" => R!TypeOK
  /\ part = "keys" => K!TypeOK
  /\ part = "registration" => N!TypeOK
  /\ part = "identities" => I!TypeOK
  /\ part = "email" => E!TypeOK
  /\ part = "sockets" => W!TypeOK
  /\ part = "signing" => S!TypeOK
  /\ part = "limits" => L!TypeOK
  /\ part = "pictures" => P!TypeOK

\* A recovery code is spent once, and a verified address is one a code came back
\* from.
CodesProve ==
  /\ part = "codes" => R!CodeSpentOnce
  /\ part = "email" => E!VerifiedWasMailed

\* What the server keeps for an account is encrypted with its own key.
KeysStayApart == part = "keys" => K!KeysStayApart

\* An account is there as a whole or not at all, with one primary identity, and the
\* pictures its rows name are in the bucket.
AccountWhole ==
  /\ part = "registration" => N!AccountWhole
  /\ part = "identities" => I!PrimaryExact
  /\ part = "pictures" => P!PicturesStand

\* What the host of a signing page is told is what the server keeps.
HostHearsTruth == part = "signing" => S!HostHearsTruth

\* What nobody overlapped stands: a set of recovery codes is the whole truth, a
\* mailing that fails takes nothing from the one before it, a page shows the
\* pictures it has changed, it hears of the requests for its account,
\* and checks of a rate limit that do not meet in the memory of the worker are held
\* to its quota.
LoneRequestsKeep ==
  /\ part = "codes" => R!LoneSetOpens
  /\ part = "email" => E!LastMailingStands
  /\ part = "pictures" => P!LoneChangesShown
  /\ part = "sockets" => W!PageListens
  /\ part = "limits" => L!LimitsHold
==============================================================================
