------------------------ MODULE ClientSessionProofs ------------------------
(***************************************************************************)
(* What ClientSession guarantees for every set of tabs and tokens.  Two    *)
(* arguments.  A tab that remembers other tokens than the stored ones has  *)
(* a message waiting that will tell it (Told): that is all the agreement   *)
(* of the tabs rests on, with or without the lock.  And as long as nothing *)
(* disturbs, at most one tab, the one that holds the lock, has a token on  *)
(* its way, and it is the stored one (LockInv).                            *)
(***************************************************************************)
EXTENDS ClientSession, SequenceTheorems, TLAPS

USE ConstantsAssumption

Stale(t) ==
  mem[t] # NoSnapshot /\ ~(disk # NoSnapshot /\ mem[t].tok = disk.tok)

News == IF disk = NoSnapshot THEN "session_cleared" ELSE "session_updated"

\* The last message of s to t is msg.
Pending(t, s, msg) ==
  inbox[t][s] # <<>> /\ inbox[t][s][Len(inbox[t][s])] = msg

Told == \A t \in Tabs : Stale(t) => \E s \in Tabs : Pending(t, s, News)

ClosedInv == \A t \in Tabs \ open : mem[t] = NoSnapshot /\ step[t] = "idle"

SignedInInv == signedIn \subseteq open

SentInv == \A t \in Tabs : step[t] \in {"sent", "answered"} => prev[t] # NoSnapshot

NoneCleared ==
  \A r, s \in Tabs : \A i \in 1..Len(inbox[r][s]) :
    inbox[r][s][i] # "session_cleared"

InFlight(t) == step[t] \in {"sent", "answered"}

LockInv ==
  Locks /\ ~disturbed =>
    /\ orphans = {} /\ forced = FALSE /\ NoneCleared
    /\ \A t \in Tabs :
         /\ InFlight(t) => lock = t
         /\ step[t] = "sent" => prev[t].tok \in accepted
         /\ step[t] = "answered" => answer[t] \in accepted \cup {Denied}
         /\ step[t] = "waiting" => mem[t] # NoSnapshot
         /\ disk = NoSnapshot => mem[t] = NoSnapshot
    /\ disk # NoSnapshot => disk.tok \in accepted \/ BeingReplaced(disk.tok)

IInv == TypeOK /\ ClosedInv /\ SignedInInv /\ SentInv /\ Told /\ LockInv

----------------------------------------------------------------------------

LEMMA MergedType ==
  ASSUME NEW tok \in Tokens, NEW key \in AppKeys,
         NEW previous \in Snapshots \cup {NoSnapshot}
  PROVE  /\ Merged(tok, key, previous) \in Snapshots
         /\ Merged(tok, key, previous).tok = tok
         /\ Merged(tok, key, previous) # NoSnapshot
<1>1. Snapshots = [tok : Tokens, key : AppKeys] /\ NoSnapshot \notin Snapshots
  BY DEF Snapshots
<1>2. CASE previous = NoSnapshot
  BY <1>1, <1>2 DEF Merged
<1>3. CASE previous # NoSnapshot
  <2>1. previous.key \in AppKeys
    BY <1>1, <1>3
  <2>2. (key \/ previous.key) \in AppKeys
    BY <2>1
  <2> QED BY <1>1, <1>3, <2>2 DEF Merged
<1> QED BY <1>2, <1>3

LEMMA PostEffect ==
  ASSUME TypeOK, NEW t \in Tabs, NEW msg \in Messages, Post(t, msg)
  PROVE  /\ inbox' \in [Tabs -> [Tabs -> Seq(Messages)]]
         /\ \A r \in open \ {t} : Pending(r, t, msg)'
         /\ msg # "session_cleared" => (NoneCleared => NoneCleared')
<1>1. \A r \in open \ {t} : inbox'[r][t] = Append(inbox[r][t], msg)
  BY DEF Post, TypeOK
<1>2. \A r, s \in Tabs : inbox'[r][s] = inbox[r][s]
                         \/ inbox'[r][s] = Append(inbox[r][s], msg)
  BY DEF Post, TypeOK
<1>3. \A r, s \in Tabs : inbox[r][s] \in Seq(Messages)
  BY DEF TypeOK
<1>4. inbox' \in [Tabs -> [Tabs -> Seq(Messages)]]
  BY <1>3 DEF Post, TypeOK
<1>5. \A r \in open \ {t} : Pending(r, t, msg)'
  BY <1>1, <1>3 DEF Pending, TypeOK
<1>6. ASSUME msg # "session_cleared", NoneCleared PROVE NoneCleared'
  <2>1. SUFFICES ASSUME NEW r \in Tabs, NEW s \in Tabs, NEW i \in 1..Len(inbox'[r][s])
                 PROVE  inbox'[r][s][i] # "session_cleared"
    BY DEF NoneCleared
  <2>2. \A j \in 1..Len(inbox[r][s]) : inbox[r][s][j] # "session_cleared"
    BY <1>6 DEF NoneCleared
  <2> DEFINE q == inbox[r][s]
             q1 == inbox'[r][s]
  <2>3. q \in Seq(Messages) /\ (q1 = q \/ q1 = Append(q, msg)) /\ i \in 1..Len(q1)
    BY <1>2, <1>3
  <2> HIDE DEF q, q1
  <2>4. CASE q1 = q
    BY <2>2, <2>3, <2>4 DEF q, q1
  <2>5. CASE q1 = Append(q, msg)
    <3>1. q1[i] = (IF i = Len(q) + 1 THEN msg ELSE q[i]) /\ (i # Len(q) + 1 => i \in 1..Len(q))
      BY <2>3, <2>5
    <3> QED BY <1>6, <2>2, <3>1 DEF q, q1
  <2> QED BY <2>3, <2>4, <2>5
<1> QED BY <1>4, <1>5, <1>6

LEMMA TailFacts ==
  ASSUME NEW S, NEW q \in Seq(S), q # <<>>
  PROVE  /\ Tail(q) \in Seq(S)
         /\ 1 \in 1..Len(q) /\ q[1] = Head(q)
         /\ \A i \in 1..Len(Tail(q)) : i + 1 \in 1..Len(q) /\ Tail(q)[i] = q[i + 1]
         /\ \/ Len(q) = 1
            \/ Tail(q) # <<>> /\ Tail(q)[Len(Tail(q))] = q[Len(q)]
<1>1. Len(q) \in Nat \ {0} /\ Tail(q) \in Seq(S) /\ Len(Tail(q)) = Len(q) - 1
  BY EmptySeq, HeadTailProperties
<1>2. \A i \in 1..Len(Tail(q)) : i + 1 \in 1..Len(q) /\ Tail(q)[i] = q[i + 1]
  BY <1>1, HeadTailProperties
<1>3. Len(q) # 1 => Len(Tail(q)) \in 1..Len(Tail(q)) /\ Len(Tail(q)) # 0
  BY <1>1
<1>4. Len(q) # 1 => Tail(q)[Len(Tail(q))] = q[Len(q)]
  BY <1>1, <1>2, <1>3
<1>5. Len(q) # 1 => Tail(q) # <<>>
  BY <1>3, EmptySeq
<1>6. 1 \in 1..Len(q) /\ q[1] = Head(q)
  BY <1>1
<1> QED BY <1>1, <1>2, <1>4, <1>5, <1>6

LEMMA ReceivedEffect ==
  ASSUME TypeOK, NEW t \in Tabs, NEW s \in Tabs, NEW msg, Received(t, s, msg)
  PROVE  /\ inbox' \in [Tabs -> [Tabs -> Seq(Messages)]]
         /\ NoneCleared => NoneCleared' /\ msg # "session_cleared"
         /\ \A r, q \in Tabs, m \in Messages :
              Pending(r, q, m) => Pending(r, q, m)' \/ (r = t /\ q = s /\ m = msg)
<1>0. /\ inbox[t][s] \in Seq(Messages) /\ inbox[t][s] # <<>> /\ Head(inbox[t][s]) = msg
      /\ inbox'[t][s] = Tail(inbox[t][s])
      /\ \A r, q \in Tabs : r # t \/ q # s => inbox'[r][q] = inbox[r][q]
  BY DEF TypeOK, Received
<1>1. PICK old \in Seq(Messages) :
        /\ old = inbox[t][s] /\ old # <<>> /\ Head(old) = msg
        /\ inbox'[t][s] = Tail(old)
        /\ \A r, q \in Tabs : r # t \/ q # s => inbox'[r][q] = inbox[r][q]
  BY <1>0
<1>2. /\ Tail(old) \in Seq(Messages)
      /\ 1 \in 1..Len(old) /\ old[1] = msg
      /\ \A i \in 1..Len(Tail(old)) : i + 1 \in 1..Len(old) /\ Tail(old)[i] = old[i + 1]
      /\ \/ Len(old) = 1
         \/ Tail(old) # <<>> /\ Tail(old)[Len(Tail(old))] = old[Len(old)]
  BY <1>1, TailFacts
<1>3. inbox' \in [Tabs -> [Tabs -> Seq(Messages)]]
  BY <1>1, <1>2 DEF TypeOK, Received
<1>4. ASSUME NoneCleared PROVE NoneCleared' /\ msg # "session_cleared"
  <2>1. \A i \in 1..Len(old) : old[i] # "session_cleared"
    BY <1>1, <1>4 DEF NoneCleared
  <2>2. \A i \in 1..Len(Tail(old)) : Tail(old)[i] # "session_cleared"
    BY <1>2, <2>1
  <2>3. ASSUME NEW r \in Tabs, NEW q \in Tabs, NEW i \in 1..Len(inbox'[r][q])
        PROVE  inbox'[r][q][i] # "session_cleared"
    <3>1. CASE r = t /\ q = s
      BY <1>1, <2>2, <3>1
    <3>2. CASE r # t \/ q # s
      <4>1. inbox'[r][q] = inbox[r][q]
        BY <1>1, <3>2
      <4> QED BY <1>4, <4>1 DEF NoneCleared
    <3> QED BY <3>1, <3>2
  <2> QED BY <1>2, <2>1, <2>3 DEF NoneCleared
<1>5. ASSUME NEW m \in Messages, Pending(t, s, m) PROVE Pending(t, s, m)' \/ m = msg
  BY <1>1, <1>2, <1>5 DEF Pending
<1>6. \A r, q \in Tabs, m \in Messages :
        Pending(r, q, m) => Pending(r, q, m)' \/ (r = t /\ q = s /\ m = msg)
  BY <1>1, <1>5 DEF Pending
<1> QED BY <1>3, <1>4, <1>6

LEMMA EndRefreshEffect ==
  ASSUME TypeOK, NEW t \in Tabs, EndRefresh(t)
  PROVE  /\ step' \in [Tabs -> {"idle", "waiting", "sent", "answered"}]
         /\ prev' \in [Tabs -> Snapshots \cup {NoSnapshot}]
         /\ answer' \in [Tabs -> Replies]
         /\ lock' \in Tabs \cup {NoTab}
         /\ step'[t] = "idle"
         /\ \A s \in Tabs \ {t} :
              /\ step'[s] = step[s] /\ prev'[s] = prev[s] /\ answer'[s] = answer[s]
              /\ lock = s => lock' = s
BY DEF EndRefresh, TypeOK, Replies

\* A snapshot is stored, kept and announced by the tab.
LEMMA SaveEffect ==
  ASSUME IInv, NEW t \in open, NEW snap \in Snapshots, Save(t, snap), UNCHANGED open
  PROVE  /\ inbox' \in [Tabs -> [Tabs -> Seq(Messages)]]
         /\ mem' \in [Tabs -> Snapshots \cup {NoSnapshot}]
         /\ disk' = snap /\ mem'[t] = snap /\ snap # NoSnapshot
         /\ \A s \in Tabs \ {t} : mem'[s] = mem[s]
         /\ NoneCleared => NoneCleared'
         /\ Told'
<1>1. t \in Tabs /\ snap # NoSnapshot
  BY DEF IInv, TypeOK, Snapshots
<1>2. /\ inbox' \in [Tabs -> [Tabs -> Seq(Messages)]]
      /\ \A r \in open \ {t} : Pending(r, t, "session_updated")'
      /\ NoneCleared => NoneCleared'
  BY <1>1, PostEffect DEF Save, IInv, Messages
<1>3. /\ mem' \in [Tabs -> Snapshots \cup {NoSnapshot}] /\ mem'[t] = snap
      /\ \A s \in Tabs \ {t} : mem'[s] = mem[s]
      /\ disk' = snap
  BY <1>1 DEF Save, SetMem, IInv, TypeOK
<1>4. Told'
  BY <1>1, <1>2, <1>3 DEF Told, Stale, News, IInv, ClosedInv
<1> QED BY <1>1, <1>2, <1>3, <1>4

LEMMA ClearEffect ==
  ASSUME IInv, NEW t \in open, ClearSession(t), UNCHANGED open
  PROVE  /\ inbox' \in [Tabs -> [Tabs -> Seq(Messages)]]
         /\ mem' \in [Tabs -> Snapshots \cup {NoSnapshot}]
         /\ disk' = NoSnapshot /\ signedIn' \subseteq open /\ hydrated' \subseteq Tabs
         /\ \A s \in Tabs \ open : mem'[s] = NoSnapshot
         /\ Told'
<1>1. t \in Tabs
  BY DEF IInv, TypeOK
<1>2. /\ inbox' \in [Tabs -> [Tabs -> Seq(Messages)]]
      /\ \A r \in open \ {t} : Pending(r, t, "session_cleared")'
  BY <1>1, PostEffect DEF ClearSession, IInv, Messages
<1>3. /\ mem' \in [Tabs -> Snapshots \cup {NoSnapshot}] /\ mem'[t] = NoSnapshot
      /\ \A s \in Tabs \ {t} : mem'[s] = mem[s]
      /\ disk' = NoSnapshot /\ signedIn' \subseteq open /\ hydrated' \subseteq Tabs
  BY <1>1 DEF ClearSession, SetMem, IInv, TypeOK, SignedInInv
<1>4. Told'
  BY <1>1, <1>2, <1>3 DEF Told, Stale, News, IInv, ClosedInv
<1> QED BY <1>1, <1>2, <1>3, <1>4 DEF IInv, ClosedInv

----------------------------------------------------------------------------

LEMMA InitInv == Init => IInv
<1> SUFFICES ASSUME Init PROVE IInv
  OBVIOUS
<1> USE DEF Init
<1>1. inbox \in [Tabs -> [Tabs -> Seq(Messages)]] /\ NoneCleared
  BY DEF NoneCleared
<1>2. TypeOK
  BY <1>1 DEF TypeOK, Replies
<1>3. ClosedInv /\ SignedInInv /\ SentInv /\ Told
  BY DEF ClosedInv, SignedInInv, SentInv, Told, Stale
<1>4. LockInv
  BY <1>1 DEF LockInv, InFlight
<1> QED BY <1>2, <1>3, <1>4 DEF IInv

LEMMA LifecycleStep ==
  ASSUME IInv, NEW t \in Tabs, Lifecycle(t)
  PROVE  IInv'
<1> USE DEF tabVars, refreshVars, serverVars
<1>1. CASE OpenTab(t)
  BY <1>1 DEF OpenTab, IInv, TypeOK, ClosedInv, SignedInInv, SentInv, Told, Stale, News,
              Pending, LockInv, NoneCleared, InFlight, BeingReplaced
<1>2. CASE CloseTab(t)
  <2>1. /\ open' = open \ {t} /\ EndRefresh(t) /\ t \in open
        /\ inbox' = [inbox EXCEPT ![t] = [s \in Tabs |-> <<>>]]
        /\ mem' = [mem EXCEPT ![t] = NoSnapshot]
        /\ signedIn' = signedIn \ {t} /\ hydrated' = hydrated \ {t}
        /\ disturbed' = (disturbed \/ InFlight(t))
        /\ orphans' = IF step[t] = "sent" THEN orphans \cup {prev[t].tok} ELSE orphans
        /\ UNCHANGED <<disk, serverVars, forced>>
    BY <1>2 DEF CloseTab, SetMem, InFlight
  <2>2. Told' /\ ClosedInv' /\ SignedInInv' /\ SentInv'
    <3>1. mem'[t] = NoSnapshot /\ \A s \in Tabs \ {t} : mem'[s] = mem[s] /\ inbox'[s] = inbox[s]
      BY <2>1 DEF IInv, TypeOK
    <3>2. Told'
      BY <2>1, <3>1 DEF IInv, Told, Stale, News, Pending
    <3>3. ClosedInv' /\ SignedInInv'
      BY <2>1, <3>1, EndRefreshEffect DEF IInv, ClosedInv, SignedInInv
    <3>4. SentInv'
      BY <2>1, EndRefreshEffect DEF IInv, SentInv
    <3> QED BY <3>2, <3>3, <3>4
  <2>3. LockInv'
    <3>1. SUFFICES ASSUME Locks, ~disturbed' PROVE LockInv'
      BY DEF LockInv
    <3>2. ~disturbed /\ ~InFlight(t) /\ orphans' = orphans
      BY <2>1, <3>1 DEF InFlight
    <3>3. NoneCleared'
      BY <2>1, <3>1, <3>2 DEF IInv, TypeOK, LockInv, NoneCleared
    <3>4. ~InFlight(t)' /\ step'[t] = "idle"
          /\ \A s \in Tabs \ {t} : step'[s] = step[s] /\ prev'[s] = prev[s]
               /\ answer'[s] = answer[s] /\ mem'[s] = mem[s] /\ (lock = s => lock' = s)
      BY <2>1, EndRefreshEffect DEF IInv, TypeOK, InFlight
    <3>5. mem'[t] = NoSnapshot
      BY <2>1 DEF IInv, TypeOK
    <3> QED BY <2>1, <3>1, <3>2, <3>3, <3>4, <3>5 DEF IInv, LockInv, InFlight, BeingReplaced
  <2>4. TypeOK'
    <3>1. step[t] = "sent" => prev[t].tok \in Tokens
      BY DEF IInv, TypeOK, SentInv, Snapshots
    <3>2. inbox' \in [Tabs -> [Tabs -> Seq(Messages)]]
      BY <2>1 DEF IInv, TypeOK
    <3>3. mem' \in [Tabs -> Snapshots \cup {NoSnapshot}] /\ disturbed' \in BOOLEAN
      BY <2>1 DEF IInv, TypeOK
    <3> QED BY <2>1, <3>1, <3>2, <3>3, EndRefreshEffect DEF IInv, TypeOK
  <2> QED BY <2>2, <2>3, <2>4 DEF IInv
<1>3. CASE Hydrate(t)
  BY <1>3 DEF Hydrate, SetMem, IInv, TypeOK, ClosedInv, SignedInInv, SentInv, Told, Stale,
              News, Pending, LockInv, NoneCleared, InFlight, BeingReplaced
<1> QED BY <1>1, <1>2, <1>3 DEF Lifecycle

\* Nothing that LockInv speaks of changes, except that tab t has a snapshot,
\* the stored one is as good as it was, and the server accepts more.
LEMMA SavedInv ==
  ASSUME IInv, NEW t \in open, NEW snap \in Snapshots, Save(t, snap),
         UNCHANGED <<open, refreshVars, orphans, forced>>,
         accepted \subseteq accepted', signedIn' \subseteq open,
         disturbed => disturbed',
         Locks /\ ~disturbed' => snap.tok \in accepted' \/ (disk # NoSnapshot /\ snap.tok = disk.tok)
  PROVE  ClosedInv' /\ SignedInInv' /\ SentInv' /\ Told' /\ LockInv'
<1>1. /\ mem' \in [Tabs -> Snapshots \cup {NoSnapshot}]
      /\ disk' = snap /\ mem'[t] = snap /\ snap # NoSnapshot
      /\ \A s \in Tabs \ {t} : mem'[s] = mem[s]
      /\ NoneCleared => NoneCleared'
      /\ Told'
  BY SaveEffect
<1>2. ClosedInv' /\ SignedInInv' /\ SentInv'
  BY <1>1 DEF IInv, ClosedInv, SignedInInv, SentInv, refreshVars
<1>3. LockInv'
  BY <1>1 DEF IInv, LockInv, InFlight, BeingReplaced, refreshVars
<1> QED BY <1>1, <1>2, <1>3

LEMMA UserStep ==
  ASSUME IInv, NEW t \in Tabs, UserAct(t)
  PROVE  IInv'
<1> USE DEF refreshVars, serverVars
<1>1. CASE \E tok \in Tokens, key \in AppKeys : SignIn(t, tok, key)
  <2>1. PICK tok \in Tokens, key \in AppKeys : SignIn(t, tok, key)
    BY <1>1
  <2>2. PICK snap \in Snapshots : snap = Merged(tok, key, mem[t]) /\ snap.tok = tok
    BY MergedType DEF IInv, TypeOK
  <2>3. /\ t \in open /\ Save(t, snap) /\ accepted' = accepted \cup {tok}
        /\ issued' = issued \cup {tok}
        /\ hydrated' = hydrated \cup {t} /\ signedIn' = signedIn \cup {t}
        /\ UNCHANGED <<open, refreshVars, family, orphans, disturbed, forced>>
    BY <2>1, <2>2 DEF SignIn, UserRoom
  <2>4. ClosedInv' /\ SignedInInv' /\ SentInv' /\ Told' /\ LockInv'
    BY <2>2, <2>3, SavedInv DEF IInv, SignedInInv
  <2>5. TypeOK'
    <3>1. /\ inbox' \in [Tabs -> [Tabs -> Seq(Messages)]]
          /\ mem' \in [Tabs -> Snapshots \cup {NoSnapshot}]
          /\ disk' \in Snapshots
      BY <2>3, SaveEffect
    <3>2. accepted' \subseteq issued' /\ issued' \subseteq Tokens
      BY <2>3 DEF IInv, TypeOK
    <3> QED BY <2>3, <3>1, <3>2 DEF IInv, TypeOK
  <2> QED BY <2>4, <2>5 DEF IInv
<1>2. CASE \E key \in AppKeys : SetAppKey(t, key)
  <2>1. PICK key \in AppKeys : SetAppKey(t, key)
    BY <1>2
  <2>2. PICK snap \in Snapshots : snap = [mem[t] EXCEPT !.key = key] /\ snap.tok = mem[t].tok
    <3>1. mem[t] \in [tok : Tokens, key : AppKeys]
      BY <2>1 DEF IInv, TypeOK, Snapshots, SetAppKey
    <3>2. [mem[t] EXCEPT !.key = key] \in [tok : Tokens, key : AppKeys]
      BY <3>1
    <3>3. [mem[t] EXCEPT !.key = key].tok = mem[t].tok
      BY <3>1
    <3> QED BY <3>2, <3>3 DEF Snapshots
  <2>3. /\ t \in open /\ Save(t, snap) /\ mem[t] # NoSnapshot
        /\ disturbed' = (disturbed \/ (disk # NoSnapshot /\ disk.tok # mem[t].tok))
        /\ UNCHANGED <<signedIn, hydrated, open, refreshVars, serverVars, orphans, forced>>
    BY <2>1, <2>2 DEF SetAppKey, UserRoom
  <2>4. Locks /\ ~disturbed' => disk # NoSnapshot /\ disk.tok = mem[t].tok
    BY <2>3 DEF IInv, LockInv
  <2>5. ClosedInv' /\ SignedInInv' /\ SentInv' /\ Told' /\ LockInv'
    BY <2>2, <2>3, <2>4, SavedInv DEF IInv, SignedInInv
  <2>6. TypeOK'
    BY <2>3, SaveEffect DEF IInv, TypeOK
  <2> QED BY <2>5, <2>6 DEF IInv
<1>3. CASE SignOut(t)
  <2>1. /\ t \in open /\ ClearSession(t) /\ disturbed' = TRUE
        /\ UNCHANGED <<open, refreshVars, serverVars, orphans, forced>>
    BY <1>3 DEF SignOut, UserRoom
  <2>2. TypeOK' /\ Told'
    BY <2>1, ClearEffect DEF IInv, TypeOK
  <2>3. ClosedInv' /\ SignedInInv' /\ SentInv' /\ LockInv'
    BY <2>1, ClearEffect DEF IInv, ClosedInv, SignedInInv, SentInv, LockInv
  <2> QED BY <2>2, <2>3 DEF IInv
<1> QED BY <1>1, <1>2, <1>3 DEF UserAct

\* Nobody has a token on its way when the lock is free.
LEMMA FreeLock ==
  ASSUME IInv, NEW t \in Tabs, Granted(t), Locks, ~disturbed
  PROVE  \A s \in Tabs : ~InFlight(s)
BY DEF IInv, LockInv, Granted, TypeOK

LEMMA RefreshStep ==
  ASSUME IInv, NEW t \in Tabs, StartRefresh(t) \/ Proceed(t)
  PROVE  IInv'
<1> USE DEF tabVars, serverVars
<1>1. CASE StartRefresh(t)
  <2>1. step' = [step EXCEPT ![t] = "waiting"] /\ t \in open /\ step[t] = "idle"
    BY <1>1 DEF StartRefresh, IInv, SignedInInv
  <2>2. UNCHANGED <<disk, tabVars, open, prev, answer, lock, inbox, serverVars, orphans,
                    disturbed, forced>> /\ mem[t] # NoSnapshot
    BY <1>1 DEF StartRefresh
  <2>3. TypeOK' /\ step'[t] = "waiting" /\ \A s \in Tabs \ {t} : step'[s] = step[s]
    BY <2>1, <2>2 DEF IInv, TypeOK
  <2>4. ClosedInv' /\ SignedInInv' /\ SentInv'
    BY <2>1, <2>2, <2>3 DEF IInv, ClosedInv, SignedInInv, SentInv
  <2>5. Told'
    BY <2>2 DEF IInv, Told, Stale, News, Pending
  <2>6. LockInv'
    BY <2>1, <2>2, <2>3 DEF IInv, LockInv, NoneCleared, InFlight, BeingReplaced
  <2> QED BY <2>3, <2>4, <2>5, <2>6 DEF IInv
<1>2. CASE AdoptStored(t)
  <2>1. PICK snap \in Snapshots :
          snap = Merged(disk.tok, disk.key, mem[t]) /\ snap.tok = disk.tok /\ snap # NoSnapshot
    <3>1. disk.tok \in Tokens /\ disk.key \in AppKeys
      BY <1>2 DEF AdoptStored, DiskFresh, IInv, TypeOK, Snapshots
    <3> QED BY <3>1, MergedType DEF IInv, TypeOK
  <2>2. /\ mem' = [mem EXCEPT ![t] = snap] /\ signedIn' = signedIn \cup {t}
        /\ EndRefresh(t) /\ disk # NoSnapshot /\ step[t] = "waiting" /\ t \in open
        /\ UNCHANGED <<disk, hydrated, open, inbox, serverVars, orphans, disturbed, forced>>
    BY <1>2, <2>1 DEF AdoptStored, SetMem, DiskFresh, Granted, IInv, ClosedInv
  <2>3. TypeOK' /\ mem'[t] = snap /\ \A s \in Tabs \ {t} : mem'[s] = mem[s]
    BY <2>1, <2>2, EndRefreshEffect DEF IInv, TypeOK
  <2>4. ClosedInv' /\ SignedInInv' /\ SentInv'
    BY <2>2, <2>3, EndRefreshEffect DEF IInv, ClosedInv, SignedInInv, SentInv
  <2>5. Told'
    BY <2>1, <2>2, <2>3 DEF IInv, Told, Stale, News, Pending
  <2>6. LockInv'
    BY <2>2, <2>3, EndRefreshEffect DEF IInv, LockInv, NoneCleared, InFlight, BeingReplaced
  <2> QED BY <2>3, <2>4, <2>5, <2>6 DEF IInv
<1>3. CASE RefreshNothing(t)
  <2>1. /\ ClearSession(t) /\ EndRefresh(t) /\ forced' = TRUE
        /\ mem[t] = NoSnapshot /\ step[t] = "waiting" /\ t \in open
        /\ UNCHANGED <<open, serverVars, orphans, disturbed>>
    BY <1>3 DEF RefreshNothing, Granted, IInv, ClosedInv
  <2>2. TypeOK' /\ Told' /\ ClosedInv' /\ SignedInInv'
    BY <2>1, ClearEffect, EndRefreshEffect DEF IInv, TypeOK, ClosedInv, SignedInInv
  <2>3. SentInv'
    BY <2>1, EndRefreshEffect DEF IInv, SentInv
  <2>4. ~(Locks /\ ~disturbed)
    BY <2>1 DEF IInv, LockInv
  <2> QED BY <2>1, <2>2, <2>3, <2>4 DEF IInv, LockInv
<1>4. CASE Send(t)
  <2>1. /\ step' = [step EXCEPT ![t] = "sent"] /\ prev' = [prev EXCEPT ![t] = mem[t]]
        /\ lock' = IF Locks THEN t ELSE lock
        /\ mem[t] # NoSnapshot /\ t \in open /\ step[t] = "waiting"
        /\ UNCHANGED <<disk, tabVars, open, answer, inbox, serverVars, orphans, disturbed, forced>>
    BY <1>4 DEF Send, Granted, IInv, ClosedInv
  <2>2. TypeOK' /\ ClosedInv' /\ SignedInInv' /\ SentInv'
    BY <2>1 DEF IInv, TypeOK, ClosedInv, SignedInInv, SentInv
  <2>3. Told'
    BY <2>1 DEF IInv, Told, Stale, News, Pending
  <2>4. LockInv'
    <3>1. SUFFICES ASSUME Locks, ~disturbed PROVE LockInv'
      BY <2>1 DEF LockInv
    <3>2. \A s \in Tabs : ~InFlight(s)
      BY <1>4, <3>1, FreeLock DEF Send
    <3>3. disk # NoSnapshot /\ disk.tok = mem[t].tok /\ disk.tok \in accepted
      BY <1>4, <2>1, <3>1, <3>2 DEF IInv, LockInv, Send, DiskFresh, BeingReplaced, InFlight
    <3>4. \A s \in Tabs \ {t} : step'[s] = step[s]
      BY <2>1 DEF IInv, TypeOK
    <3>5. step'[t] = "sent" /\ prev'[t] = mem[t] /\ lock' = t
      BY <2>1, <3>1 DEF IInv, TypeOK
    <3> QED BY <2>1, <3>1, <3>2, <3>3, <3>4, <3>5 DEF IInv, LockInv, NoneCleared, InFlight
  <2> QED BY <2>2, <2>3, <2>4 DEF IInv
<1> QED BY <1>1, <1>2, <1>3, <1>4 DEF Proceed

\* The token endpoint keeps its sets in order.
LEMMA ExchangeEffect ==
  ASSUME TypeOK, NEW tok \in Tokens, NEW reply \in Replies,
         Exchange(tok, reply)
  PROVE  /\ accepted' \subseteq issued' /\ issued' \subseteq Tokens
         /\ family' \in [Tokens -> Tokens]
         /\ disturbed => disturbed'
         /\ disturbed' \in BOOLEAN
         /\ tok \in accepted /\ ~disturbed' =>
              reply \in accepted' \cup {Denied} /\ (reply = Denied => tok \in accepted')
         /\ tok \in accepted => accepted \ {tok} \subseteq accepted'
<1>1. CASE tok \in accepted /\ reply \in Tokens \ issued /\ UNCHANGED disturbed
           /\ issued' = issued \cup {reply} /\ accepted' = (accepted \ {tok}) \cup {reply}
           /\ family' = [family EXCEPT ![reply] = family[tok]]
  <2>1. reply # Denied
    BY <1>1, ConstantsAssumption DEF ConstantsAssumption
  <2> QED BY <1>1, <2>1 DEF TypeOK
<1>2. CASE tok \in accepted /\ reply = Refused /\ disturbed' = TRUE
           /\ accepted' = accepted \ {tok} /\ UNCHANGED <<issued, family>>
  BY <1>2 DEF TypeOK
<1>3. CASE tok \in accepted /\ reply = Denied /\ UNCHANGED <<serverVars, disturbed>>
  BY <1>3 DEF TypeOK, serverVars
<1>4. CASE tok \notin accepted /\ accepted' = {k \in accepted : family[k] # family[tok]}
           /\ UNCHANGED <<issued, family, disturbed>>
  BY <1>4 DEF TypeOK
<1> QED BY <1>1, <1>2, <1>3, <1>4 DEF Exchange

LEMMA NetworkStep ==
  ASSUME IInv, NEW t \in Tabs, Network(t)
  PROVE  IInv'
<1> USE DEF tabVars
<1>1. CASE \E reply \in Replies : Serve(t, reply)
  <2>1. PICK reply \in Replies : Serve(t, reply)
    BY <1>1
  <2>2. /\ step[t] = "sent" /\ step' = [step EXCEPT ![t] = "answered"]
        /\ answer' = [answer EXCEPT ![t] = reply]
        /\ Exchange(prev[t].tok, reply)
        /\ UNCHANGED <<disk, tabVars, open, prev, lock, inbox, orphans, forced>>
    BY <2>1 DEF Serve
  <2>3. prev[t].tok \in Tokens
    BY <2>2 DEF IInv, TypeOK, SentInv, Snapshots
  <2>4. TypeOK' /\ ClosedInv' /\ SignedInInv' /\ SentInv' /\ Told'
    <3>1. TypeOK'
      BY <2>2, <2>3, ExchangeEffect DEF IInv, TypeOK
    <3>2. ClosedInv' /\ SignedInInv' /\ SentInv'
      BY <2>2 DEF IInv, TypeOK, ClosedInv, SignedInInv, SentInv
    <3>3. Told'
      BY <2>2 DEF IInv, Told, Stale, News, Pending
    <3> QED BY <3>1, <3>2, <3>3
  <2>5. LockInv'
    <3>1. SUFFICES ASSUME Locks, ~disturbed' PROVE LockInv'
      BY DEF LockInv
    <3>7. ~disturbed
      BY <2>2, <2>3, <3>1, ExchangeEffect DEF IInv
    <3>2. /\ prev[t].tok \in accepted /\ lock = t
          /\ \A s \in Tabs \ {t} : ~InFlight(s)
      BY <2>2, <3>1, <3>7 DEF IInv, LockInv, InFlight, TypeOK
    <3>3. /\ reply \in accepted' \cup {Denied} /\ (reply = Denied => prev[t].tok \in accepted')
          /\ accepted \ {prev[t].tok} \subseteq accepted'
      BY <2>2, <2>3, <3>1, <3>2, ExchangeEffect DEF IInv
    <3>4. /\ step'[t] = "answered" /\ answer'[t] = reply
          /\ \A s \in Tabs \ {t} : step'[s] = step[s]
      BY <2>2 DEF IInv, TypeOK
    <3>5. disk # NoSnapshot => disk.tok \in accepted
      BY <2>2, <3>1, <3>2, <3>7 DEF IInv, LockInv, BeingReplaced, InFlight
    <3>6. disk # NoSnapshot => disk.tok \in accepted' \/ BeingReplaced(disk.tok)'
      BY <2>2, <3>3, <3>4, <3>5 DEF BeingReplaced
    <3> QED BY <2>2, <3>1, <3>2, <3>3, <3>4, <3>6, <3>7 DEF IInv, LockInv, NoneCleared, InFlight
  <2> QED BY <2>4, <2>5 DEF IInv
<1>2. CASE LoseRequest(t)
  <2>1. /\ EndRefresh(t) /\ disturbed' = TRUE
        /\ orphans' = IF step[t] = "sent" THEN orphans \cup {prev[t].tok} ELSE orphans
        /\ UNCHANGED <<disk, tabVars, open, inbox, serverVars, forced>>
    BY <1>2 DEF LoseRequest
  <2>2. step[t] = "sent" => prev[t].tok \in Tokens
    BY DEF IInv, TypeOK, SentInv, Snapshots
  <2>3. TypeOK'
    BY <2>1, <2>2, EndRefreshEffect DEF IInv, TypeOK, serverVars
  <2>4. ClosedInv' /\ SignedInInv' /\ SentInv'
    BY <2>1, EndRefreshEffect DEF IInv, ClosedInv, SignedInInv, SentInv
  <2>5. Told'
    BY <2>1 DEF IInv, Told, Stale, News, Pending
  <2> QED BY <2>1, <2>3, <2>4, <2>5 DEF IInv, LockInv
<1> QED BY <1>1, <1>2 DEF Network

LEMMA OrphanStep ==
  ASSUME IInv, NEW tok \in orphans, NEW reply \in Replies,
         ServeOrphan(tok, reply)
  PROVE  IInv'
<1> USE DEF tabVars, refreshVars
<1>1. /\ Exchange(tok, reply) /\ tok \in Tokens /\ orphans' = orphans \ {tok}
      /\ UNCHANGED <<disk, tabVars, open, refreshVars, inbox, forced>>
      /\ disturbed => disturbed'
  BY ExchangeEffect DEF ServeOrphan, IInv, TypeOK
<1>2. TypeOK'
  BY <1>1, ExchangeEffect DEF IInv, TypeOK
<1>3. ClosedInv' /\ SignedInInv' /\ SentInv' /\ Told'
  BY <1>1 DEF IInv, ClosedInv, SignedInInv, SentInv, Told, Stale, News, Pending
<1>4. LockInv'
  BY <1>1 DEF IInv, LockInv
<1> QED BY <1>2, <1>3, <1>4 DEF IInv

LEMMA ReceiveStep ==
  ASSUME IInv, NEW t \in Tabs, Receive(t)
  PROVE  IInv'
<1> USE DEF tabVars, serverVars
<1>1. CASE ReceiveTokens(t)
  <2>1. /\ step[t] = "answered" /\ answer[t] \in Tokens /\ EndRefresh(t) /\ t \in open
        /\ UNCHANGED <<signedIn, hydrated, open, serverVars, orphans, disturbed, forced>>
    BY <1>1 DEF ReceiveTokens, IInv, ClosedInv
  <2>2. PICK snap \in Snapshots : Save(t, snap) /\ snap.tok = answer[t]
    <3>1. answer[t] \in Tokens /\ prev[t] \in Snapshots \cup {NoSnapshot}
      BY <2>1 DEF IInv, TypeOK
    <3>2. FALSE \in AppKeys
      BY ConstantsAssumption DEF ConstantsAssumption
    <3>3. Save(t, Merged(answer[t], FALSE, prev[t]))
      BY <1>1 DEF ReceiveTokens
    <3>4. /\ Merged(answer[t], FALSE, prev[t]) \in Snapshots
          /\ Merged(answer[t], FALSE, prev[t]).tok = answer[t]
      BY <3>1, <3>2, MergedType
    <3> QED BY <3>3, <3>4
  <2>3. /\ disk' = snap /\ mem'[t] = snap /\ snap # NoSnapshot
        /\ \A s \in Tabs \ {t} : mem'[s] = mem[s]
        /\ NoneCleared => NoneCleared'
        /\ Told'
    BY <2>1, <2>2, SaveEffect
  <2>4. TypeOK'
    <3>1. TypeOK /\ t \in open
      BY <2>1 DEF IInv
    <3>2. /\ disk' \in Snapshots /\ mem' \in [Tabs -> Snapshots \cup {NoSnapshot}]
          /\ inbox' \in [Tabs -> [Tabs -> Seq(Messages)]]
      BY <2>1, <2>2, SaveEffect
    <3>3. /\ step' \in [Tabs -> {"idle", "waiting", "sent", "answered"}]
          /\ prev' \in [Tabs -> Snapshots \cup {NoSnapshot}] /\ answer' \in [Tabs -> Replies]
          /\ lock' \in Tabs \cup {NoTab}
      BY <2>1, <3>1, EndRefreshEffect DEF TypeOK
    <3> QED BY <2>1, <3>1, <3>2, <3>3 DEF TypeOK
  <2>5. ClosedInv' /\ SignedInInv' /\ SentInv'
    BY <2>1, <2>3, EndRefreshEffect DEF IInv, ClosedInv, SignedInInv, SentInv
  <2>6. LockInv'
    BY <2>1, <2>2, <2>3, EndRefreshEffect DEF IInv, LockInv, InFlight, BeingReplaced
  <2> QED BY <2>3, <2>4, <2>5, <2>6 DEF IInv
<1>2. CASE ReceiveRefusal(t)
  <2>1. /\ step[t] = "answered" /\ answer[t] \in {Refused, Denied} /\ EndRefresh(t) /\ t \in open
        /\ \/ ClearSession(t) /\ forced' = TRUE /\ answer[t] = Refused
           \/ UNCHANGED <<disk, tabVars, inbox, forced>>
        /\ UNCHANGED <<open, serverVars, orphans, disturbed>>
    BY <1>2 DEF ReceiveRefusal, IInv, ClosedInv
  <2>2. answer[t] = Refused => ~(Locks /\ ~disturbed)
    BY <2>1, ConstantsAssumption DEF IInv, LockInv, TypeOK, ConstantsAssumption
  <2>3. TypeOK' /\ Told' /\ ClosedInv' /\ SignedInInv'
    <3>1. CASE ClearSession(t) /\ forced' = TRUE
      BY <2>1, <3>1, ClearEffect, EndRefreshEffect DEF IInv, TypeOK, ClosedInv, SignedInInv
    <3>2. CASE UNCHANGED <<disk, tabVars, inbox, forced>>
      <4>1. TypeOK'
        BY <2>1, <3>2, EndRefreshEffect DEF IInv, TypeOK
      <4>2. Told' /\ ClosedInv' /\ SignedInInv'
        BY <2>1, <3>2, EndRefreshEffect
        DEF IInv, Told, Stale, News, Pending, ClosedInv, SignedInInv
      <4> QED BY <4>1, <4>2
    <3> QED BY <2>1, <3>1, <3>2
  <2>4. SentInv'
    BY <2>1, EndRefreshEffect DEF IInv, SentInv
  <2>5. LockInv'
    <3>1. SUFFICES ASSUME Locks, ~disturbed PROVE LockInv'
      BY <2>1 DEF LockInv
    <3>2. answer[t] = Denied /\ UNCHANGED <<disk, mem, inbox, forced, accepted, orphans>>
      BY <2>1, <2>2, <3>1
    <3>3. Denied \notin accepted
      BY ConstantsAssumption DEF IInv, TypeOK, ConstantsAssumption
    <3>4. \A s \in Tabs \ {t} : ~InFlight(s)
      BY <2>1, <3>1 DEF IInv, LockInv, InFlight
    <3>5. disk # NoSnapshot => disk.tok \in accepted
      BY <3>1, <3>2, <3>3, <3>4 DEF IInv, LockInv, BeingReplaced, InFlight
    <3>6. step'[t] = "idle" /\ \A s \in Tabs \ {t} : step'[s] = step[s] /\ ~InFlight(s)'
      BY <2>1, <3>4, EndRefreshEffect DEF IInv, TypeOK, InFlight
    <3> QED BY <3>1, <3>2, <3>5, <3>6 DEF IInv, LockInv, NoneCleared, InFlight
  <2> QED BY <2>1, <2>3, <2>4, <2>5 DEF IInv
<1> QED BY <1>1, <1>2 DEF Receive

LEMMA DeliverStep ==
  ASSUME IInv, NEW t \in Tabs, NEW s \in Tabs, Deliver(t, s)
  PROVE  IInv'
<1> USE DEF refreshVars, serverVars
<1>1. CASE PeerUpdated(t, s)
  <2>1. /\ Received(t, s, "session_updated") /\ t \in open
        /\ IF disk = NoSnapshot THEN UNCHANGED <<mem, signedIn>>
           ELSE mem' = [mem EXCEPT ![t] = disk] /\ signedIn' = signedIn \cup {t}
        /\ UNCHANGED <<disk, hydrated, open, refreshVars, serverVars, orphans, disturbed, forced>>
    BY <1>1 DEF PeerUpdated, Received, Reload, Adopt, SetMem
  <2>2. /\ inbox' \in [Tabs -> [Tabs -> Seq(Messages)]]
        /\ NoneCleared => NoneCleared'
        /\ \A r, q \in Tabs, m \in Messages :
             Pending(r, q, m) => Pending(r, q, m)' \/ (r = t /\ q = s /\ m = "session_updated")
    BY <2>1, ReceivedEffect DEF IInv
  <2>3. TypeOK' /\ ClosedInv' /\ SignedInInv' /\ SentInv'
    <3>1. /\ mem' \in [Tabs -> Snapshots \cup {NoSnapshot}] /\ signedIn' \subseteq open
          /\ \A r \in Tabs \ {t} : mem'[r] = mem[r]
      <4>1. CASE disk = NoSnapshot
        BY <2>1, <4>1 DEF IInv, TypeOK, SignedInInv
      <4>2. CASE disk # NoSnapshot
        <5>1. disk \in Snapshots /\ t \in Tabs
          BY <4>2 DEF IInv, TypeOK
        <5>2. mem' = [mem EXCEPT ![t] = disk] /\ signedIn' = signedIn \cup {t}
          BY <2>1, <4>2
        <5> QED BY <2>1, <5>1, <5>2 DEF IInv, TypeOK, SignedInInv
      <4> QED BY <4>1, <4>2
    <3>2. TypeOK'
      BY <2>1, <2>2, <3>1 DEF IInv, TypeOK
    <3> QED BY <2>1, <3>1, <3>2 DEF IInv, ClosedInv, SignedInInv, SentInv
  <2>4. Told'
    <3>1. News \in Messages /\ News' = News
      BY <2>1 DEF News, Messages
    <3>2. CASE disk = NoSnapshot
      BY <2>1, <2>2, <3>1, <3>2 DEF IInv, Told, Stale, News
    <3>3. CASE disk # NoSnapshot
      <4>1. mem'[t] = disk /\ \A r \in Tabs \ {t} : mem'[r] = mem[r]
        BY <2>1, <3>3 DEF IInv, TypeOK
      <4> QED BY <2>1, <2>2, <3>1, <3>3, <4>1 DEF IInv, Told, Stale
    <3> QED BY <3>2, <3>3
  <2>5. LockInv'
    <3>1. \A r \in Tabs : mem[r] # NoSnapshot => mem'[r] # NoSnapshot
      BY <2>1 DEF IInv, TypeOK
    <3>2. disk = NoSnapshot => mem' = mem
      BY <2>1
    <3> QED BY <2>1, <2>2, <3>1, <3>2 DEF IInv, LockInv, InFlight, BeingReplaced
  <2> QED BY <2>3, <2>4, <2>5 DEF IInv
<1>2. CASE PeerCleared(t, s)
  <2>1. /\ Received(t, s, "session_cleared") /\ t \in open
        /\ mem' = [mem EXCEPT ![t] = NoSnapshot]
        /\ signedIn' = signedIn \ {t} /\ hydrated' = hydrated \cup {t}
        /\ UNCHANGED <<disk, open, refreshVars, serverVars, orphans, disturbed, forced>>
    BY <1>2 DEF PeerCleared, Received, SetMem
  <2>2. /\ inbox' \in [Tabs -> [Tabs -> Seq(Messages)]]
        /\ ~NoneCleared
        /\ \A r, q \in Tabs, m \in Messages :
             Pending(r, q, m) => Pending(r, q, m)' \/ (r = t /\ q = s /\ m = "session_cleared")
    BY <2>1, ReceivedEffect DEF IInv
  <2>3. TypeOK' /\ ClosedInv' /\ SignedInInv' /\ SentInv'
    BY <2>1, <2>2 DEF IInv, TypeOK, ClosedInv, SignedInInv, SentInv
  <2>4. Told'
    <3>1. News \in Messages /\ News' = News
      BY <2>1 DEF News, Messages
    <3>2. mem'[t] = NoSnapshot /\ \A r \in Tabs \ {t} : mem'[r] = mem[r]
      BY <2>1 DEF IInv, TypeOK
    <3> QED BY <2>1, <2>2, <3>1, <3>2 DEF IInv, Told, Stale
  <2> QED BY <2>1, <2>2, <2>3, <2>4 DEF IInv, LockInv
<1> QED BY <1>1, <1>2 DEF Deliver

----------------------------------------------------------------------------

LEMMA Invariance == Spec => []IInv
<1>1. IInv /\ [Next]_vars => IInv'
  <2> SUFFICES ASSUME IInv, [Next]_vars PROVE IInv'
    OBVIOUS
  <2>1. CASE Next
    BY <2>1, LifecycleStep, UserStep, RefreshStep, NetworkStep, ReceiveStep, DeliverStep,
       OrphanStep DEF Next
  <2>2. CASE UNCHANGED vars
    BY <2>2 DEF vars, tabVars, refreshVars, serverVars, IInv, TypeOK, ClosedInv, SignedInInv,
       SentInv, Told, Stale, News, Pending, LockInv, NoneCleared, InFlight, BeingReplaced
  <2> QED BY <2>1, <2>2
<1> QED BY <1>1, InitInv, PTL DEF Spec

(* The type invariant.                                                     *)
THEOREM TypeCorrect == Spec => []TypeOK
<1>1. IInv => TypeOK
  BY DEF IInv
<1> QED BY <1>1, Invariance, PTL

(* session.ts:332-388: under the lock the stored refresh token is live or  *)
(* being replaced, for any number of tabs, until something disturbs.       *)
THEOREM StoredTokenStaysGood == Spec => []StoredTokenGood
<1>1. IInv => StoredTokenGood
  BY DEF IInv, LockInv, StoredTokenGood
<1> QED BY <1>1, Invariance, PTL

(* session.ts:356,377: and no tab signs out unasked before that.           *)
THEOREM SessionsDoNotEndAlone == Spec => []NoSpontaneousSignOut
<1>1. IInv => NoSpontaneousSignOut
  BY DEF IInv, LockInv, NoSpontaneousSignOut
<1> QED BY <1>1, Invariance, PTL

(* session.ts:148-183: with or without the lock, sign-outs and lost        *)
(* answers included, tabs that have settled hold the stored tokens.        *)
THEOREM TabsAgree == Spec => []QuietTabsAgree
<1>1. IInv => QuietTabsAgree
  BY DEF IInv, Told, Stale, Pending, Quiet, QuietTabsAgree
<1> QED BY <1>1, Invariance, PTL

============================================================================
