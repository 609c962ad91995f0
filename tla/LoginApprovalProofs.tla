------------------------ MODULE LoginApprovalProofs -------------------------
(***************************************************************************)
(* What LoginApproval guarantees for every set of deciding devices and     *)
(* polls.  Everything the handlers and the page hold of a decision, they   *)
(* hold after it took effect (KnownInv); only one poll is ever between the *)
(* claim of an approval and the end of the request (ClaimInv).             *)
(***************************************************************************)
EXTENDS LoginApproval, TLAPS

USE ApprovalAssumption DEF ApprovalAssumption, Decisions, Rows, Answers

\* What is known of a decision has been decided.
KnownInv ==
  /\ row = "pending" => decided = {}
  /\ row \in {"approved", "consumed"} => decided = {"approved"}
  /\ row = "denied" => decided = {"denied"}
  /\ decided # Decisions
  /\ replica \in Decisions => replica \in decided
  /\ wire \in Decisions => wire \in decided
  /\ page \in Decisions => page \in decided
  /\ hasKey \/ signedIn => "approved" \in decided
  /\ \A a \in Approvers :
       /\ apc[a] # "idle" => verdict[a] \in Decisions
       /\ apc[a] = "notify" => verdict[a] \in decided
  /\ \A p \in Polls :
       /\ answer[p] \in Decisions => answer[p] \in decided
       /\ ppc[p] = "answered" => answer[p] \in Answers
       /\ ppc[p] = "forget" => "denied" \in decided

Claiming(p) == ppc[p] \in {"session", "delete"}

\* The request is claimed once.
ClaimInv ==
  /\ sessions <= 1
  /\ sessions > 0 =>
       /\ row \in {"consumed", "deleted"} /\ "approved" \in decided
       /\ \A p \in Polls : ppc[p] # "session"
  /\ \A p \in Polls : Claiming(p) => row = "consumed"
  /\ \A p, q \in Polls : Claiming(p) /\ Claiming(q) => p = q

IInv == TypeOK /\ KnownInv /\ ClaimInv

LEMMA InitInv == Init => IInv
<1> SUFFICES ASSUME Init PROVE IInv
  OBVIOUS
<1>1. expired \in BOOLEAN /\ mounted \in BOOLEAN /\ hasKey \in BOOLEAN /\ signedIn \in BOOLEAN /\ lost \in BOOLEAN
  BY DEF Init
<1>2. TypeOK
  BY <1>1 DEF Init, TypeOK
<1>3. KnownInv /\ ClaimInv
  BY DEF Init, KnownInv, ClaimInv, Claiming
<1> QED BY <1>2, <1>3 DEF IInv

----------------------------------------------------------------------------
(* What the helpers do to the slots of the polls.                          *)

LEMMA AskEffect ==
  ASSUME TypeOK, NEW p \in Polls, NEW w \in {"timer", "fetch"}, Ask(p, w)
  PROVE  /\ ppc' \in [Polls -> {"idle", "read", "claim", "session", "delete", "forget", "answered"}]
         /\ asker' \in [Polls -> {"timer", "fetch", None}]
         /\ answer' \in [Polls -> Answers \cup {None}]
         /\ ppc'[p] = "read" /\ asker'[p] = w /\ answer'[p] = None
         /\ \A q \in Polls \ {p} :
              ppc'[q] = ppc[q] /\ asker'[q] = asker[q] /\ answer'[q] = answer[q]
BY DEF TypeOK, Ask

LEMMA EndPollEffect ==
  ASSUME TypeOK, NEW p \in Polls, EndPoll(p)
  PROVE  /\ ppc' \in [Polls -> {"idle", "read", "claim", "session", "delete", "forget", "answered"}]
         /\ asker' \in [Polls -> {"timer", "fetch", None}]
         /\ answer' \in [Polls -> Answers \cup {None}]
         /\ ppc'[p] = "idle" /\ asker'[p] = None /\ answer'[p] = None
         /\ \A q \in Polls \ {p} :
              ppc'[q] = ppc[q] /\ asker'[q] = asker[q] /\ answer'[q] = answer[q]
BY DEF TypeOK, EndPoll

\* Either way the slot holds nothing afterwards.
LEMMA ShowStatusEffect ==
  ASSUME TypeOK, NEW p \in Polls, NEW s \in Answers, ShowStatus(s, p)
  PROVE  /\ ppc' \in [Polls -> {"idle", "read", "claim", "session", "delete", "forget", "answered"}]
         /\ asker' \in [Polls -> {"timer", "fetch", None}]
         /\ answer' \in [Polls -> Answers \cup {None}]
         /\ ppc'[p] \in {"idle", "read"} /\ answer'[p] = None
         /\ mode = "unlock" => asker'[p] = None
         /\ \A q \in Polls \ {p} :
              ppc'[q] = ppc[q] /\ asker'[q] = asker[q] /\ answer'[q] = answer[q]
         /\ page' = page \/ page' = s
         /\ page' \in {"waiting", "approved", "denied", "expired"}
         /\ hasKey' = (hasKey \/ (s = "approved" /\ mode = "unlock"))
         /\ signedIn' = signedIn /\ mounted' = mounted
<1>1. CASE s = "approved" /\ mode = "login" /\ ~TokenInAnswer
  <2>1. Ask(p, "fetch")
    BY <1>1 DEF ShowStatus
  <2> QED BY <1>1, <2>1, AskEffect DEF ShowStatus, TypeOK, TokenInAnswer
<1>2. CASE ~(s = "approved" /\ mode = "login" /\ ~TokenInAnswer)
  <2>1. EndPoll(p)
    BY <1>2 DEF ShowStatus
  <2> QED BY <1>2, <2>1, EndPollEffect DEF ShowStatus, TypeOK, TokenInAnswer
<1> QED BY <1>1, <1>2

LEMMA ReplyEffect ==
  ASSUME TypeOK, NEW p \in Polls, NEW s \in Answers, Reply(p, s)
  PROVE  /\ ppc' \in [Polls -> {"idle", "read", "claim", "session", "delete", "forget", "answered"}]
         /\ answer' \in [Polls -> Answers \cup {None}]
         /\ ppc'[p] = "answered" /\ answer'[p] = s
         /\ \A q \in Polls \ {p} : ppc'[q] = ppc[q] /\ answer'[q] = answer[q]
BY DEF TypeOK, Reply

----------------------------------------------------------------------------
(* The deciding devices.                                                   *)

LEMMA ApproverKeepsInv ==
  ASSUME IInv, NEW a \in Approvers, ApproverStep(a)
  PROVE  IInv'
<1>1. CASE \E v \in Decisions : Open(a, v)
  BY <1>1 DEF Open, IInv, TypeOK, KnownInv, ClaimInv, Claiming, rowVars, pollVars, socketVars, pageVars
<1>2. CASE Decide(a)
  <2>1. row = "pending" /\ verdict[a] \in Decisions /\ decided = {} /\ sessions = 0
    BY <1>2 DEF Decide, MayDecide, IInv, KnownInv, ClaimInv, TypeOK
  <2>2. row' = verdict[a] /\ decided' = {verdict[a]}
    BY <1>2, <2>1 DEF Decide
  <2>3. TypeOK'
    BY <1>2, <2>1, <2>2 DEF Decide, IInv, TypeOK, pollVars, socketVars, pageVars
  <2>4. KnownInv'
    BY <1>2, <2>1, <2>2 DEF Decide, IInv, TypeOK, KnownInv, pollVars, socketVars, pageVars
  <2>5. ClaimInv'
    BY <1>2, <2>1, <2>2 DEF Decide, IInv, TypeOK, ClaimInv, Claiming, pollVars
  <2> QED BY <2>3, <2>4, <2>5 DEF IInv
<1>3. CASE Notify(a)
  <2>1. verdict[a] \in decided /\ verdict[a] \in Decisions
    BY <1>3 DEF Notify, IInv, KnownInv
  <2>2. TypeOK'
    BY <1>3, <2>1 DEF Notify, IInv, TypeOK, rowVars, pollVars, socketVars, pageVars
  <2>3. KnownInv'
    BY <1>3, <2>1 DEF Notify, IInv, TypeOK, KnownInv, rowVars, pollVars, socketVars, pageVars
  <2>4. ClaimInv'
    BY <1>3 DEF Notify, IInv, ClaimInv, Claiming, rowVars, pollVars
  <2> QED BY <2>2, <2>3, <2>4 DEF IInv
<1>4. CASE GiveUp(a)
  BY <1>4 DEF GiveUp, IInv, TypeOK, KnownInv, ClaimInv, Claiming, rowVars, pollVars, socketVars, pageVars
<1> QED BY <1>1, <1>2, <1>3, <1>4 DEF ApproverStep

----------------------------------------------------------------------------
(* The handler of a poll.                                                  *)

LEMMA StatusReplyType ==
  ASSUME NEW s
  PROVE  StatusReply(s) \in {"error", "expired", "pending"}
<1>1. CASE s = "deleted" /\ ~expired
  BY <1>1 DEF StatusReply
<1>2. CASE s # "deleted" /\ expired
  BY <1>2 DEF StatusReply
<1>3. CASE s # "deleted" /\ ~expired
  BY <1>3 DEF StatusReply
<1>4. CASE s = "deleted" /\ expired
  BY <1>4 DEF StatusReply
<1> QED BY <1>1, <1>2, <1>3, <1>4

LEMMA HandleKeepsInv ==
  ASSUME IInv, NEW p \in Polls, Handle(p)
  PROVE  IInv'
<1> USE DEF rowVars, approverVars, socketVars, pageVars
<1>1. CASE \E s \in Rows : Read(p, s)
  <2>1. PICK s \in Rows : Read(p, s)
    BY <1>1
  <2>2. s \in Decisions => s \in decided
    BY <2>1 DEF Read, IInv, KnownInv
  <2>3. ASSUME s \in Decisions, ~expired
        PROVE  IInv'
    <3>1. /\ ppc' = [ppc EXCEPT ![p] = IF s = "approved" THEN "claim" ELSE "forget"]
          /\ answer' = answer
      BY <2>1, <2>3 DEF Read
    <3> QED BY <2>1, <2>2, <2>3, <3>1 DEF Read, IInv, TypeOK, KnownInv, ClaimInv, Claiming
  <2>4. ASSUME ~(s \in Decisions /\ ~expired)
        PROVE  IInv'
    <3>1. Reply(p, StatusReply(s)) /\ StatusReply(s) \in {"error", "expired", "pending"}
      BY <2>1, <2>4, StatusReplyType DEF Read
    <3>2. /\ ppc' \in [Polls -> {"idle", "read", "claim", "session", "delete", "forget", "answered"}]
          /\ answer' \in [Polls -> Answers \cup {None}]
          /\ ppc'[p] = "answered" /\ answer'[p] \in Answers \ Decisions
          /\ \A q \in Polls \ {p} : ppc'[q] = ppc[q] /\ answer'[q] = answer[q]
      BY <3>1, ReplyEffect DEF IInv
    <3> QED BY <2>1, <3>2 DEF Read, IInv, TypeOK, KnownInv, ClaimInv, Claiming
  <2> QED BY <2>3, <2>4
<1>2. CASE Claim(p)
  <2>1. CASE Claimable
    <3>1. /\ row = "approved" /\ row' = "consumed" /\ decided = {"approved"} /\ sessions = 0
          /\ ppc' = [ppc EXCEPT ![p] = "session"]
          /\ answer' = answer
          /\ \A q \in Polls : ~Claiming(q)
      BY <1>2, <2>1 DEF Claim, Claimable, IInv, TypeOK, KnownInv, ClaimInv
    <3>2. lost' \in BOOLEAN
      BY <1>2, <2>1 DEF Claim
    <3>3. TypeOK'
      BY <1>2, <3>1, <3>2 DEF Claim, IInv, TypeOK
    <3>4. KnownInv'
      BY <1>2, <3>1 DEF Claim, IInv, TypeOK, KnownInv
    <3>5. ClaimInv'
      BY <1>2, <3>1 DEF Claim, IInv, TypeOK, ClaimInv, Claiming
    <3> QED BY <3>3, <3>4, <3>5 DEF IInv
  <2>2. CASE ~Claimable
    <3>1. Reply(p, "pending") /\ UNCHANGED <<row, lost>>
      BY <1>2, <2>2 DEF Claim
    <3>2. /\ ppc' \in [Polls -> {"idle", "read", "claim", "session", "delete", "forget", "answered"}]
          /\ answer' \in [Polls -> Answers \cup {None}]
          /\ ppc'[p] = "answered" /\ answer'[p] \in Answers \ Decisions
          /\ \A q \in Polls \ {p} : ppc'[q] = ppc[q] /\ answer'[q] = answer[q]
      BY <3>1, ReplyEffect DEF IInv
    <3> QED BY <1>2, <3>1, <3>2 DEF Claim, IInv, TypeOK, KnownInv, ClaimInv, Claiming
  <2> QED BY <2>1, <2>2
<1>3. CASE Refuse(p)
  <2>1. /\ ppc' \in [Polls -> {"idle", "read", "claim", "session", "delete", "forget", "answered"}]
        /\ answer' \in [Polls -> Answers \cup {None}]
        /\ ppc'[p] = "answered" /\ answer'[p] \in Answers \ Decisions
        /\ \A q \in Polls \ {p} : ppc'[q] = ppc[q] /\ answer'[q] = answer[q]
    BY <1>3, ReplyEffect DEF Refuse, IInv
  <2> QED BY <1>3, <2>1 DEF Refuse, IInv, TypeOK, KnownInv, ClaimInv, Claiming
<1>4. CASE InsertSession(p)
  <2>1. row = "consumed" /\ decided = {"approved"} /\ sessions = 0
    BY <1>4 DEF InsertSession, IInv, TypeOK, KnownInv, ClaimInv, Claiming
  <2>2. \A q \in Polls \ {p} : ~Claiming(q)
    BY <1>4 DEF InsertSession, IInv, ClaimInv, Claiming
  <2>3. TypeOK'
    BY <1>4, <2>1 DEF InsertSession, IInv, TypeOK
  <2>4. KnownInv'
    BY <1>4, <2>1 DEF InsertSession, IInv, TypeOK, KnownInv
  <2>5. ClaimInv'
    BY <1>4, <2>1, <2>2 DEF InsertSession, IInv, TypeOK, ClaimInv, Claiming
  <2> QED BY <2>3, <2>4, <2>5 DEF IInv
<1>5. CASE Delete(p)
  <2>1. decided = {"approved"} /\ \A q \in Polls \ {p} : ~Claiming(q)
    BY <1>5 DEF Delete, IInv, KnownInv, ClaimInv, Claiming
  <2>2. /\ ppc' \in [Polls -> {"idle", "read", "claim", "session", "delete", "forget", "answered"}]
        /\ answer' \in [Polls -> Answers \cup {None}]
        /\ ppc'[p] = "answered" /\ answer'[p] = "approved"
        /\ \A q \in Polls \ {p} : ppc'[q] = ppc[q] /\ answer'[q] = answer[q]
    BY <1>5, ReplyEffect DEF Delete, IInv
  <2>3. TypeOK'
    BY <1>5, <2>2 DEF Delete, IInv, TypeOK
  <2>4. KnownInv'
    BY <1>5, <2>1, <2>2 DEF Delete, IInv, TypeOK, KnownInv
  <2>5. ClaimInv'
    BY <1>5, <2>1, <2>2 DEF Delete, IInv, TypeOK, ClaimInv, Claiming
  <2> QED BY <2>3, <2>4, <2>5 DEF IInv
<1>6. CASE Forget(p)
  <2>0. "denied" \in decided /\ "approved" \notin decided
    BY <1>6 DEF Forget, IInv, TypeOK, KnownInv
  <2>1. decided = {"denied"} /\ sessions = 0 /\ \A q \in Polls : ~Claiming(q)
    <3>1. decided = {"denied"}
      BY <2>0 DEF IInv, TypeOK
    <3>2. sessions = 0
      BY <2>0 DEF IInv, TypeOK, ClaimInv
    <3>3. \A q \in Polls : ~Claiming(q)
      BY <2>0 DEF IInv, KnownInv, ClaimInv
    <3> QED BY <3>1, <3>2, <3>3
  <2>2. /\ ppc' \in [Polls -> {"idle", "read", "claim", "session", "delete", "forget", "answered"}]
        /\ answer' \in [Polls -> Answers \cup {None}]
        /\ ppc'[p] = "answered" /\ answer'[p] = "denied"
        /\ \A q \in Polls \ {p} : ppc'[q] = ppc[q] /\ answer'[q] = answer[q]
    BY <1>6, ReplyEffect DEF Forget, IInv
  <2>3. lost' \in BOOLEAN
    BY <1>6 DEF Forget
  <2>4. TypeOK'
    BY <1>6, <2>2, <2>3 DEF Forget, IInv, TypeOK
  <2>5. KnownInv'
    BY <1>6, <2>1, <2>2 DEF Forget, IInv, TypeOK, KnownInv
  <2>6. ClaimInv'
    BY <1>6, <2>1, <2>2 DEF Forget, IInv, TypeOK, ClaimInv, Claiming
  <2> QED BY <2>4, <2>5, <2>6 DEF IInv
<1> QED BY <1>1, <1>2, <1>3, <1>4, <1>5, <1>6 DEF Handle

----------------------------------------------------------------------------
(* The page, time and replication.                                         *)

\* A slot that comes to hold nothing keeps what is known and claimed.
LEMMA FreedSlot ==
  ASSUME IInv, NEW p \in Polls, UNCHANGED <<row, sessions, decided>>,
         ppc' \in [Polls -> {"idle", "read", "claim", "session", "delete", "forget", "answered"}],
         ppc'[p] \in {"idle", "read"}, answer'[p] = None,
         \A q \in Polls \ {p} : ppc'[q] = ppc[q] /\ answer'[q] = answer[q]
  PROVE  /\ ClaimInv'
         /\ \A q \in Polls :
              /\ answer'[q] \in Decisions => answer'[q] \in decided'
              /\ ppc'[q] = "forget" => "denied" \in decided'
BY DEF IInv, KnownInv, ClaimInv, Claiming

LEMMA PageKeepsInv ==
  ASSUME IInv, NEW p \in Polls,
         Poll(p) \/ Receive(p) \/ ReceiveMessage(p) \/ TimeOut(p) \/ Die(p)
  PROVE  IInv'
<1> USE DEF rowVars, approverVars, socketVars, pageVars
<1>1. CASE Poll(p)
  <2>1. Ask(p, "timer")
    BY <1>1 DEF Poll
  <2> QED BY <1>1, <2>1, AskEffect, FreedSlot DEF Poll, IInv, TypeOK, KnownInv
<1>2. CASE ReceiveStatus(p) \/ ReceiveMessage(p)
  <2>1. PICK s \in Answers :
          /\ ShowStatus(s, p)
          /\ s \in Decisions => s \in decided
          /\ wire' = wire \/ wire' = None
          /\ UNCHANGED <<mode, rowVars, approverVars, socket, lost, failures>>
    <3>1. CASE ReceiveStatus(p)
      BY <3>1 DEF ReceiveStatus, IInv, KnownInv
    <3>2. CASE ReceiveMessage(p)
      BY <3>2 DEF ReceiveMessage, IInv, TypeOK, KnownInv
    <3> QED BY <1>2, <3>1, <3>2
  <2>2. /\ ppc' \in [Polls -> {"idle", "read", "claim", "session", "delete", "forget", "answered"}]
        /\ asker' \in [Polls -> {"timer", "fetch", None}]
        /\ answer' \in [Polls -> Answers \cup {None}]
        /\ ppc'[p] \in {"idle", "read"} /\ answer'[p] = None
        /\ \A q \in Polls \ {p} : ppc'[q] = ppc[q] /\ answer'[q] = answer[q]
    BY <2>1, ShowStatusEffect DEF IInv
  <2>3. /\ page' = page \/ page' = s
        /\ page' \in {"waiting", "approved", "denied", "expired"}
        /\ hasKey' = (hasKey \/ (s = "approved" /\ mode = "unlock"))
        /\ signedIn' = signedIn /\ mounted' = mounted
    BY <2>1, ShowStatusEffect DEF IInv
  <2>4. hasKey' \in BOOLEAN
    BY <2>3
  <2>5. TypeOK'
    BY <2>1, <2>2, <2>3, <2>4 DEF IInv, TypeOK
  <2>6. hasKey' \/ signedIn' => "approved" \in decided
    BY <2>1, <2>3 DEF IInv, KnownInv
  <2>7. KnownInv'
    BY <2>1, <2>2, <2>3, <2>6, FreedSlot DEF IInv, KnownInv
  <2>8. ClaimInv'
    BY <2>1, <2>2, FreedSlot
  <2> QED BY <2>5, <2>7, <2>8 DEF IInv
<1>3. CASE ReceiveFetched(p)
  <2>1. EndPoll(p) /\ signedIn' = signedIn
    BY <1>3 DEF ReceiveFetched, TokenInAnswer, IInv, TypeOK
  <2> QED BY <1>3, <2>1, EndPollEffect, FreedSlot DEF ReceiveFetched, IInv, TypeOK, KnownInv
<1>4. CASE DropAnswer(p)
  BY <1>4, EndPollEffect, FreedSlot DEF DropAnswer, IInv, TypeOK, KnownInv
<1>5. CASE TimeOut(p)
  <2>1. lost' \in BOOLEAN
    BY <1>5 DEF TimeOut
  <2> QED BY <1>5, <2>1 DEF TimeOut, IInv, TypeOK, KnownInv, ClaimInv, Claiming
<1>6. CASE Die(p)
  <2>1. lost' \in BOOLEAN
    BY <1>6 DEF Die
  <2>2. TypeOK'
    BY <1>6, <2>1, EndPollEffect DEF Die, IInv, TypeOK
  <2> QED BY <1>6, <2>2, EndPollEffect, FreedSlot DEF Die, IInv, KnownInv
<1> QED BY <1>1, <1>2, <1>3, <1>4, <1>5, <1>6 DEF Receive

LEMMA OthersKeepInv ==
  ASSUME IInv, Subscribe \/ Disconnect \/ Unmount \/ Expire \/ CatchUp
  PROVE  IInv'
<1> USE DEF rowVars, approverVars, pollVars, socketVars, pageVars
<1>1. KnownInv' /\ ClaimInv'
  BY DEF Subscribe, Disconnect, Unmount, Expire, CatchUp, IInv, KnownInv, ClaimInv, Claiming
<1>2. expired' \in BOOLEAN
  BY DEF Subscribe, Disconnect, Unmount, Expire, CatchUp, IInv, TypeOK
<1>3. mounted' \in BOOLEAN
  BY DEF Subscribe, Disconnect, Unmount, Expire, CatchUp, IInv, TypeOK
<1>4. UNCHANGED <<mode, row, sessions, decided, apc, verdict, ppc, asker, answer, page, hasKey, signedIn, lost, failures>>
  BY DEF Subscribe, Disconnect, Unmount, Expire, CatchUp
<1>5. /\ replica' \in {row, replica} /\ wire' \in {wire, None}
      /\ socket' \in {"connecting", "subscribed", "closed"}
  BY DEF Subscribe, Disconnect, Unmount, Expire, CatchUp, IInv, TypeOK
<1>6. TypeOK'
  BY <1>2, <1>3, <1>4, <1>5 DEF IInv, TypeOK
<1> QED BY <1>1, <1>6 DEF IInv

LEMMA StepKeepsInv == IInv /\ [Next]_vars => IInv'
<1>1. ASSUME IInv, UNCHANGED vars
      PROVE  IInv'
  BY <1>1 DEF vars, rowVars, approverVars, pollVars, socketVars, pageVars,
              IInv, TypeOK, KnownInv, ClaimInv, Claiming
<1> QED BY <1>1, ApproverKeepsInv, HandleKeepsInv, PageKeepsInv, OthersKeepInv
        DEF Next, PollStep

LEMMA Invariance == Spec => []IInv
<1>1. Init => IInv
  BY InitInv
<1>2. IInv /\ [Next]_vars => IInv'
  BY StepKeepsInv
<1> QED BY <1>1, <1>2, PTL DEF Spec

----------------------------------------------------------------------------

(* The type invariant.                                                     *)
THEOREM TypeCorrect == Spec => []TypeOK
<1>1. IInv => TypeOK
  BY DEF IInv
<1> QED BY <1>1, Invariance, PTL

(* However many polls find the approval, one session is made of it: the    *)
(* update that claims it succeeds once (approval.ts:152-163).              *)
THEOREM SignsInOnce == Spec => []OneSession
<1>1. IInv => OneSession
  BY DEF IInv, ClaimInv, OneSession
<1> QED BY <1>1, Invariance, PTL

(* The first decision stands, and what the page has comes from it          *)
(* (devices.ts:152-171, 227-240).                                          *)
THEOREM DecidedOnce == Spec => []OneDecision
<1>1. IInv => OneDecision
  <2> SUFFICES ASSUME IInv PROVE OneDecision
    OBVIOUS
  <2>1. decided \subseteq Decisions /\ decided # Decisions
    BY DEF IInv, TypeOK, KnownInv
  <2>2. sessions > 0 \/ hasKey \/ signedIn => "approved" \in decided
    BY DEF IInv, KnownInv, ClaimInv
  <2>3. page \in Decisions => page \in decided
    BY DEF IInv, KnownInv
  <2>4. \A d \in decided : decided = {d}
    BY <2>1
  <2> QED BY <2>1, <2>2, <2>3, <2>4 DEF OneDecision
<1> QED BY <1>1, Invariance, PTL

----------------------------------------------------------------------------
(* An approval reaches the page that wants the key.                        *)

\* A page that wants only the key never asks a second time.
ReachInv ==
  /\ mode = "unlock" => \A p \in Polls : asker[p] # "fetch"
  /\ ApprovalReachesPage

Reaches ==
  \/ row = "approved"
  \/ \E p \in Polls : Holds(p) /\ asker[p] # None
  \/ hasKey

\* Slots other than p, the row and the key stay as they are.
Elsewhere(p) ==
  /\ \A q \in Polls \ {p} :
       ppc'[q] = ppc[q] /\ asker'[q] = asker[q] /\ answer'[q] = answer[q]
  /\ hasKey => hasKey'

LEMMA ReachApprover ==
  ASSUME IInv, ReachInv, mode = "unlock", NEW a \in Approvers, ApproverStep(a)
  PROVE  ReachInv'
<1>1. CASE Decide(a)
  <2>1. decided = {} /\ row' = verdict[a] /\ decided' = {verdict[a]}
    BY <1>1 DEF Decide, MayDecide, IInv, KnownInv
  <2>2. "approved" \in decided' => row' = "approved"
    BY <2>1
  <2> QED BY <1>1, <2>2 DEF Decide, ReachInv, ApprovalReachesPage, pollVars, pageVars
<1>2. CASE (\E v \in Decisions : Open(a, v)) \/ Notify(a) \/ GiveUp(a)
  BY <1>2 DEF Open, Notify, GiveUp, ReachInv, ApprovalReachesPage, Holds, rowVars, pollVars, pageVars
<1> QED BY <1>1, <1>2 DEF ApproverStep

LEMMA ReachHandle ==
  ASSUME IInv, ReachInv, mode = "unlock", NEW p \in Polls, Handle(p)
  PROVE  ReachInv'
<1> USE DEF rowVars, pageVars
<1>1. /\ UNCHANGED <<mode, asker, hasKey, decided, expired>> /\ (lost => lost')
      /\ \A q \in Polls \ {p} : ppc'[q] = ppc[q] /\ answer'[q] = answer[q]
  BY DEF Handle, Read, Claim, Refuse, InsertSession, Delete, Forget, Reply, IInv, TypeOK
<1>2. ASSUME "approved" \in decided, ~lost', Reaches
      PROVE  Reaches'
  <2>1. CASE \E s \in Rows : Read(p, s)
    <3>1. row' = row /\ ~Holds(p)
      BY <2>1 DEF Read, Holds
    <3> QED BY <1>1, <1>2, <3>1 DEF Reaches, Holds
  <2>2. CASE Claim(p)
    <3>1. CASE Claimable
      <4>1. ppc' = [ppc EXCEPT ![p] = "session"] /\ lost' = (lost \/ asker[p] = None)
        BY <2>2, <3>1 DEF Claim
      <4>2. asker[p] # None
        BY <1>2, <4>1
      <4> QED BY <1>1, <4>1, <4>2 DEF Reaches, Holds, IInv, TypeOK
    <3>2. CASE ~Claimable
      <4>1. row' = row /\ ~Holds(p)
        BY <2>2, <3>2 DEF Claim, Holds
      <4> QED BY <1>1, <1>2, <4>1 DEF Reaches, Holds
    <3> QED BY <3>1, <3>2
  <2>3. CASE Refuse(p)
    BY <1>2, <2>3 DEF Refuse
  <2>4. CASE InsertSession(p) \/ Delete(p)
    <3>1. Holds(p)' /\ row # "approved"
      BY <2>4 DEF InsertSession, Delete, Reply, Holds, IInv, TypeOK, ClaimInv, Claiming
    <3> QED BY <1>1, <1>2, <3>1 DEF Reaches, Holds
  <2>5. CASE Forget(p)
    BY <1>2, <2>5 DEF Forget, IInv, TypeOK, KnownInv
  <2> QED BY <2>1, <2>2, <2>3, <2>4, <2>5 DEF Handle
<1>3. ApprovalReachesPage = ("approved" \in decided /\ ~expired /\ ~lost => Reaches)
  BY DEF ApprovalReachesPage, Reaches
<1>4. mode' = mode /\ (lost => lost') /\ expired' = expired
  BY <1>1
<1>5. "approved" \in decided /\ ~expired /\ ~lost' => Reaches
  BY <1>3, <1>4 DEF ReachInv
<1>6. "approved" \in decided' /\ ~expired' /\ ~lost' => Reaches'
  BY <1>1, <1>2, <1>4, <1>5
<1>7. ApprovalReachesPage'
  BY <1>6 DEF ApprovalReachesPage, Reaches
<1> QED BY <1>1, <1>7 DEF ReachInv

\* A slot that held nothing, or whose loss is on record, may be freed.
LEMMA ReachFreed ==
  ASSUME ReachInv, mode = "unlock", NEW p \in Polls,
         UNCHANGED <<mode, row, decided, expired>>,
         lost => lost', hasKey => hasKey', asker'[p] # "fetch",
         \A q \in Polls \ {p} :
           ppc'[q] = ppc[q] /\ asker'[q] = asker[q] /\ answer'[q] = answer[q],
         "approved" \in decided /\ Holds(p) /\ asker[p] # None => hasKey' \/ lost'
  PROVE  ReachInv'
<1>1. ASSUME "approved" \in decided, ~lost', Reaches
      PROVE  Reaches'
  <2>1. CASE hasKey'
    BY <2>1 DEF Reaches
  <2>2. CASE ~hasKey'
    BY <1>1, <2>2 DEF Reaches, Holds
  <2> QED BY <2>1, <2>2
<1>2. ApprovalReachesPage = ("approved" \in decided /\ ~expired /\ ~lost => Reaches)
  BY DEF ApprovalReachesPage, Reaches
<1>3. "approved" \in decided /\ ~expired /\ ~lost' => Reaches
  BY <1>2 DEF ReachInv
<1>4. decided' = decided /\ expired' = expired
  OBVIOUS
<1>5. "approved" \in decided' /\ ~expired' /\ ~lost' => Reaches'
  BY <1>1, <1>3, <1>4
<1>6. ApprovalReachesPage'
  BY <1>5 DEF ApprovalReachesPage, Reaches
<1>7. \A q \in Polls : asker'[q] # "fetch"
  BY DEF ReachInv
<1> QED BY <1>6, <1>7 DEF ReachInv

LEMMA ReachPage ==
  ASSUME IInv, ReachInv, mode = "unlock", NEW p \in Polls,
         Poll(p) \/ Receive(p) \/ ReceiveMessage(p) \/ TimeOut(p) \/ Die(p)
  PROVE  ReachInv'
<1> USE DEF rowVars, pageVars
<1>1. CASE Poll(p)
  <2>1. ~Holds(p) /\ hasKey' = hasKey /\ lost' = lost
    BY <1>1 DEF Poll, Holds
  <2> QED BY <1>1, <2>1, AskEffect, ReachFreed DEF Poll, IInv
<1>2. CASE ReceiveStatus(p) \/ ReceiveMessage(p)
  <2>1. PICK s \in Answers :
          /\ ShowStatus(s, p)
          /\ Holds(p) => s = answer[p]
          /\ lost' = lost /\ UNCHANGED <<mode, row, decided, expired>>
    BY <1>2 DEF ReceiveStatus, ReceiveMessage, IInv, TypeOK, KnownInv, Holds
  <2>2. /\ asker'[p] # "fetch"
        /\ \A q \in Polls \ {p} :
             ppc'[q] = ppc[q] /\ asker'[q] = asker[q] /\ answer'[q] = answer[q]
        /\ hasKey' = (hasKey \/ (s = "approved" /\ mode = "unlock"))
    BY <2>1, ShowStatusEffect DEF IInv
  <2>3. hasKey => hasKey'
    BY <2>2
  <2>4. s = "approved" => hasKey'
    BY <2>2
  <2>5. "approved" \in decided /\ Holds(p) => s = "approved"
    <3>1. Holds(p) => answer[p] \in Decisions
      BY <1>2 DEF ReceiveStatus, ReceiveMessage, Holds
    <3>2. answer[p] = "denied" => "approved" \notin decided
      BY DEF IInv, TypeOK, KnownInv
    <3> QED BY <2>1, <3>1, <3>2
  <2>6. "approved" \in decided /\ Holds(p) => hasKey'
    BY <2>4, <2>5
  <2> QED BY <2>1, <2>2, <2>3, <2>6, ReachFreed
<1>3. CASE ReceiveFetched(p)
  BY <1>3 DEF ReceiveFetched, ReachInv
<1>4. CASE DropAnswer(p)
  <2>1. asker[p] = None /\ hasKey' = hasKey /\ lost' = lost
    BY <1>4 DEF DropAnswer
  <2> QED BY <1>4, <2>1, EndPollEffect, ReachFreed DEF DropAnswer, IInv
<1>5. CASE TimeOut(p) \/ Die(p)
  <2>1. lost' = (lost \/ Holds(p)) /\ hasKey' = hasKey /\ UNCHANGED <<mode, row, decided, expired>>
    BY <1>5 DEF TimeOut, Die
  <2>2. lost => lost'
    BY <2>1
  <2>3. Holds(p) => lost'
    BY <2>1
  <2>4. /\ asker'[p] # "fetch"
        /\ \A q \in Polls \ {p} :
             ppc'[q] = ppc[q] /\ asker'[q] = asker[q] /\ answer'[q] = answer[q]
    <3>1. CASE TimeOut(p)
      BY <3>1 DEF TimeOut, IInv, TypeOK
    <3>2. CASE Die(p)
      BY <3>2, EndPollEffect DEF Die, IInv
    <3> QED BY <1>5, <3>1, <3>2
  <2>5. hasKey => hasKey'
    BY <2>1
  <2> QED BY <2>1, <2>2, <2>3, <2>4, <2>5, ReachFreed
<1> QED BY <1>1, <1>2, <1>3, <1>4, <1>5 DEF Receive

LEMMA ReachStep == IInv /\ ReachInv /\ [Next]_vars => ReachInv'
<1>1. mode' = mode /\ mode # "unlock" => ReachInv'
  BY DEF ReachInv, ApprovalReachesPage
<1>2. [Next]_vars => mode' = mode
  BY DEF Next, vars, ApproverStep, PollStep, Handle, Receive, Open, Decide, Notify, GiveUp,
         Read, Claim, Refuse, InsertSession, Delete, Forget, Poll, ReceiveStatus,
         ReceiveFetched, DropAnswer, ReceiveMessage, TimeOut, Die,
         Subscribe, Disconnect, Unmount, Expire, CatchUp
<1>3. ASSUME IInv, ReachInv, mode = "unlock",
             Subscribe \/ Disconnect \/ Unmount \/ Expire \/ CatchUp \/ UNCHANGED vars
      PROVE  ReachInv'
  <2>1. UNCHANGED <<mode, row, decided, ppc, asker, answer, hasKey, lost>>
    BY <1>3 DEF Subscribe, Disconnect, Unmount, Expire, CatchUp, vars, rowVars, pollVars, pageVars
  <2>2. ~expired' => ~expired
    BY <1>3 DEF Subscribe, Disconnect, Unmount, Expire, CatchUp, vars, rowVars
  <2> QED BY <1>3, <2>1, <2>2 DEF ReachInv, ApprovalReachesPage, Holds
<1> QED BY <1>1, <1>2, <1>3, ReachApprover, ReachHandle, ReachPage DEF Next, PollStep

(* An approval is there to be claimed, on its way to the page that wants   *)
(* the key, or there, until the request expires or its one answer is lost  *)
(* (approval.ts:148-235).                                                  *)
THEOREM ApprovalsReachPages == Spec => []ApprovalReachesPage
<1>1. Init => ReachInv
  BY DEF Init, ReachInv, ApprovalReachesPage
<1>2. IInv /\ ReachInv /\ [Next]_vars => ReachInv'
  BY ReachStep
<1>3. ReachInv => ApprovalReachesPage
  BY DEF ReachInv
<1> QED BY <1>1, <1>2, <1>3, Invariance, PTL DEF Spec

=============================================================================
