------------------------ MODULE RefreshTokensProofs ------------------------
(***************************************************************************)
(* What RefreshTokens guarantees for every set of tokens and handlers.     *)
(* The invariants are layered: each lemma about a step uses the invariants *)
(* proved before it, in the order TypeOK, HandlerInv, BatonInv, ChainInv,  *)
(* ReplayInv, and the properties follow from the layers.                   *)
(***************************************************************************)
EXTENDS RefreshTokens, TLAPS

USE NoTokenAssumption DEF Found, Claimable, Retired, RotatedFrom

----------------------------------------------------------------------------
(* Types, and what a handler in progress has in its hands.                 *)

HandlerInv ==
  /\ \A t \in Tokens \ issued : family[t] = t /\ parent[t] = NoToken
  /\ \A t \in issued : /\ family[t] \in issued
                       /\ family[family[t]] = family[t]
                       /\ parent[t] \in issued \cup {NoToken}
  /\ \A r \in Requests :
       /\ pc[r] # "idle" => tok[r] \in presented
       /\ pc[r] = "idle" => r \notin ctxSso
       /\ pc[r] \in {"context", "claim", "insert"} => nxt[r] \in Tokens
       /\ pc[r] = "expire" => tok[r] \in expired
       /\ r \in ctxSso => tok[r] \in ssoBound
       /\ nxt[r] \notin issued
  /\ \A r, q \in Requests : r # q /\ nxt[r] \in Tokens => nxt[r] # nxt[q]

LEMMA InitHandlers == Init => TypeOK /\ HandlerInv
BY DEF Init, TypeOK, HandlerInv, PCs

LEMMA FinishEffect ==
  ASSUME TypeOK, NEW r \in Requests, Finish(r)
  PROVE  /\ pc' \in [Requests -> PCs]
         /\ tok' \in [Requests -> Tokens \cup {NoToken}]
         /\ nxt' \in [Requests -> Tokens \cup {NoToken}]
         /\ ctxSso' = ctxSso \ {r}
         /\ pc'[r] = "idle" /\ tok'[r] = NoToken /\ nxt'[r] = NoToken
         /\ \A q \in Requests :
              q # r => pc'[q] = pc[q] /\ tok'[q] = tok[q] /\ nxt'[q] = nxt[q]
BY DEF TypeOK, Finish, PCs

LEMMA HandlersStep ==
  ASSUME TypeOK, HandlerInv, [Next]_vars
  PROVE  TypeOK' /\ HandlerInv'
<1> USE DEF rowVars, orgRowVars, handlerVars, historyVars
<1>1. ASSUME NEW t \in Tokens, NEW org \in BOOLEAN, NEW sso \in BOOLEAN,
             Issue(t, org, sso)
      PROVE  TypeOK' /\ HandlerInv'
  <2>1. TypeOK'
    BY <1>1 DEF TypeOK, Issue
  <2>2. HandlerInv'
    BY <1>1 DEF TypeOK, HandlerInv, Issue, Fresh
  <2> QED BY <2>1, <2>2
<1>2. ASSUME NEW r \in Requests, NEW t \in Tokens, Present(r, t)
      PROVE  TypeOK' /\ HandlerInv'
  <2>1. AfterRead(t) \in PCs \ {"idle", "insert"}
    BY DEF AfterRead, PCs
  <2>2. TypeOK'
    BY <1>2, <2>1 DEF TypeOK, Present, PCs
  <2>3. AfterRead(t) = "expire" => t \in expired
    BY DEF AfterRead
  <2>4. HandlerInv'
    BY <1>2, <2>1, <2>3 DEF TypeOK, HandlerInv, Present, Fresh, PCs
  <2> QED BY <2>2, <2>4
<1>3. ASSUME NEW r \in Requests, ReadContext(r)
      PROVE  TypeOK' /\ HandlerInv'
  <2>1. PICK active \in BOOLEAN, required \in BOOLEAN :
          IF ContextRefused(tok[r], active, required)
          THEN Finish(r)
          ELSE /\ Goto(r, "claim")
               /\ ctxSso' = IF required THEN ctxSso \cup {r} ELSE ctxSso
               /\ UNCHANGED <<tok, nxt>>
    BY <1>3 DEF ReadContext
  <2>2. CASE ContextRefused(tok[r], active, required)
    <3>1. Finish(r)
      BY <2>1, <2>2
    <3>2. TypeOK'
      BY <1>3, <3>1, FinishEffect DEF TypeOK, ReadContext
    <3>3. HandlerInv'
      BY <1>3, <3>1, FinishEffect DEF TypeOK, HandlerInv, ReadContext
    <3> QED BY <3>2, <3>3
  <2>3. CASE ~ContextRefused(tok[r], active, required)
    <3>1. TypeOK'
      BY <1>3, <2>1, <2>3 DEF TypeOK, ReadContext, Goto, PCs
    <3>2. HandlerInv'
      BY <1>3, <2>1, <2>3
      DEF TypeOK, HandlerInv, ReadContext, ContextRefused, Goto, PCs
    <3> QED BY <3>1, <3>2
  <2> QED BY <2>2, <2>3
<1>4. ASSUME NEW r \in Requests, Claim(r)
      PROVE  TypeOK' /\ HandlerInv'
  <2>0. tok[r] \in issued
    BY <1>4 DEF TypeOK, HandlerInv, Claim
  <2>1. TypeOK'
    BY <1>4, <2>0 DEF TypeOK, Claim, Goto, PCs
  <2>2. HandlerInv'
    BY <1>4 DEF TypeOK, HandlerInv, Claim, Goto, PCs
  <2> QED BY <2>1, <2>2
<1>5. ASSUME NEW r \in Requests, Insert(r)
      PROVE  TypeOK' /\ HandlerInv'
  <2>0. /\ tok[r] \in issued /\ nxt[r] \in Tokens \ issued
        /\ family[tok[r]] \in issued
    BY <1>5 DEF TypeOK, HandlerInv, Insert
  <2>1. Finish(r)
    BY <1>5 DEF Insert
  <2>2. TypeOK'
    BY <1>5, <2>0, <2>1, FinishEffect DEF TypeOK, HandlerInv, Insert
  <2>3. HandlerInv'
    BY <1>5, <2>0, <2>1, FinishEffect DEF TypeOK, HandlerInv, Insert
  <2> QED BY <2>2, <2>3
<1>6. ASSUME NEW r \in Requests, MarkFamily(r)
      PROVE  TypeOK' /\ HandlerInv'
  <2>1. Finish(r) /\ tok[r] \in issued
    BY <1>6 DEF TypeOK, HandlerInv, MarkFamily
  <2>2. TypeOK'
    BY <1>6, <2>1, FinishEffect DEF TypeOK, MarkFamily, FamilyOf
  <2>3. HandlerInv'
    BY <1>6, <2>1, FinishEffect DEF TypeOK, HandlerInv, MarkFamily, FamilyOf
  <2> QED BY <2>2, <2>3
<1>7. ASSUME NEW r \in Requests, RetireExpired(r)
      PROVE  TypeOK' /\ HandlerInv'
  <2>1. Finish(r) /\ tok[r] \in issued
    BY <1>7 DEF TypeOK, HandlerInv, RetireExpired
  <2>2. TypeOK'
    BY <1>7, <2>1, FinishEffect DEF TypeOK, RetireExpired
  <2>3. HandlerInv'
    BY <1>7, <2>1, FinishEffect DEF TypeOK, HandlerInv, RetireExpired
  <2> QED BY <2>2, <2>3
<1>8. ASSUME NEW r \in Requests, Crash(r)
      PROVE  TypeOK' /\ HandlerInv'
  <2>1. Finish(r) /\ tok[r] \in issued
    BY <1>8 DEF TypeOK, HandlerInv, Crash
  <2>2. TypeOK'
    BY <1>8, <2>1, FinishEffect DEF TypeOK, Crash
  <2>3. HandlerInv'
    BY <1>8, <2>1, FinishEffect DEF TypeOK, HandlerInv, Crash
  <2> QED BY <2>2, <2>3
<1>9. ASSUME NEW t \in Tokens, Expire(t)
      PROVE  TypeOK' /\ HandlerInv'
  BY <1>9 DEF TypeOK, HandlerInv, Expire
<1>10. CASE UNCHANGED vars
  BY <1>10 DEF TypeOK, HandlerInv, vars
<1> QED
  BY <1>1, <1>2, <1>3, <1>4, <1>5, <1>6, <1>7, <1>8, <1>9, <1>10
  DEF Next, Handler

THEOREM TypeCorrect == Spec => []TypeOK
<1>1. TypeOK /\ HandlerInv /\ [Next]_vars => TypeOK' /\ HandlerInv'
  BY HandlersStep
<1> QED BY <1>1, InitHandlers, PTL DEF Spec

LEMMA HandlersCorrect == Spec => [](TypeOK /\ HandlerInv)
<1>1. TypeOK /\ HandlerInv /\ [Next]_vars => TypeOK' /\ HandlerInv'
  BY HandlersStep
<1> QED BY <1>1, InitHandlers, PTL DEF Spec

----------------------------------------------------------------------------
(* The baton: within a family there is one live token or one claim that    *)
(* has not been followed by its insert, never two of either kind and never *)
(* one of each.  AtMostOneLive alone is not inductive: two claims in       *)
(* progress in one family would lead to two live tokens.                   *)

Claimed(r) == pc[r] = "insert"

BatonInv ==
  /\ AtMostOneLive
  /\ \A r \in Requests, t \in Live : Claimed(r) => ~SameFamily(t, tok[r])
  /\ \A r, q \in Requests :
       Claimed(r) /\ Claimed(q) /\ SameFamily(tok[r], tok[q]) => r = q

(* A step that leaves the families alone, makes no token live and starts   *)
(* no claim keeps the baton.                                               *)
LEMMA BatonKept ==
  ASSUME TypeOK, BatonInv, family' = family, Live' \subseteq Live,
         \A r \in Requests : Claimed(r)' => Claimed(r) /\ tok'[r] = tok[r]
  PROVE  BatonInv'
BY DEF BatonInv, AtMostOneLive, Live, SameFamily

LEMMA BatonStep ==
  ASSUME TypeOK, HandlerInv, BatonInv, [Next]_vars
  PROVE  BatonInv'
<1> USE DEF rowVars, orgRowVars, handlerVars, historyVars
<1>1. ASSUME NEW t \in Tokens, NEW org \in BOOLEAN, NEW sso \in BOOLEAN,
             Issue(t, org, sso)
      PROVE  BatonInv'
  <2>1. t \in Tokens \ issued /\ family[t] = t /\ family' = family
    BY <1>1 DEF Issue, Fresh, HandlerInv
  <2>2. Live' \subseteq Live \cup {t}
    BY <1>1 DEF Issue, Live, Unused
  <2>3. \A u \in issued : ~SameFamily(u, t)
    BY <2>1 DEF HandlerInv, SameFamily
  <2>4. \A r \in Requests : Claimed(r) => tok[r] \in issued
    BY DEF Claimed, HandlerInv, TypeOK
  <2>5. pc' = pc /\ tok' = tok
    BY <1>1 DEF Issue
  <2> QED
    BY <2>1, <2>2, <2>3, <2>4, <2>5
    DEF BatonInv, AtMostOneLive, Claimed, SameFamily, Live
<1>2. ASSUME NEW r \in Requests, NEW t \in Tokens, Present(r, t)
      PROVE  BatonInv'
  <2>1. AfterRead(t) # "insert"
    BY DEF AfterRead
  <2>2. \A q \in Requests : Claimed(q)' => Claimed(q) /\ tok'[q] = tok[q]
    BY <1>2, <2>1 DEF Present, Claimed, TypeOK
  <2>3. Live' = Live /\ family' = family
    BY <1>2 DEF Present, Live, Unused
  <2> QED BY <2>2, <2>3, BatonKept
<1>3. ASSUME NEW r \in Requests, ReadContext(r)
      PROVE  BatonInv'
  <2>1. \A q \in Requests : Claimed(q)' => Claimed(q) /\ tok'[q] = tok[q]
    BY <1>3 DEF ReadContext, Finish, Goto, Claimed, TypeOK
  <2>2. Live' = Live /\ family' = family
    BY <1>3 DEF ReadContext, Live, Unused
  <2> QED BY <2>1, <2>2, BatonKept
<1>4. ASSUME NEW r \in Requests, Claim(r)
      PROVE  BatonInv'
  <2>1. CASE Unused(tok[r])
    <3>1. tok[r] \in Live
      BY <1>4, <2>1 DEF Claim, HandlerInv, TypeOK, Live
    <3>2. Live' = Live \ {tok[r]} /\ family' = family /\ tok' = tok
      BY <1>4, <2>1 DEF Claim, Live, Unused
    <3>3. \A q \in Requests : Claimed(q)' <=> Claimed(q) \/ q = r
      BY <1>4, <2>1 DEF Claim, Goto, Claimed, TypeOK
    <3>4. \A q \in Requests : Claimed(q) => ~SameFamily(tok[r], tok[q])
      BY <3>1 DEF BatonInv
    <3>5. \A t \in Live' : ~SameFamily(t, tok[r])
      BY <3>1, <3>2 DEF BatonInv, AtMostOneLive
    <3> QED
      BY <3>2, <3>3, <3>4, <3>5 DEF BatonInv, AtMostOneLive, SameFamily
  <2>2. CASE ~Unused(tok[r])
    <3>1. \A q \in Requests : Claimed(q)' => Claimed(q) /\ tok'[q] = tok[q]
      BY <1>4, <2>2 DEF Claim, Goto, Claimed, TypeOK
    <3>2. Live' = Live /\ family' = family
      BY <1>4, <2>2 DEF Claim, Live, Unused
    <3> QED BY <3>1, <3>2, BatonKept
  <2> QED BY <2>1, <2>2
<1>5. ASSUME NEW r \in Requests, Insert(r)
      PROVE  BatonInv'
  <2>1. /\ Claimed(r) /\ Finish(r) /\ tok[r] \in issued
        /\ nxt[r] \in Tokens \ issued
    BY <1>5 DEF Insert, Claimed, HandlerInv, TypeOK
  <2>2. \A q \in Requests :
          Claimed(q)' <=> Claimed(q) /\ q # r
    BY <2>1, FinishEffect DEF Claimed
  <2>3. \A q \in Requests : q # r => tok'[q] = tok[q]
    BY <2>1, FinishEffect
  <2>4. /\ family'[nxt[r]] = family[tok[r]]
        /\ \A u \in issued : family'[u] = family[u]
    BY <1>5, <2>1 DEF Insert, TypeOK
  <2>5. Live' \subseteq Live \cup {nxt[r]}
    BY <1>5 DEF Insert, Live, Unused
  <2>6. \A t \in Live : ~SameFamily(t, tok[r])
    BY <2>1 DEF BatonInv
  <2>7. \A q \in Requests : Claimed(q) => tok[q] \in issued
    BY DEF Claimed, HandlerInv, TypeOK
  <2>8. AtMostOneLive'
    BY <2>4, <2>5, <2>6 DEF BatonInv, AtMostOneLive, SameFamily, Live
  <2>9. \A q \in Requests, t \in Live' :
          Claimed(q)' => ~SameFamily(t, tok[q])'
    BY <2>1, <2>2, <2>3, <2>4, <2>5, <2>7 DEF BatonInv, SameFamily, Live
  <2>10. \A q, p \in Requests :
          Claimed(q)' /\ Claimed(p)' /\ SameFamily(tok[q], tok[p])' => q = p
    BY <2>2, <2>3, <2>4, <2>7 DEF BatonInv, SameFamily
  <2> QED BY <2>8, <2>9, <2>10 DEF BatonInv
<1>6. ASSUME NEW r \in Requests, MarkFamily(r) \/ RetireExpired(r) \/ Crash(r)
      PROVE  BatonInv'
  <2>1. Finish(r)
    BY <1>6 DEF MarkFamily, RetireExpired, Crash
  <2>2. \A q \in Requests : Claimed(q)' => Claimed(q) /\ tok'[q] = tok[q]
    BY <2>1, FinishEffect DEF Claimed
  <2>3. Live' \subseteq Live /\ family' = family
    BY <1>6 DEF MarkFamily, RetireExpired, Crash, Live, Unused
  <2> QED BY <2>2, <2>3, BatonKept
<1>7. ASSUME NEW t \in Tokens, Expire(t)
      PROVE  BatonInv'
  BY <1>7, BatonKept DEF Expire, Live, Unused, Claimed
<1>8. CASE UNCHANGED vars
  BY <1>8, BatonKept DEF vars, Live, Unused, Claimed
<1> QED
  BY <1>1, <1>2, <1>3, <1>4, <1>5, <1>6, <1>7, <1>8 DEF Next, Handler

THEOREM OneLiveTokenPerFamily == Spec => []AtMostOneLive
<1>1. Init => BatonInv
  BY DEF Init, BatonInv, AtMostOneLive, Live, Claimed
<1>2. TypeOK /\ HandlerInv /\ BatonInv /\ [Next]_vars => BatonInv'
  BY BatonStep
<1>3. BatonInv => AtMostOneLive
  BY DEF BatonInv
<1> QED BY <1>1, <1>2, <1>3, HandlersCorrect, PTL DEF Spec

----------------------------------------------------------------------------
(* The chain: a claimed token is revoked and has no successor yet, and by  *)
(* the baton no other handler has claimed it, so the row it inserts is the *)
(* first and only one.                                                     *)

ChainInv ==
  /\ LinearRotation
  /\ \A r \in Requests :
       Claimed(r) => /\ tok[r] \in revoked
                     /\ \A u \in issued : parent[u] # tok[r]

(* A step that writes no row and starts no claim keeps the chain.          *)
LEMMA ChainKept ==
  ASSUME TypeOK, ChainInv, UNCHANGED <<issued, family, parent>>,
         revoked \subseteq revoked',
         \A r \in Requests : Claimed(r)' => Claimed(r) /\ tok'[r] = tok[r]
  PROVE  ChainInv'
BY DEF ChainInv, LinearRotation, SameFamily

LEMMA ChainStep ==
  ASSUME TypeOK, HandlerInv, BatonInv, ChainInv, [Next]_vars
  PROVE  ChainInv'
<1> USE DEF rowVars, orgRowVars, handlerVars, historyVars
<1>0. \A r \in Requests : Claimed(r) => tok[r] \in issued
  BY DEF Claimed, HandlerInv, TypeOK
<1>1. ASSUME NEW t \in Tokens, NEW org \in BOOLEAN, NEW sso \in BOOLEAN,
             Issue(t, org, sso)
      PROVE  ChainInv'
  <2>1. /\ t \notin issued /\ issued' = issued \cup {t} /\ parent[t] = NoToken
        /\ UNCHANGED <<family, parent, revoked, pc, tok>>
    BY <1>1 DEF Issue, Fresh, HandlerInv
  <2> QED
    BY <1>0, <2>1 DEF ChainInv, LinearRotation, SameFamily, Claimed, HandlerInv, TypeOK
<1>2. ASSUME NEW r \in Requests, NEW t \in Tokens, Present(r, t)
      PROVE  ChainInv'
  <2>1. AfterRead(t) # "insert"
    BY DEF AfterRead
  <2>2. \A q \in Requests : Claimed(q)' => Claimed(q) /\ tok'[q] = tok[q]
    BY <1>2, <2>1 DEF Present, Claimed, TypeOK
  <2> QED BY <1>2, <2>2, ChainKept DEF Present
<1>3. ASSUME NEW r \in Requests, ReadContext(r)
      PROVE  ChainInv'
  <2>1. \A q \in Requests : Claimed(q)' => Claimed(q) /\ tok'[q] = tok[q]
    BY <1>3 DEF ReadContext, Finish, Goto, Claimed, TypeOK
  <2> QED BY <1>3, <2>1, ChainKept DEF ReadContext
<1>4. ASSUME NEW r \in Requests, Claim(r)
      PROVE  ChainInv'
  <2>0. UNCHANGED <<issued, family, parent, tok>> /\ revoked \subseteq revoked'
    BY <1>4 DEF Claim
  <2>1. CASE Unused(tok[r])
    <3>1. tok[r] \notin revoked /\ revoked' = revoked \cup {tok[r]}
      BY <1>4, <2>1 DEF Claim, Unused
    <3>2. tok[r] \in issued
      BY <1>4 DEF Claim, HandlerInv, TypeOK
    <3>3. \A u \in issued : parent[u] # tok[r]
      BY <3>1, <3>2 DEF ChainInv, LinearRotation
    <3>4. \A q \in Requests : Claimed(q)' <=> Claimed(q) \/ q = r
      BY <1>4, <2>1 DEF Claim, Goto, Claimed, TypeOK
    <3> QED
      BY <2>0, <3>1, <3>3, <3>4 DEF ChainInv, LinearRotation, SameFamily
  <2>2. CASE ~Unused(tok[r])
    <3>1. \A q \in Requests : Claimed(q)' => Claimed(q) /\ tok'[q] = tok[q]
      BY <1>4, <2>2 DEF Claim, Goto, Claimed, TypeOK
    <3> QED BY <2>0, <3>1, ChainKept
  <2> QED BY <2>1, <2>2
<1>5. ASSUME NEW r \in Requests, Insert(r)
      PROVE  ChainInv'
  <2>1. /\ Claimed(r) /\ Finish(r) /\ tok[r] \in issued
        /\ nxt[r] \in Tokens \ issued
    BY <1>5 DEF Insert, Claimed, HandlerInv, TypeOK
  <2>2. /\ issued' = issued \cup {nxt[r]} /\ revoked' = revoked
        /\ parent'[nxt[r]] = tok[r] /\ family'[nxt[r]] = family[tok[r]]
        /\ \A u \in issued : parent'[u] = parent[u] /\ family'[u] = family[u]
    BY <1>5, <2>1 DEF Insert, TypeOK
  <2>3. \A u \in issued : parent[u] # nxt[r] /\ parent[u] # tok[r]
    BY <2>1 DEF HandlerInv, ChainInv
  <2>4. LinearRotation'
    BY <2>1, <2>2, <2>3 DEF ChainInv, LinearRotation, SameFamily
  <2>5. \A q \in Requests : Claimed(q)' =>
           Claimed(q) /\ q # r /\ tok'[q] = tok[q] /\ tok[q] # tok[r]
    BY <2>1, FinishEffect DEF BatonInv, Claimed, SameFamily
  <2> QED BY <2>2, <2>4, <2>5 DEF ChainInv
<1>6. ASSUME NEW r \in Requests, MarkFamily(r) \/ RetireExpired(r) \/ Crash(r)
      PROVE  ChainInv'
  <2>1. Finish(r)
    BY <1>6 DEF MarkFamily, RetireExpired, Crash
  <2>2. \A q \in Requests : Claimed(q)' => Claimed(q) /\ tok'[q] = tok[q]
    BY <2>1, FinishEffect DEF Claimed
  <2> QED BY <1>6, <2>2, ChainKept DEF MarkFamily, RetireExpired, Crash
<1>7. ASSUME NEW t \in Tokens, Expire(t)
      PROVE  ChainInv'
  BY <1>7, ChainKept DEF Expire, Claimed
<1>8. CASE UNCHANGED vars
  BY <1>8, ChainKept DEF vars, Claimed
<1> QED
  BY <1>1, <1>2, <1>3, <1>4, <1>5, <1>6, <1>7, <1>8 DEF Next, Handler

LEMMA ChainsCorrect == Spec => [](TypeOK /\ HandlerInv /\ BatonInv /\ ChainInv)
<1>1. Init => BatonInv /\ ChainInv
  BY DEF Init, BatonInv, AtMostOneLive, Live, Claimed, ChainInv, LinearRotation
<1>2. TypeOK /\ HandlerInv /\ BatonInv /\ ChainInv /\ [Next]_vars
        => BatonInv' /\ ChainInv'
  BY BatonStep, ChainStep
<1> QED BY <1>1, <1>2, HandlersCorrect, PTL DEF Spec

(* A token is exchanged at most once, for one successor of its own family, *)
(* however many handlers hold it (the claim of refresh-token.ts 170-178).  *)
THEOREM RotationIsLinear == Spec => []LinearRotation
<1>1. ChainInv => LinearRotation
  BY DEF ChainInv
<1> QED BY <1>1, ChainsCorrect, PTL

----------------------------------------------------------------------------
(* Replay: what a handler in progress knows of its token.  A token that    *)
(* two handlers hold was looked up twice; a token that stopped being       *)
(* acceptable after its handler read it was taken by another handler, or   *)
(* its family was marked.                                                  *)

Tainted(t) == \E u \in replayed : SameFamily(t, u)

ReplayInv ==
  /\ revoked \subseteq presented
  /\ \A t \in reused : Tainted(t)
  /\ \A r, q \in Requests :
       r # q /\ pc[r] # "idle" /\ pc[q] # "idle" /\ tok[r] = tok[q]
         => tok[r] \in replayed
  /\ \A r \in Requests :
       pc[r] \in {"context", "claim"} /\ ~Unused(tok[r]) => Tainted(tok[r])
  /\ \A r \in Requests : pc[r] = "mark" => Tainted(tok[r])

\* Rows keep their family and replayed only grows.
LEMMA TaintedKept ==
  ASSUME TypeOK, HandlerInv, [Next]_vars, NEW t \in issued, Tainted(t)
  PROVE  Tainted(t)'
<1> USE DEF rowVars, orgRowVars, handlerVars, historyVars
<1>1. replayed \subseteq replayed'
  BY DEF Next, Issue, Present, Handler, ReadContext, Claim, Insert, MarkFamily,
         RetireExpired, Crash, Expire, vars
<1>2. \A u \in issued : family'[u] = family[u]
  <2>1. CASE \E r \in Requests : Insert(r)
    BY <2>1 DEF Insert, HandlerInv, TypeOK
  <2>2. CASE ~(\E r \in Requests : Insert(r))
    BY <2>2 DEF Next, Issue, Present, Handler, ReadContext, Claim, MarkFamily,
                RetireExpired, Crash, Expire, vars
  <2> QED BY <2>1, <2>2
<1> QED BY <1>1, <1>2 DEF Tainted, SameFamily, TypeOK

(* A step that starts no handler and makes no row unacceptable keeps it.   *)
LEMMA ReplayKept ==
  ASSUME TypeOK, HandlerInv, ReplayInv, [Next]_vars,
         revoked' = revoked, reused' = reused,
         \A r \in Requests :
           pc'[r] # "idle" => /\ tok'[r] = tok[r] /\ pc[r] # "idle"
                              /\ pc'[r] \in {"context", "claim"} => pc[r] \in {"context", "claim"}
                              /\ pc'[r] = "mark" => Tainted(tok[r])
  PROVE  ReplayInv'
<1>1. replayed \subseteq replayed' /\ presented \subseteq presented'
  BY DEF Next, Issue, Present, Handler, ReadContext, Claim, Insert, MarkFamily,
         RetireExpired, Crash, Expire, vars, rowVars, orgRowVars, handlerVars,
         historyVars
<1>2. \A r \in Requests : pc[r] # "idle" => tok[r] \in issued
  BY DEF HandlerInv, TypeOK
<1>3. \A t \in issued : Tainted(t) => Tainted(t)'
  BY TaintedKept
<1>4. reused \subseteq issued
  BY DEF TypeOK
<1> QED BY <1>1, <1>2, <1>3, <1>4 DEF ReplayInv, Unused

LEMMA ReplayStep ==
  ASSUME TypeOK, HandlerInv, ReplayInv, [Next]_vars
  PROVE  ReplayInv'
<1> USE DEF rowVars, orgRowVars, handlerVars, historyVars
<1>a. \A t \in issued : Tainted(t) => Tainted(t)'
  BY TaintedKept
<1>b. \A r \in Requests : pc[r] # "idle" => tok[r] \in presented /\ tok[r] \in issued
  BY DEF HandlerInv, TypeOK
<1>1. ASSUME NEW t \in Tokens, NEW org \in BOOLEAN, NEW sso \in BOOLEAN,
             Issue(t, org, sso)
      PROVE  ReplayInv'
  BY <1>1, ReplayKept DEF Issue, ReplayInv
<1>2. ASSUME NEW r \in Requests, NEW t \in Tokens, Present(r, t)
      PROVE  ReplayInv'
  <2>1. /\ pc[r] = "idle" /\ t \in issued /\ UNCHANGED <<revoked, reused, family>>
        /\ presented' = presented \cup {t} /\ replayed' = replayed \cup ({t} \cap presented)
        /\ pc'[r] = AfterRead(t) /\ tok'[r] = t
        /\ \A q \in Requests : q # r => pc'[q] = pc[q] /\ tok'[q] = tok[q]
    BY <1>2 DEF Present, TypeOK
  <2>2. ~Unused(t) => Tainted(t)'
    BY <2>1, <1>a DEF Unused, ReplayInv, Tainted, SameFamily
  <2>3. /\ AfterRead(t) \in {"context", "claim"} => Unused(t)
        /\ AfterRead(t) = "mark" => ~Unused(t)
    BY DEF AfterRead
  <2>4. \A q \in Requests : q # r /\ pc'[q] # "idle" /\ tok'[q] = t => t \in replayed'
    BY <2>1, <1>b
  <2>5. \A u \in Tokens : Unused(u)' <=> Unused(u)
    BY <2>1 DEF Unused
  <2>6. \A u \in reused' : Tainted(u)'
    BY <2>1, <1>a DEF ReplayInv, TypeOK
  <2>7. \A q, p \in Requests :
          q # p /\ pc'[q] # "idle" /\ pc'[p] # "idle" /\ tok'[q] = tok'[p]
            => tok'[q] \in replayed'
    BY <2>1, <2>4 DEF ReplayInv
  <2>8. \A q \in Requests :
          pc'[q] \in {"context", "claim"} /\ ~Unused(tok[q])' => Tainted(tok[q])'
    <3> TAKE q \in Requests
    <3>1. CASE q = r
      BY <3>1, <2>1, <2>2, <2>3, <2>5
    <3>2. CASE q # r
      BY <3>2, <2>1, <1>a, <1>b DEF ReplayInv, Unused, Tainted, SameFamily
    <3> QED BY <3>1, <3>2
  <2>9. \A q \in Requests : pc'[q] = "mark" => Tainted(tok[q])'
    <3> TAKE q \in Requests
    <3>1. CASE q = r
      BY <3>1, <2>1, <2>2, <2>3 DEF Tainted, SameFamily
    <3>2. CASE q # r
      BY <3>2, <2>1, <1>a, <1>b DEF ReplayInv, Tainted, SameFamily
    <3> QED BY <3>1, <3>2
  <2> QED
    BY <2>1, <2>6, <2>7, <2>8, <2>9 DEF ReplayInv
<1>3. ASSUME NEW r \in Requests, ReadContext(r)
      PROVE  ReplayInv'
  <2>1. \A q \in Requests :
          pc'[q] # "idle" => /\ tok'[q] = tok[q] /\ pc[q] # "idle"
                             /\ pc'[q] \in {"context", "claim"} => pc[q] \in {"context", "claim"}
                             /\ pc'[q] = "mark" => Tainted(tok[q])
    BY <1>3 DEF ReadContext, Finish, Goto, TypeOK, ReplayInv
  <2> QED BY <1>3, <2>1, ReplayKept DEF ReadContext
<1>4. ASSUME NEW r \in Requests, Claim(r)
      PROVE  ReplayInv'
  <2>0. /\ UNCHANGED <<reused, family, tok, presented, replayed>> /\ pc[r] = "claim"
        /\ \A q \in Requests : q # r => pc'[q] = pc[q]
    BY <1>4 DEF Claim, Goto, TypeOK
  <2>1. CASE Unused(tok[r])
    <3>1. revoked' = revoked \cup {tok[r]} /\ pc'[r] = "insert"
      BY <1>4, <2>1 DEF Claim, Goto, TypeOK
    <3>2. \A q \in Requests :
            q # r /\ pc'[q] \in {"context", "claim"} /\ ~Unused(tok[q])' => Tainted(tok[q])'
      <4> TAKE q \in Requests
      <4>1. CASE tok[q] = tok[r]
        BY <4>1, <2>0 DEF ReplayInv, Tainted, SameFamily
      <4>2. CASE tok[q] # tok[r]
        BY <4>2, <2>0, <3>1 DEF ReplayInv, Unused, Tainted, SameFamily
      <4> QED BY <4>1, <4>2
    <3> QED
      BY <2>0, <3>1, <3>2, <1>b DEF ReplayInv, Tainted, SameFamily
  <2>2. CASE ~Unused(tok[r])
    <3>1. revoked' = revoked /\ pc'[r] = "mark"
      BY <1>4, <2>2 DEF Claim, Goto, TypeOK
    <3>2. Tainted(tok[r])
      BY <2>0, <2>2 DEF ReplayInv
    <3> QED
      BY <2>0, <3>1, <3>2, <1>b DEF ReplayInv, Tainted, SameFamily, Unused
  <2> QED BY <2>1, <2>2
<1>5. ASSUME NEW r \in Requests, Insert(r)
      PROVE  ReplayInv'
  <2>1. Finish(r) /\ revoked' = revoked /\ reused' = reused
    BY <1>5 DEF Insert
  <2> QED BY <2>1, FinishEffect, ReplayKept DEF ReplayInv
<1>6. ASSUME NEW r \in Requests, MarkFamily(r)
      PROVE  ReplayInv'
  <2>1. Finish(r) /\ pc[r] = "mark"
    BY <1>6 DEF MarkFamily
  <2>2. UNCHANGED <<revoked, family, presented, replayed>> /\ reused' = reused \cup FamilyOf(tok[r])
    BY <1>6 DEF MarkFamily
  <2>3. \A u \in FamilyOf(tok[r]) : Tainted(u)
    BY <2>1 DEF ReplayInv, FamilyOf, Tainted, SameFamily
  <2>4. \A q \in Requests : pc'[q] # "idle" => q # r /\ pc'[q] = pc[q] /\ tok'[q] = tok[q]
    BY <2>1, FinishEffect
  <2>5. \A q \in Requests :
          pc'[q] \in {"context", "claim"} /\ ~Unused(tok[q])' => Tainted(tok[q])'
    <3> TAKE q \in Requests
    <3> SUFFICES ASSUME pc'[q] \in {"context", "claim"}, ~Unused(tok[q])'
                 PROVE  Tainted(tok[q])'
      OBVIOUS
    <3>1. tok'[q] = tok[q] /\ pc[q] \in {"context", "claim"}
      BY <2>4
    <3>2. CASE tok[q] \in FamilyOf(tok[r])
      BY <3>1, <3>2, <2>2, <2>3 DEF Tainted, SameFamily
    <3>3. CASE tok[q] \notin FamilyOf(tok[r])
      BY <3>1, <3>3, <2>2 DEF ReplayInv, Unused, Tainted, SameFamily
    <3> QED BY <3>2, <3>3
  <2> QED
    BY <2>2, <2>3, <2>4, <2>5 DEF ReplayInv, Tainted, SameFamily
<1>7. ASSUME NEW r \in Requests, RetireExpired(r)
      PROVE  ReplayInv'
  <2>1. Finish(r) /\ pc[r] = "expire"
    BY <1>7 DEF RetireExpired
  <2>2. UNCHANGED <<reused, family, presented, replayed>> /\ revoked' = revoked \cup {tok[r]}
    BY <1>7 DEF RetireExpired
  <2>3. \A q \in Requests : pc'[q] # "idle" => q # r /\ pc'[q] = pc[q] /\ tok'[q] = tok[q]
    BY <2>1, FinishEffect
  <2>4. \A q \in Requests :
          pc'[q] \in {"context", "claim"} /\ ~Unused(tok[q])' => Tainted(tok[q])'
    <3> TAKE q \in Requests
    <3> SUFFICES ASSUME pc'[q] \in {"context", "claim"}, ~Unused(tok[q])'
                 PROVE  Tainted(tok[q])'
      OBVIOUS
    <3>1. q # r /\ tok'[q] = tok[q] /\ pc[q] \in {"context", "claim"}
      BY <2>3
    <3>2. CASE tok[q] = tok[r]
      BY <3>1, <3>2, <2>1, <2>2 DEF ReplayInv, Tainted, SameFamily
    <3>3. CASE tok[q] # tok[r]
      BY <3>1, <3>3, <2>2 DEF ReplayInv, Unused, Tainted, SameFamily
    <3> QED BY <3>2, <3>3
  <2> QED
    BY <2>1, <2>2, <2>3, <2>4, <1>b DEF ReplayInv, Tainted, SameFamily
<1>8. ASSUME NEW r \in Requests, Crash(r)
      PROVE  ReplayInv'
  <2>1. Finish(r) /\ revoked' = revoked /\ reused' = reused
    BY <1>8 DEF Crash
  <2> QED BY <2>1, FinishEffect, ReplayKept DEF ReplayInv
<1>9. ASSUME NEW t \in Tokens, Expire(t)
      PROVE  ReplayInv'
  BY <1>9, ReplayKept DEF Expire, ReplayInv
<1>10. CASE UNCHANGED vars
  BY <1>10, ReplayKept DEF vars, ReplayInv
<1> QED
  BY <1>1, <1>2, <1>3, <1>4, <1>5, <1>6, <1>7, <1>8, <1>9, <1>10
  DEF Next, Handler

(* No token is marked as reused unless some token of its own lineage was   *)
(* presented twice (refresh-token.ts 72-75, 206-209).                      *)
THEOREM ReuseMeansReplay == Spec => []ReuseOnlyAfterReplay
<1>1. Init => ReplayInv
  BY DEF Init, ReplayInv
<1>2. TypeOK /\ HandlerInv /\ ReplayInv /\ [Next]_vars => ReplayInv'
  BY ReplayStep
<1>3. ReplayInv => ReuseOnlyAfterReplay
  BY DEF ReplayInv, ReuseOnlyAfterReplay, Tainted
<1> QED BY <1>1, <1>2, <1>3, HandlersCorrect, PTL DEF Spec

----------------------------------------------------------------------------
(* The two properties that are inductive given the layers above.           *)

LEMMA SsoLineageStep ==
  ASSUME TypeOK, HandlerInv, SsoLineage, [Next]_vars
  PROVE  SsoLineage'
<1> USE DEF rowVars, orgRowVars, handlerVars, historyVars
<1>1. ASSUME NEW t \in Tokens, NEW org \in BOOLEAN, NEW sso \in BOOLEAN,
             Issue(t, org, sso)
      PROVE  SsoLineage'
  BY <1>1 DEF Issue, Fresh, SsoLineage, HandlerInv, TypeOK
<1>2. ASSUME NEW r \in Requests, Insert(r)
      PROVE  SsoLineage'
  <2>1. /\ tok[r] \in issued /\ nxt[r] \in Tokens \ issued /\ family[tok[r]] \in issued
        /\ r \in ctxSso => tok[r] \in ssoBound
    BY <1>2 DEF Insert, HandlerInv, TypeOK
  <2>2. /\ family'[nxt[r]] = family[tok[r]]
        /\ \A u \in issued : family'[u] = family[u]
    BY <1>2, <2>1 DEF Insert, TypeOK
  <2> QED
    BY <1>2, <2>1, <2>2 DEF Insert, SsoLineage, HandlerInv, TypeOK
<1>3. CASE UNCHANGED <<issued, family, orgRowVars>>
  BY <1>3 DEF SsoLineage
<1> QED
  BY <1>1, <1>2, <1>3
  DEF Next, Handler, Present, ReadContext, Claim, MarkFamily, RetireExpired,
      Crash, Expire, vars

(* A refresh never upgrades how the user signed in                         *)
(* (refresh-token.ts 118-128, 222-225).                                    *)
THEOREM SsoComesFromSignIn == Spec => []SsoLineage
<1>1. Init => SsoLineage
  BY DEF Init, SsoLineage
<1>2. TypeOK /\ HandlerInv /\ SsoLineage /\ [Next]_vars => SsoLineage'
  BY SsoLineageStep
<1> QED BY <1>1, <1>2, HandlersCorrect, PTL DEF Spec

LEMMA TipStep ==
  ASSUME TypeOK, HandlerInv, TipAccounted, [Next]_vars
  PROVE  TipAccounted'
<1> USE DEF rowVars, orgRowVars, handlerVars, historyVars
<1>1. ASSUME NEW t \in Tokens, NEW org \in BOOLEAN, NEW sso \in BOOLEAN,
             Issue(t, org, sso)
      PROVE  TipAccounted'
  BY <1>1 DEF Issue, Fresh, TipAccounted, TypeOK
<1>2. ASSUME NEW r \in Requests, NEW t \in Tokens, Present(r, t)
      PROVE  TipAccounted'
  BY <1>2 DEF Present, TipAccounted, TypeOK
<1>3. ASSUME NEW r \in Requests, ReadContext(r)
      PROVE  TipAccounted'
  <2>1. \A q \in Requests : pc[q] = "insert" => pc'[q] = "insert" /\ tok'[q] = tok[q]
    BY <1>3 DEF ReadContext, Finish, Goto, TypeOK
  <2> QED BY <1>3, <2>1 DEF ReadContext, TipAccounted
<1>4. ASSUME NEW r \in Requests, Claim(r)
      PROVE  TipAccounted'
  <2>1. \A q \in Requests : pc[q] = "insert" => pc'[q] = "insert" /\ tok'[q] = tok[q]
    BY <1>4 DEF Claim, Goto, TypeOK
  <2>2. revoked' # revoked => revoked' = revoked \cup {tok[r]} /\ pc'[r] = "insert"
    BY <1>4 DEF Claim, Goto, TypeOK
  <2> QED BY <1>4, <2>1, <2>2 DEF Claim, TipAccounted
<1>5. ASSUME NEW r \in Requests, Insert(r)
      PROVE  TipAccounted'
  <2>1. Finish(r) /\ nxt[r] \in Tokens \ issued /\ UNCHANGED <<revoked, expired, reused, orphaned>>
    BY <1>5 DEF Insert, HandlerInv
  <2>2. \A q \in Requests : q # r => pc'[q] = pc[q] /\ tok'[q] = tok[q]
    BY <2>1, FinishEffect
  <2>3. /\ issued' = issued \cup {nxt[r]} /\ parent'[nxt[r]] = tok[r]
        /\ \A u \in issued : parent'[u] = parent[u]
    BY <1>5, <2>1 DEF Insert, TypeOK
  <2> QED BY <2>1, <2>2, <2>3 DEF TipAccounted, TypeOK
<1>6. ASSUME NEW r \in Requests, MarkFamily(r) \/ RetireExpired(r)
      PROVE  TipAccounted'
  <2>1. Finish(r) /\ UNCHANGED <<issued, parent, expired, orphaned>> /\ pc[r] # "insert"
    BY <1>6 DEF MarkFamily, RetireExpired
  <2>2. \A q \in Requests : pc[q] = "insert" => pc'[q] = "insert" /\ tok'[q] = tok[q]
    BY <2>1, FinishEffect
  <2>3. revoked' \subseteq revoked \cup expired /\ reused \subseteq reused'
    BY <1>6 DEF MarkFamily, RetireExpired, HandlerInv
  <2> QED BY <2>1, <2>2, <2>3 DEF TipAccounted
<1>7. ASSUME NEW r \in Requests, Crash(r)
      PROVE  TipAccounted'
  <2>1. Finish(r) /\ UNCHANGED <<issued, parent, expired, revoked, reused>>
        /\ orphaned \subseteq orphaned' /\ (pc[r] = "insert" => tok[r] \in orphaned')
    BY <1>7 DEF Crash
  <2>2. \A q \in Requests : q # r /\ pc[q] = "insert" => pc'[q] = "insert" /\ tok'[q] = tok[q]
    BY <2>1, FinishEffect
  <2> QED BY <2>1, <2>2 DEF TipAccounted
<1>8. ASSUME NEW t \in Tokens, Expire(t)
      PROVE  TipAccounted'
  BY <1>8 DEF Expire, TipAccounted
<1>9. CASE UNCHANGED vars
  BY <1>9 DEF vars, TipAccounted
<1> QED
  BY <1>1, <1>2, <1>3, <1>4, <1>5, <1>6, <1>7, <1>8, <1>9 DEF Next, Handler

(* A session does not end silently (refresh-token.ts 72-82, 170-227).      *)
THEOREM TipsAccountedFor == Spec => []TipAccounted
<1>1. Init => TipAccounted
  BY DEF Init, TipAccounted
<1>2. TypeOK /\ HandlerInv /\ TipAccounted /\ [Next]_vars => TipAccounted'
  BY TipStep
<1> QED BY <1>1, <1>2, HandlersCorrect, PTL DEF Spec

----------------------------------------------------------------------------
(* The refinement: the token a family holds is its live token, which the   *)
(* baton makes unique, and a family is rotating while a claim is in        *)
(* progress.                                                               *)

Rotating == {f \in Tokens : \E r \in Requests : Claimed(r) /\ family[tok[r]] = f}
Holds == [f \in Tokens |-> LiveOf(f)]

LEMMA LiveOfUnique ==
  ASSUME TypeOK, AtMostOneLive, NEW f \in Tokens
  PROVE  /\ \A t \in Live : family[t] = f => LiveOf(f) = t
         /\ (\A t \in Live : family[t] # f) => LiveOf(f) = NoToken
BY DEF LiveOf, AtMostOneLive, SameFamily

\* The other families keep what they hold when a step only touches family f.
LEMMA OthersHold ==
  ASSUME TypeOK, AtMostOneLive, TypeOK', AtMostOneLive', NEW f,
         \A t \in Live : family[t] # f => t \in Live' /\ family'[t] = family[t],
         \A t \in Live' : family'[t] # f => t \in Live /\ family[t] = family'[t]
  PROVE  \A g \in Tokens \ {f} : Holds'[g] = Holds[g]
<1> TAKE g \in Tokens \ {f}
<1>1. CASE \E t \in Live : family[t] = g
  <2>1. PICK t \in Live : family[t] = g
    BY <1>1
  <2>2. t \in Live' /\ family'[t] = g
    BY <2>1
  <2>3. LiveOf(g) = t
    BY <2>1, LiveOfUnique
  <2>4. LiveOf(g)' = t
    BY <2>2 DEF LiveOf, AtMostOneLive, SameFamily
  <2> QED BY <2>3, <2>4 DEF Holds
<1>2. CASE \A t \in Live : family[t] # g
  <2>1. \A t \in Live' : family'[t] # g
    BY <1>2
  <2> QED BY <1>2, <2>1 DEF Holds, LiveOf
<1> QED BY <1>1, <1>2

LEMMA RefinementStep ==
  ASSUME TypeOK, HandlerInv, BatonInv, TypeOK', HandlerInv', BatonInv', [Next]_vars
  PROVE  [Lineage!Next]_(Lineage!vars)
<1> USE DEF rowVars, orgRowVars, handlerVars, historyVars
<1>a. AtMostOneLive /\ AtMostOneLive'
  BY DEF BatonInv
<1>b. \A r \in Requests : Claimed(r) => tok[r] \in issued
  BY DEF Claimed, HandlerInv, TypeOK
<1>c. Live \subseteq issued /\ issued \subseteq Tokens
  BY DEF Live, TypeOK
<1>d. SUFFICES [\E f \in Tokens :
                  \/ Lineage!Start(f) \/ Lineage!Take(f)
                  \/ \E u \in Tokens : Lineage!Replace(f, u)
                  \/ Lineage!Abandon(f) \/ Lineage!Revoke(f)]_<<Holds, Rotating, issued>>
  BY DEF Lineage!Next, Lineage!vars, Holds, Rotating, Claimed
<1>1. ASSUME NEW t \in Tokens, NEW org \in BOOLEAN, NEW sso \in BOOLEAN,
             Issue(t, org, sso)
      PROVE  Lineage!Start(t)
  <2>1. /\ t \notin issued /\ issued' = issued \cup {t} /\ family[t] = t
        /\ UNCHANGED <<family, pc, tok, revoked, reused>>
    BY <1>1 DEF Issue, Fresh, HandlerInv
  <2>2. Live' = Live \cup {t}
    BY <2>1 DEF Live, Unused, TypeOK
  <2>3. Holds'[t] = t
    BY <2>1, <2>2, <1>a DEF Holds, LiveOf, AtMostOneLive, SameFamily
  <2>4. \A g \in Tokens \ {t} : Holds'[g] = Holds[g]
    BY <2>1, <2>2, <1>a, OthersHold
  <2>5. Holds' = [Holds EXCEPT ![t] = t]
    BY <2>3, <2>4 DEF Holds
  <2>6. Rotating' = Rotating
    BY <2>1 DEF Rotating, Claimed
  <2> QED BY <2>1, <2>5, <2>6 DEF Lineage!Start, Holds, Rotating, Claimed
<1>2. ASSUME \/ \E r \in Requests, t \in Tokens : Present(r, t)
             \/ \E r \in Requests : ReadContext(r)
             \/ \E t \in Tokens : Expire(t)
             \/ UNCHANGED vars
      PROVE  UNCHANGED <<Holds, Rotating, issued>>
  <2>1. UNCHANGED <<issued, family, revoked, reused>>
    BY <1>2 DEF Present, ReadContext, Expire, vars
  <2>2. Holds' = Holds
    BY <2>1 DEF Holds, LiveOf, Live, Unused
  <2>3. \A r \in Requests : (Claimed(r) \/ Claimed(r)') =>
           Claimed(r) /\ Claimed(r)' /\ tok'[r] = tok[r]
    BY <1>2 DEF Present, AfterRead, ReadContext, Finish, Goto, Expire, vars,
                Claimed, TypeOK
  <2>4. Rotating' = Rotating
    BY <2>1, <2>3 DEF Rotating
  <2> QED BY <2>1, <2>2, <2>4
<1>3. ASSUME NEW r \in Requests, NEW f \in Tokens, f = family[tok[r]],
             Claim(r), Unused(tok[r])
      PROVE  Lineage!Take(f)
  <2>1. /\ tok[r] \in Live /\ UNCHANGED <<issued, family, tok, reused>>
        /\ revoked' = revoked \cup {tok[r]} /\ f = family[tok[r]]
    BY <1>3 DEF Claim, HandlerInv, TypeOK, Live
  <2>2. Live' = Live \ {tok[r]}
    BY <2>1 DEF Live, Unused
  <2>3. Holds[f] = tok[r] /\ tok[r] # NoToken
    BY <2>1, <1>a, LiveOfUnique, <1>c DEF Holds
  <2>4. Holds'[f] = NoToken
    BY <2>1, <2>2, <1>a DEF Holds, LiveOf, AtMostOneLive, SameFamily
  <2>5. \A g \in Tokens \ {f} : Holds'[g] = Holds[g]
    BY <2>1, <2>2, <1>a, OthersHold
  <2>6. Holds' = [Holds EXCEPT ![f] = NoToken]
    BY <2>4, <2>5 DEF Holds
  <2>7. \A q \in Requests : Claimed(q)' <=> Claimed(q) \/ q = r
    BY <1>3 DEF Claim, Goto, Claimed, TypeOK
  <2>8. Rotating' = Rotating \cup {f}
    BY <2>1, <2>7 DEF Rotating
  <2> QED BY <2>1, <2>3, <2>6, <2>8 DEF Lineage!Take, Holds, Rotating, Claimed
<1>4. ASSUME NEW r \in Requests, Claim(r), ~Unused(tok[r])
      PROVE  UNCHANGED <<Holds, Rotating, issued>>
  <2>1. UNCHANGED <<issued, family, revoked, reused, tok>>
    BY <1>4 DEF Claim
  <2>2. \A q \in Requests : Claimed(q)' <=> Claimed(q)
    BY <1>4 DEF Claim, Goto, Claimed, TypeOK
  <2> QED BY <2>1, <2>2 DEF Holds, LiveOf, Live, Unused, Rotating
<1>5. ASSUME NEW r \in Requests, NEW f \in Tokens, f = family[tok[r]],
             NEW u \in Tokens, u = nxt[r], Insert(r)
      PROVE  Lineage!Replace(f, u)
  <2>1. /\ Claimed(r) /\ Finish(r) /\ tok[r] \in issued /\ f \in issued
        /\ f = family[tok[r]] /\ u = nxt[r] /\ u \in Tokens \ issued
    BY <1>5 DEF Insert, Claimed, HandlerInv, TypeOK
  <2>2. /\ issued' = issued \cup {u} /\ UNCHANGED <<revoked, reused>>
        /\ family'[u] = f
        /\ \A t \in issued : family'[t] = family[t]
    BY <1>5, <2>1 DEF Insert, TypeOK
  <2>3. Live' = Live \cup {u}
    BY <2>1, <2>2 DEF Live, Unused, TypeOK
  <2>4. Holds'[f] = u
    BY <2>1, <2>2, <2>3, <1>a, <1>c DEF Holds, LiveOf, AtMostOneLive, SameFamily
  <2>5. \A g \in Tokens \ {f} : Holds'[g] = Holds[g]
    BY <2>1, <2>2, <2>3, <1>a, <1>c, OthersHold
  <2>6. Holds' = [Holds EXCEPT ![f] = u]
    BY <2>4, <2>5 DEF Holds
  <2>7. \A q \in Requests : Claimed(q)' <=> Claimed(q) /\ q # r
    BY <2>1, FinishEffect DEF Claimed
  <2>8. \A q \in Requests : Claimed(q) /\ q # r =>
           /\ tok'[q] = tok[q] /\ family'[tok'[q]] = family[tok[q]]
           /\ family[tok[q]] # f
    BY <2>1, <2>2, <1>b, FinishEffect DEF BatonInv, SameFamily
  <2>9. Rotating' = Rotating \ {f} /\ f \in Rotating
    BY <2>1, <2>7, <2>8, <1>c DEF Rotating
  <2> QED BY <2>1, <2>2, <2>6, <2>9, <1>c DEF Lineage!Replace, Holds, Rotating, Claimed
<1>6. ASSUME NEW r \in Requests, NEW f \in Tokens, f = family[tok[r]],
             Crash(r), Claimed(r)
      PROVE  Lineage!Abandon(f)
  <2>1. f = family[tok[r]] /\ Finish(r) /\ UNCHANGED <<issued, family, revoked, reused>>
    BY <1>6 DEF Crash
  <2>2. \A q \in Requests : Claimed(q)' <=> Claimed(q) /\ q # r
    BY <2>1, FinishEffect DEF Claimed
  <2>3. \A q \in Requests : Claimed(q) /\ q # r => tok'[q] = tok[q] /\ family[tok[q]] # f
    BY <2>1, <1>6, FinishEffect DEF BatonInv, SameFamily
  <2>4. f \in Rotating /\ Rotating' = Rotating \ {f}
    BY <2>1, <2>2, <2>3, <1>6, <1>b DEF Rotating, TypeOK
  <2>5. Holds' = Holds
    BY <2>1 DEF Holds, LiveOf, Live, Unused
  <2> QED BY <2>1, <2>4, <2>5 DEF Lineage!Abandon, Holds, Rotating, Claimed
<1>7. ASSUME NEW r \in Requests, NEW f \in Tokens, f = family[tok[r]],
             MarkFamily(r) \/ RetireExpired(r) \/ (Crash(r) /\ ~Claimed(r))
      PROVE  Lineage!Revoke(f) \/ UNCHANGED <<Holds, Rotating, issued>>
  <2>1. f = family[tok[r]] /\ Finish(r) /\ UNCHANGED <<issued, family>> /\ ~Claimed(r)
    BY <1>7 DEF MarkFamily, RetireExpired, Crash, Claimed
  <2>2. tok[r] \in issued
    BY <1>7 DEF MarkFamily, RetireExpired, Crash, HandlerInv, TypeOK
  <2>3. \A q \in Requests : (Claimed(q)' <=> Claimed(q)) /\ (Claimed(q) => tok'[q] = tok[q])
    BY <2>1, FinishEffect DEF Claimed
  <2>4. Rotating' = Rotating
    BY <2>1, <2>3 DEF Rotating
  <2>5. Live' \subseteq Live /\ \A t \in Live : family[t] # f => t \in Live'
    BY <1>7, <2>2 DEF MarkFamily, RetireExpired, Crash, Live, Unused, FamilyOf, SameFamily
  <2>6. \A g \in Tokens \ {f} : Holds'[g] = Holds[g]
    BY <2>1, <2>5, <1>a, OthersHold
  <2>7. CASE \E t \in Live : family[t] = f /\ t \notin Live'
    <3>1. PICK t \in Live : family[t] = f /\ t \notin Live'
      BY <2>7
    <3>2. Holds[f] = t /\ t # NoToken
      BY <3>1, <2>2, <1>a, <1>c, LiveOfUnique DEF Holds
    <3>3. \A u \in Live' : family'[u] # f
      BY <3>1, <2>1, <2>5, <1>a DEF AtMostOneLive, SameFamily
    <3>4. Holds'[f] = NoToken
      BY <3>3, <2>2 DEF Holds, LiveOf
    <3>5. Holds' = [Holds EXCEPT ![f] = NoToken]
      BY <3>4, <2>6 DEF Holds
    <3> QED BY <3>2, <3>5, <2>1, <2>4 DEF Lineage!Revoke, Holds, Rotating, Claimed
  <2>8. CASE \A t \in Live : family[t] = f => t \in Live'
    <3>1. Live' = Live
      BY <2>5, <2>8
    <3> QED BY <3>1, <2>1, <2>4 DEF Holds, LiveOf
  <2> QED BY <2>7, <2>8
<1>8. ASSUME NEW r \in Requests, pc[r] # "idle"
      PROVE  \E f \in Tokens : f = family[tok[r]]
  BY <1>8 DEF HandlerInv, TypeOK
<1> QED
  <2>1. CASE \E t \in Tokens, org, sso \in BOOLEAN : Issue(t, org, sso)
    BY <2>1, <1>1
  <2>2. CASE \/ \E r \in Requests, t \in Tokens : Present(r, t)
             \/ \E r \in Requests : ReadContext(r)
             \/ \E t \in Tokens : Expire(t)
             \/ UNCHANGED vars
    BY <2>2, <1>2
  <2>3. CASE \E r \in Requests : Claim(r)
    <3>1. PICK r \in Requests : Claim(r)
      BY <2>3
    <3>2. PICK f \in Tokens : f = family[tok[r]]
      BY <3>1, <1>8 DEF Claim
    <3> QED BY <3>1, <3>2, <1>3, <1>4
  <2>4. CASE \E r \in Requests : Insert(r)
    <3>1. PICK r \in Requests : Insert(r)
      BY <2>4
    <3>2. PICK f \in Tokens : f = family[tok[r]]
      BY <3>1, <1>8 DEF Insert
    <3>3. PICK u \in Tokens : u = nxt[r]
      BY <3>1 DEF Insert, HandlerInv
    <3> QED BY <3>1, <3>2, <3>3, <1>5
  <2>5. CASE \E r \in Requests : MarkFamily(r) \/ RetireExpired(r) \/ Crash(r)
    <3>1. PICK r \in Requests : MarkFamily(r) \/ RetireExpired(r) \/ Crash(r)
      BY <2>5
    <3>2. PICK f \in Tokens : f = family[tok[r]]
      BY <3>1, <1>8 DEF MarkFamily, RetireExpired, Crash
    <3> QED BY <3>1, <3>2, <1>6, <1>7
  <2> QED
    BY <2>1, <2>2, <2>3, <2>4, <2>5 DEF Next, Handler

(* The grant implements TokenLineage, for every number of tokens and of    *)
(* concurrent handlers.                                                    *)
THEOREM GrantImplementsLineage == Spec => ImplementsLineage
<1>1. Init => Lineage!Init
  BY DEF Init, Lineage!Init, LiveOf, Live
<1>2. TypeOK /\ HandlerInv /\ BatonInv /\ TypeOK' /\ HandlerInv' /\ BatonInv'
        /\ [Next]_vars => [Lineage!Next]_(Lineage!vars)
  BY RefinementStep
<1> QED BY <1>1, <1>2, ChainsCorrect, PTL DEF Spec, ImplementsLineage, Lineage!Spec

============================================================================
