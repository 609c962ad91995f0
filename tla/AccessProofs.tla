-------------------------- MODULE AccessProofs ------------------------------
(***************************************************************************)
(* What the five parts of MCAccess guarantee for every value of the        *)
(* constants, and at the end the properties of the parts side by side.     *)
(*                                                                         *)
(* Authorizations: a code is written once and taken once.  A row that any  *)
(* page or handler holds is sound: its keys have been stored and, while    *)
(* nobody resets or recovers its key, it is the row its first flow         *)
(* inserted.  So the key that a flow chose from one read fits what the     *)
(* server does with another.                                               *)
(***************************************************************************)
EXTENDS MCAccess, Sequences, TLAPS

-----------------------------------------------------------------------------
(* Authorizations and the keys of applications (Authorizations).            *)

Before == {"idle", "page", "locked", "sent", "insert"}

\* The row that flow i inserts with the key k.
Began(i, k) ==
  [id |-> i, sym |-> k.sym, asym |-> k.asym,
   mode |-> IF k.sym # None THEN "symmetric" ELSE "asymmetric"]

\* A row that was read, now or earlier, in a state where st and rep are the
\* histories, p the steps and se what flows have sent.
SoundIn(r, st, rep, p, se) ==
  /\ r.id = None => r = NoRow
  /\ KeysIn(r) \subseteq st
  /\ r.id # None => p[r.id] \notin Before
  /\ r.id # None /\ r.id \notin rep /\ se[r.id] # Nothing => r = Began(r.id, se[r.id])

Sound(r) == SoundIn(r, stored, replaced, pc, sent)

ViewInv == Sound(row) /\ \A f \in Flows : Sound(page[f]) /\ Sound(read[f])

\* A new key bears the name of its flow.
OwnKey(f) ==
  sent[f] # Nothing =>
    given[f] = f /\ sent[f] \in {KeyAs("symmetric", f), KeyAs("asymmetric", f)}

Chosen(f) ==
  /\ sent[f] = Choose(want[f], page[f], f).sent
  /\ given[f] = Choose(want[f], page[f], f).given

\* What a flow has decided, and what its handler has checked.
FlowInv ==
  \A f \in Flows :
    /\ OwnKey(f)
    /\ pc[f] \in {"idle", "page", "locked"} => sent[f] = Nothing /\ given[f] = None
    /\ pc[f] \in {"sent", "insert", "reread", "write", "answered"} => Chosen(f)
    /\ pc[f] = "done" => given[f] = None \/ Chosen(f)
    /\ pc[f] \in Before \cup {"reread"} => read[f] = NoRow
    /\ pc[f] = "insert" => Accepted(want[f], sent[f], NoRow)
    /\ pc[f] \in {"write", "answered", "done"} /\ read[f].id # None =>
         Accepted(want[f], sent[f], read[f])

\* The chosen key is stored with the insert or with the update.
StoreInv ==
  \A f \in Flows : given[f] # None =>
    /\ pc[f] = "write" /\ read[f].id = None => given[f] \in stored
    /\ pc[f] \in {"answered", "done"} => given[f] \in stored \/ f \in missed

\* A flow that has not written its code has none.
CodeInv ==
  /\ CodeUsedOnce
  /\ \A f \in Flows : pc[f] \in Before \cup {"reread", "write"} =>
       code[f] = "none" /\ held[f] = 0 /\ tokens[f] = 0

\* A recovery has read a row.
RecoverInv == \A r \in Recoverers : rpc[r] = "update" => rid[r] # None

IInv == TypeOK /\ CodeInv /\ RecoverInv /\ ViewInv /\ FlowInv /\ StoreInv

-----------------------------------------------------------------------------
(* What page and server compute from a row.                                *)

WantSet == [mode : Modes, reset : BOOLEAN]

LEMMA ChooseIs ==
  ASSUME NEW w \in WantSet, NEW r \in Row, NEW f \in Flows
  PROVE  /\ Choose(w, r, f).sent \in Material
         /\ Choose(w, r, f).given \in MaybeKey
         /\ Choose(w, r, f).sent # Nothing =>
              /\ Choose(w, r, f).given = f
              /\ Choose(w, r, f).sent \in {KeyAs("symmetric", f), KeyAs("asymmetric", f)}
<1>1. Resolve(w, r) \in Modes /\ KeyOf(Resolve(w, r), r) \in MaybeKey
  BY DEF Resolve, WantSet, Row, Modes, KeyOf, MaybeKey
<1>2. KeyAs(Resolve(w, r), f) \in Material
  BY DEF KeyAs, Material, MaybeKey, Keys
<1>3. Nothing \in Material /\ f \in MaybeKey /\ None \in MaybeKey
  BY DEF Nothing, Material, MaybeKey, Keys
<1>4. CASE Resolve(w, r) = "none"
  BY <1>3, <1>4 DEF Choose
<1>5. CASE Resolve(w, r) # "none" /\ ~w.reset /\ KeyOf(Resolve(w, r), r) # None
  BY <1>1, <1>3, <1>5 DEF Choose
<1>6. CASE Resolve(w, r) # "none" /\ ~(~w.reset /\ KeyOf(Resolve(w, r), r) # None)
  <2>1. Choose(w, r, f) = [sent |-> KeyAs(Resolve(w, r), f), given |-> f]
    BY <1>6 DEF Choose
  <2> QED BY <1>1, <1>2, <1>3, <1>6, <2>1 DEF Modes
<1> QED BY <1>4, <1>5, <1>6

LEMMA UpdatedIs ==
  ASSUME NEW w \in WantSet, NEW s \in Material, NEW e \in Row, NEW r \in Row
  PROVE  Updated(w, s, e, r) \in Row /\ Updated(w, s, e, r).id = r.id
<1>1. Resolve(w, e) \in Modes
  BY DEF Resolve, WantSet, Row, Modes
<1>2. KeyOf(Resolve(w, e), s) \in MaybeKey /\ KeyOf(Resolve(w, e), e) \in MaybeKey
  BY DEF KeyOf, Row, Material, MaybeKey
<1>3. Or(KeyOf(Resolve(w, e), e), KeyOf(Resolve(w, e), s)) \in MaybeKey
  BY <1>2 DEF Or
<1>4. CASE Resolve(w, e) = "none"
  BY <1>4 DEF Updated
<1>5. CASE Resolve(w, e) # "none" /\ w.reset
  BY <1>1, <1>2, <1>5 DEF Updated, Row, KeyAs, MaybeKey
<1>6. CASE Resolve(w, e) = "symmetric" /\ ~w.reset
  BY <1>1, <1>3, <1>6 DEF Updated, Row
<1>7. CASE Resolve(w, e) = "asymmetric" /\ ~w.reset
  BY <1>1, <1>3, <1>7 DEF Updated, Row
<1> QED BY <1>1, <1>4, <1>5, <1>6, <1>7 DEF Modes

\* What the server accepts, the application has: the key that was chosen is in
\* the row after the update.
LEMMA ChosenIsIn ==
  ASSUME NEW w \in WantSet, NEW p \in Row, NEW e \in Row, NEW r \in Row, NEW f \in Flows,
         Choose(w, p, f).given # None, Accepted(w, Choose(w, p, f).sent, e)
  PROVE  Choose(w, p, f).given \in KeysIn(p) \cup KeysIn(Updated(w, Choose(w, p, f).sent, e, r))
<1> DEFINE m == Resolve(w, p)
           s == Choose(w, p, f).sent
<1>1. m \in {"symmetric", "asymmetric"}
  BY DEF Choose, Resolve, WantSet, Row, Modes
<1>2. CASE ~w.reset /\ KeyOf(m, p) # None
  BY <1>1, <1>2 DEF Choose, KeyOf, KeysIn
<1>3. CASE w.reset \/ KeyOf(m, p) = None
  <2>1. s = KeyAs(m, f) /\ Choose(w, p, f).given = f /\ f # None
    BY <1>1, <1>3, NoneAssumption DEF Choose
  <2>2. KeyOf("symmetric", s) = s.sym /\ KeyOf("asymmetric", s) = s.asym
    BY DEF KeyOf
  <2>3. CASE w.reset
    <3>1. Resolve(w, e) \in Modes
      BY DEF Resolve, WantSet, Row, Modes
    <3>2. Resolve(w, e) # "none" /\ KeyOf(Resolve(w, e), s) # None
      BY <2>3 DEF Accepted, Valid
    <3>3. Resolve(w, e) = m
      BY <1>1, <2>1, <2>2, <3>1, <3>2 DEF KeyAs, Modes
    <3> HIDE DEF m, s
    <3>4. Updated(w, s, e, r) = [r EXCEPT !.sym = KeyAs(m, KeyOf(m, s)).sym,
                                          !.asym = KeyAs(m, KeyOf(m, s)).asym, !.mode = m]
      BY <1>1, <2>3, <3>3 DEF Updated
    <3>5. f \in KeysIn(Updated(w, s, e, r))
      BY <1>1, <2>1, <2>2, <3>4 DEF KeysIn, Row, KeyAs
    <3> QED BY <2>1, <3>5 DEF s
  <2>4. CASE ~w.reset
    <3>1. Resolve(w, e) = m /\ m = w.mode
      BY <2>4 DEF Resolve
    <3>2. KeyOf(m, s) = f /\ KeyOf(m, e) \in {None, f}
      BY <1>1, <2>1, <2>2, <2>4, <3>1 DEF Accepted, Valid, KeyAs
    <3>3. Or(KeyOf(m, e), KeyOf(m, s)) = f
      BY <3>2 DEF Or
    <3> HIDE DEF m, s
    <3>4. Updated(w, s, e, r) = IF m = "symmetric" THEN [r EXCEPT !.sym = f, !.mode = m]
                                                   ELSE [r EXCEPT !.asym = f, !.mode = m]
      BY <1>1, <2>4, <3>1, <3>3 DEF Updated
    <3>5. f \in KeysIn(Updated(w, s, e, r))
      BY <1>1, <2>1, <3>4 DEF KeysIn, Row
    <3> QED BY <2>1, <3>5 DEF s
  <2> QED BY <2>3, <2>4
<1> QED BY <1>2, <1>3

\* A flow that asks for no reset leaves a row with a key as it is.
LEMMA UpdateKeeps ==
  ASSUME NEW w \in WantSet, NEW s \in Material, NEW r \in Row, ~w.reset, Accepted(w, s, r),
         \/ r.mode = "symmetric" /\ r.sym # None
         \/ r.mode = "asymmetric" /\ r.asym # None
  PROVE  Updated(w, s, r, r) = r
<1>1. CASE w.mode = "none"
  BY <1>1 DEF Updated, Resolve
<1>2. CASE w.mode # "none"
  <2>1. Resolve(w, r) = w.mode /\ w.mode = r.mode /\ KeyOf(w.mode, r) # None
    BY <1>2 DEF Resolve, Accepted, Valid, KeyOf, Row, WantSet, Modes
  <2>2. Or(KeyOf(w.mode, r), KeyOf(w.mode, s)) = KeyOf(w.mode, r)
    BY <2>1 DEF Or
  <2>3. CASE r.mode = "symmetric"
    <3>1. Updated(w, s, r, r) = [r EXCEPT !.sym = r.sym, !.mode = r.mode]
      BY <1>2, <2>1, <2>2, <2>3 DEF Updated, KeyOf
    <3> QED BY <3>1 DEF Row
  <2>4. CASE r.mode = "asymmetric"
    <3>1. Updated(w, s, r, r) = [r EXCEPT !.asym = r.asym, !.mode = r.mode]
      BY <1>2, <2>1, <2>2, <2>4 DEF Updated, KeyOf
    <3> QED BY <3>1 DEF Row
  <2> QED BY <2>3, <2>4
<1> QED BY <1>1, <1>2

\* The row a flow inserts with a key holds that key and nothing else.
LEMMA FirstRow ==
  ASSUME NEW w \in WantSet, NEW p \in Row, NEW f \in Flows,
         Choose(w, p, f).sent # Nothing, Accepted(w, Choose(w, p, f).sent, NoRow)
  PROVE  Updated(w, Choose(w, p, f).sent, NoRow, [NoRow EXCEPT !.id = f]) =
           Began(f, Choose(w, p, f).sent)
<1> DEFINE m == w.mode
           s == Choose(w, p, f).sent
<1>0. f # None /\ KeyOf("symmetric", s) = s.sym /\ KeyOf("asymmetric", s) = s.asym
      /\ KeyOf("symmetric", NoRow) = None /\ KeyOf("asymmetric", NoRow) = None
  BY NoneAssumption DEF KeyOf, NoRow
<1>1. Resolve(w, p) # "none" /\ s = KeyAs(Resolve(w, p), f)
  BY DEF Choose
<1>2. m # "none"
  BY <1>1 DEF Accepted, Resolve, NoRow
<1>3. m \in {"symmetric", "asymmetric"} /\ s = KeyAs(m, f) /\ Resolve(w, NoRow) = m
  BY <1>1, <1>2 DEF Resolve, WantSet, Modes
<1> HIDE DEF s
<1> SUFFICES Updated(w, s, NoRow, [NoRow EXCEPT !.id = f]) =
               [id |-> f, sym |-> s.sym, asym |-> s.asym,
                mode |-> IF s.sym # None THEN "symmetric" ELSE "asymmetric"]
  BY DEF s, Began
<1>4. KeyOf(m, s) = f
  BY <1>0, <1>3 DEF KeyAs
<1>5. CASE w.reset
  <2>1. Updated(w, s, NoRow, [NoRow EXCEPT !.id = f]) =
          [[NoRow EXCEPT !.id = f] EXCEPT !.sym = KeyAs(m, f).sym,
                                          !.asym = KeyAs(m, f).asym, !.mode = m]
    BY <1>2, <1>3, <1>4, <1>5 DEF Updated
  <2>3. CASE m = "symmetric"
    BY <1>0, <1>3, <2>1, <2>3 DEF NoRow, KeyAs
  <2>4. CASE m = "asymmetric"
    BY <1>0, <1>3, <2>1, <2>4 DEF NoRow, KeyAs
  <2> QED BY <1>3, <2>3, <2>4
<1>6. CASE ~w.reset
  <2>1. Or(KeyOf(m, NoRow), KeyOf(m, s)) = f
    BY <1>0, <1>3, <1>4 DEF Or
  <2>2. Updated(w, s, NoRow, [NoRow EXCEPT !.id = f]) =
          IF m = "symmetric" THEN [[NoRow EXCEPT !.id = f] EXCEPT !.sym = f, !.mode = m]
                             ELSE [[NoRow EXCEPT !.id = f] EXCEPT !.asym = f, !.mode = m]
    BY <1>3, <1>6, <2>1 DEF Updated
  <2>3. CASE m = "symmetric"
    BY <1>0, <1>3, <2>2, <2>3 DEF NoRow, KeyAs
  <2>4. CASE m = "asymmetric"
    BY <1>0, <1>3, <2>2, <2>4 DEF NoRow, KeyAs
  <2> QED BY <1>3, <2>3, <2>4
<1> QED BY <1>5, <1>6, <1>3 DEF WantSet

-----------------------------------------------------------------------------
LEMMA InitInv == Init => IInv
<1>1. Init => TypeOK /\ CodeInv /\ RecoverInv
  BY DEF Init, TypeOK, CodeInv, RecoverInv, CodeUsedOnce, NoRow, Nothing, Row, Material, MaybeKey, Modes, PCs, Before
<1>2. Init => ViewInv
  BY DEF Init, ViewInv, Sound, SoundIn, NoRow, KeysIn
<1>3. Init => FlowInv /\ StoreInv
  BY DEF Init, FlowInv, StoreInv, OwnKey, Chosen, Before
<1> QED BY <1>1, <1>2, <1>3 DEF IInv

\* The type of what a flow writes.
LEMMA StepType ==
  ASSUME TypeOK, NEW f \in Flows, Step(f)
  PROVE  TypeOK'
<1> USE DEF TypeOK, Row, PCs, codeVars, recoveryVars, historyVars
<1>1. CASE Open(f)
  BY <1>1, WantsAssumption DEF Open, Bootstrap, Modes
<1>2. CASE Authorize(f)
  <2>1. want[f] \in WantSet /\ page[f] \in Row
    BY DEF WantSet
  <2> HIDE DEF Row
  <2> QED BY <1>2, <2>1, ChooseIs DEF Authorize
<1>3. CASE Prompt(f) \/ Unlock(f) \/ Deliver(f) \/ Finalize(f) \/ Assertion(f) \/ Stop(f)
  BY <1>3 DEF Prompt, Unlock, Deliver, Finalize, Assertion, Stop
<1>4. CASE Read(f)
  BY <1>4 DEF Read
<1>5. CASE Reread(f)
  BY <1>5 DEF Reread
<1>6. CASE Insert(f)
  <2> DEFINE new == Updated(want[f], sent[f], NoRow, [NoRow EXCEPT !.id = f])
  <2>1. NoRow \in Row /\ [NoRow EXCEPT !.id = f] \in Row
    BY DEF NoRow, MaybeKey, Modes
  <2>2. new \in Row
    BY <2>1, UpdatedIs DEF WantSet
  <2>3. KeysIn(new) \subseteq Keys
    BY <2>2 DEF KeysIn, MaybeKey
  <2> HIDE DEF new, Row
  <2>4. row' \in {row, new} /\ stored' \in {stored, stored \cup KeysIn(new)}
    BY <1>6 DEF Insert, new
  <2> QED BY <1>6, <2>2, <2>3, <2>4 DEF Insert
<1>7. CASE Write(f)
  <2> DEFINE new == Updated(want[f], sent[f], read[f], row)
  <2>2. new \in Row
    BY UpdatedIs DEF WantSet
  <2>3. KeysIn(new) \subseteq Keys /\ (row.id # None => row.id \in Flows)
    BY <2>2 DEF KeysIn, MaybeKey
  <2> HIDE DEF new, Row
  <2>4. /\ row' \in {row, new} /\ stored' \in {stored, stored \cup KeysIn(new)}
        /\ replaced' = replaced \/ (row.id # None /\ replaced' = replaced \cup {row.id})
    BY <1>7 DEF Write, new
  <2> QED BY <1>7, <2>2, <2>3, <2>4 DEF Write
<1> QED BY <1>1, <1>2, <1>3, <1>4, <1>5, <1>6, <1>7 DEF Step

\* The type of what all else writes.
LEMMA OtherType ==
  ASSUME TypeOK, CodeInv, RecoverInv,
         \/ \E f \in Exchanged : CodeStep(f)
         \/ \E r \in Recoverers : ReadToRecover(r) \/ Recover(r)
         \/ Revoke
  PROVE  TypeOK'
<1> USE DEF TypeOK, flowVars, codeVars, recoveryVars, historyVars
<1>1. ASSUME NEW f \in Exchanged, CodeStep(f) PROVE TypeOK'
  <2>1. f \in Flows /\ (held[f] > 0 => held[f] = 1 /\ tokens[f] = 0)
    BY ExchangedAssumption DEF CodeInv, CodeUsedOnce
  <2>2. CASE WriteTokens(f)
    BY <2>1, <2>2 DEF WriteTokens
  <2>3. CASE Refuse(f)
    BY <2>1, <2>3 DEF Refuse
  <2>4. CASE Consume(f)
    BY <2>1, <2>4 DEF Consume, Consumed
  <2>5. CASE Expire(f) \/ CleanUp(f)
    BY <2>1, <2>5 DEF Expire, CleanUp
  <2> QED BY <1>1, <2>2, <2>3, <2>4, <2>5 DEF CodeStep
<1>2. ASSUME NEW r \in Recoverers, ReadToRecover(r) PROVE TypeOK'
  BY <1>2 DEF ReadToRecover, Row
<1>3. ASSUME NEW r \in Recoverers, Recover(r) PROVE TypeOK'
  <2>1. CASE row.id = rid[r]
    <3>1. row.id \in Flows
      BY <1>3, <2>1 DEF Recover, RecoverInv, Row
    <3>2. row' \in Row
      <4>1. row' = [row EXCEPT !.sym = r, !.asym = None, !.mode = "symmetric"]
        BY <1>3, <2>1 DEF Recover
      <4>2. row \in Row /\ r \in MaybeKey /\ None \in MaybeKey /\ "symmetric" \in Modes
        BY <1>3 DEF MaybeKey, Keys, Modes
      <4> HIDE DEF TypeOK
      <4> QED BY <4>1, <4>2 DEF Row
    <3> QED BY <1>3, <2>1, <3>1, <3>2 DEF Recover, Keys
  <2>2. CASE row.id # rid[r]
    BY <1>3, <2>2 DEF Recover
  <2> QED BY <2>1, <2>2
<1>4. CASE Revoke
  BY <1>4 DEF Revoke, NoRow, Row, MaybeKey, Modes
<1> QED BY <1>1, <1>2, <1>3, <1>4

-----------------------------------------------------------------------------
\* A code is made once, by a flow that had none.
LEMMA NextCode ==
  ASSUME TypeOK, CodeInv, Next
  PROVE  CodeInv'
<1> USE DEF TypeOK, CodeInv, CodeUsedOnce, Before, PCs
<1>1. ASSUME NEW f \in Flows, Step(f) PROVE CodeInv'
  <2>1. UNCHANGED <<held, tokens>>
    BY <1>1 DEF Step, Open, Authorize, Prompt, Unlock, Deliver, Finalize, Assertion, Stop,
                Read, Reread, Insert, Write, codeVars
  <2>2. \A g \in Flows \ {f} : pc'[g] = pc[g] /\ code'[g] = code[g]
    BY <1>1 DEF Step, Open, Authorize, Prompt, Unlock, Deliver, Finalize, Assertion, Stop,
                Read, Reread, Insert, Write, codeVars
  <2>3. /\ pc'[f] \in Before \cup {"reread", "write"} => pc[f] \in Before \cup {"reread"}
        /\ code'[f] # code[f] => /\ pc[f] \in {"idle", "write"}
                                /\ pc'[f] \notin Before \cup {"reread", "write"}
    BY <1>1 DEF Step, Open, Authorize, Prompt, Unlock, Deliver, Finalize, Assertion, Stop,
                Read, Reread, Insert, Write, codeVars
  <2> SUFFICES ASSUME NEW g \in Flows
      PROVE  /\ tokens'[g] + held'[g] <= 1
             /\ tokens'[g] + held'[g] = 1 => code'[g] = "gone"
             /\ pc'[g] \in Before \cup {"reread", "write"} =>
                  code'[g] = "none" /\ held'[g] = 0 /\ tokens'[g] = 0
    OBVIOUS
  <2>4. CASE g # f
    BY <2>1, <2>2, <2>4
  <2>5. CASE g = f
    BY <2>1, <2>3, <2>5
  <2> QED BY <2>4, <2>5
<1>2. ASSUME NEW f \in Exchanged, CodeStep(f) PROVE CodeInv'
  <2>1. f \in Flows
    BY ExchangedAssumption
  <2>2. CASE WriteTokens(f)
    BY <2>1, <2>2 DEF WriteTokens, flowVars
  <2>3. CASE Refuse(f)
    BY <2>1, <2>3 DEF Refuse, flowVars
  <2>4. CASE Consume(f)
    BY <2>1, <2>4 DEF Consume, Consumed, flowVars
  <2>5. CASE Expire(f) \/ CleanUp(f)
    BY <2>1, <2>5 DEF Expire, CleanUp, flowVars
  <2> QED BY <1>2, <2>2, <2>3, <2>4, <2>5 DEF CodeStep
<1>3. CASE (\E r \in Recoverers : ReadToRecover(r) \/ Recover(r)) \/ Revoke
  BY <1>3 DEF ReadToRecover, Recover, Revoke, flowVars, codeVars
<1> QED BY <1>1, <1>2, <1>3 DEF Next

LEMMA NextRecover ==
  ASSUME TypeOK, RecoverInv, Next
  PROVE  RecoverInv'
<1> USE DEF TypeOK, RecoverInv
<1>1. ASSUME NEW f \in Flows, Step(f) PROVE RecoverInv'
  BY <1>1 DEF Step, Open, Authorize, Prompt, Unlock, Deliver, Finalize, Assertion, Stop,
              Read, Reread, Insert, Write, recoveryVars
<1>2. ASSUME NEW f \in Exchanged, CodeStep(f) PROVE RecoverInv'
  BY <1>2 DEF CodeStep, Consume, WriteTokens, Refuse, Expire, CleanUp, recoveryVars
<1>3. CASE (\E r \in Recoverers : ReadToRecover(r) \/ Recover(r)) \/ Revoke
  BY <1>3 DEF ReadToRecover, Recover, Revoke, recoveryVars
<1> QED BY <1>1, <1>2, <1>3 DEF Next

-----------------------------------------------------------------------------
(* What only grows: the histories, and the flows whose choice is made.     *)

LEMMA NextGrows ==
  ASSUME TypeOK, Next
  PROVE  /\ stored \subseteq stored' /\ replaced \subseteq replaced'
         /\ \A i \in Flows : pc[i] \notin Before => pc'[i] \notin Before /\ sent'[i] = sent[i]
<1> USE DEF TypeOK, Before, PCs
<1>1. ASSUME NEW f \in Flows, Step(f)
      PROVE  /\ stored \subseteq stored' /\ replaced \subseteq replaced'
             /\ \A i \in Flows : pc[i] \notin Before => pc'[i] \notin Before /\ sent'[i] = sent[i]
  BY <1>1 DEF Step, Open, Authorize, Prompt, Unlock, Deliver, Finalize, Assertion, Stop,
              Read, Reread, Insert, Write, historyVars
<1>2. ASSUME NEW f \in Exchanged, CodeStep(f)
      PROVE  UNCHANGED <<stored, replaced, pc, sent>>
  BY <1>2 DEF CodeStep, Consume, WriteTokens, Refuse, Expire, CleanUp, flowVars, historyVars
<1>3. ASSUME (\E r \in Recoverers : ReadToRecover(r) \/ Recover(r)) \/ Revoke
      PROVE  /\ stored \subseteq stored' /\ replaced \subseteq replaced' /\ UNCHANGED <<pc, sent>>
  BY <1>3 DEF ReadToRecover, Recover, Revoke, flowVars, historyVars
<1> QED BY <1>1, <1>2, <1>3 DEF Next

LEMMA SoundStays ==
  ASSUME NEW r \in Row, NEW st, NEW rep, NEW p, NEW se, NEW st2, NEW rep2, NEW p2, NEW se2,
         SoundIn(r, st, rep, p, se), st \subseteq st2, rep \subseteq rep2,
         \A i \in Flows : p[i] \notin Before => p2[i] \notin Before /\ se2[i] = se[i]
  PROVE  SoundIn(r, st2, rep2, p2, se2)
BY DEF SoundIn, Row

LEMMA NoRowSound ==
  ASSUME NEW st, NEW rep, NEW p, NEW se
  PROVE  SoundIn(NoRow, st, rep, p, se)
BY DEF SoundIn, NoRow, KeysIn

-----------------------------------------------------------------------------
\* The row a flow inserts is sound: nobody has read it yet, and its key, if
\* any, is the one the flow made.
LEMMA InsertSound ==
  ASSUME IInv, NEW f \in Flows, Insert(f), row.id = None
  PROVE  Sound(row)'
<1> DEFINE new == Updated(want[f], sent[f], NoRow, [NoRow EXCEPT !.id = f])
<1>1. /\ pc[f] = "insert" /\ pc'[f] = "write" /\ row' = new /\ stored' = stored \cup KeysIn(new)
      /\ sent' = sent
  BY DEF Insert, IInv, TypeOK
<1>2. /\ want[f] \in WantSet /\ page[f] \in Row /\ sent[f] \in Material
      /\ NoRow \in Row /\ [NoRow EXCEPT !.id = f] \in Row
  BY DEF IInv, TypeOK, WantSet, NoRow, Row, MaybeKey, Modes
<1>3. Chosen(f) /\ Accepted(want[f], sent[f], NoRow)
  BY <1>1 DEF IInv, FlowInv
<1>4. new.id = f
  BY <1>2, UpdatedIs DEF NoRow
<1>5. sent[f] # Nothing => new = Began(f, sent[f])
  BY <1>2, <1>3, FirstRow DEF Chosen
<1> HIDE DEF new
<1>6. f # None
  BY NoneAssumption
<1> QED BY <1>1, <1>4, <1>5, <1>6 DEF Sound, SoundIn, Before

\* An update of a sound row leaves it sound: without a reset it writes what is
\* there already.
LEMMA WriteSound ==
  ASSUME IInv, NEW f \in Flows, Write(f), read[f].id # None, row.id = read[f].id
  PROVE  Sound(row)'
<1> DEFINE new == Updated(want[f], sent[f], read[f], row)
<1>1. /\ row' = new /\ stored' = stored \cup KeysIn(new) /\ sent' = sent
      /\ replaced' = IF want[f].reset THEN replaced \cup {row.id} ELSE replaced
      /\ pc[f] = "write"
  BY DEF Write
<1>2. /\ want[f] \in WantSet /\ read[f] \in Row /\ sent[f] \in Material /\ row \in Row
      /\ row.id \in Flows
  BY DEF IInv, TypeOK, WantSet, Row
<1>3. new.id = row.id
  BY <1>2, UpdatedIs
<1>4. pc'[row.id] \notin Before
  BY <1>2 DEF IInv, TypeOK, ViewInv, Sound, SoundIn, Write, Before
<1>5. ASSUME row.id \notin replaced', sent[row.id] # Nothing
      PROVE  new = Began(row.id, sent[row.id])
  <2>1. ~want[f].reset /\ row.id \notin replaced
    BY <1>1, <1>5
  <2>2. row = Began(row.id, sent[row.id]) /\ read[f] = row
    BY <1>2, <1>5, <2>1 DEF IInv, ViewInv, Sound, SoundIn
  <2>3. sent[row.id] \in {KeyAs("symmetric", row.id), KeyAs("asymmetric", row.id)} /\ row.id # None
    BY <1>2, <1>5, NoneAssumption DEF IInv, FlowInv, OwnKey
  <2>4. \/ row.mode = "symmetric" /\ row.sym # None
        \/ row.mode = "asymmetric" /\ row.asym # None
    BY <2>2, <2>3 DEF Began, KeyAs
  <2>5. Accepted(want[f], sent[f], row)
    BY <1>1, <2>2 DEF IInv, FlowInv
  <2>6. new = row
    BY <1>2, <2>1, <2>2, <2>4, <2>5, UpdateKeeps
  <2> QED BY <2>2, <2>6
<1> HIDE DEF new
<1> QED BY <1>1, <1>2, <1>3, <1>4, <1>5, NoneAssumption DEF Sound, SoundIn

LEMMA RecoverSound ==
  ASSUME IInv, NEW r \in Recoverers, Recover(r), row.id = rid[r]
  PROVE  Sound(row)'
<1>1. row.id \in Flows /\ row.id # None
  BY NoneAssumption DEF Recover, IInv, RecoverInv, TypeOK, Row
<1>2. /\ row' = [row EXCEPT !.sym = r, !.asym = None, !.mode = "symmetric"]
      /\ stored' = stored \cup {r} /\ replaced' = replaced \cup {row.id} /\ pc' = pc
  BY DEF Recover, flowVars
<1>3. row'.id = row.id /\ KeysIn(row') \subseteq {r}
  BY <1>2 DEF IInv, TypeOK, Row, KeysIn
<1>4. pc[row.id] \notin Before
  BY <1>1 DEF IInv, ViewInv, Sound, SoundIn
<1> QED BY <1>1, <1>2, <1>3, <1>4 DEF Sound, SoundIn

LEMMA NextView ==
  ASSUME IInv, Next
  PROVE  ViewInv'
<1>1. \A r \in Row : Sound(r) => SoundIn(r, stored', replaced', pc', sent')
  BY NextGrows, SoundStays DEF Sound, IInv
<1>2. /\ row \in Row /\ Sound(row)
      /\ \A f \in Flows : page[f] \in Row /\ Sound(page[f]) /\ read[f] \in Row /\ Sound(read[f])
  BY DEF IInv, TypeOK, ViewInv
<1>3. \A f \in Flows : page'[f] \in {page[f], row} /\ read'[f] \in {read[f], row}
  <2>1. ASSUME NEW f \in Flows, Step(f)
        PROVE  \A g \in Flows : page'[g] \in {page[g], row} /\ read'[g] \in {read[g], row}
    BY <2>1 DEF Step, Open, Bootstrap, Authorize, Prompt, Unlock, Deliver, Finalize, Assertion, Stop,
                Read, Reread, Insert, Write, IInv, TypeOK
  <2>2. ASSUME NEW f \in Exchanged, CodeStep(f) PROVE UNCHANGED <<page, read>>
    BY <2>2 DEF CodeStep, Consume, WriteTokens, Refuse, Expire, CleanUp, flowVars
  <2>3. ASSUME (\E r \in Recoverers : ReadToRecover(r) \/ Recover(r)) \/ Revoke
        PROVE  UNCHANGED <<page, read>>
    BY <2>3 DEF ReadToRecover, Recover, Revoke, flowVars
  <2> QED BY <2>1, <2>2, <2>3 DEF Next
<1>4. \A f \in Flows : /\ SoundIn(page'[f], stored', replaced', pc', sent')
                      /\ SoundIn(read'[f], stored', replaced', pc', sent')
  BY <1>1, <1>2, <1>3 DEF Sound
<1>5. row' = row => Sound(row)'
  BY <1>1, <1>2 DEF Sound
<1>6. row' = NoRow => Sound(row)'
  BY NoRowSound DEF Sound
<1>7. ASSUME NEW f \in Flows, Step(f) PROVE Sound(row)'
  <2>1. CASE Insert(f)
    BY <1>5, <2>1, InsertSound DEF Insert
  <2>2. CASE Write(f)
    BY <1>5, <2>2, WriteSound DEF Write
  <2>3. CASE ~Insert(f) /\ ~Write(f)
    BY <1>5, <1>7, <2>3 DEF Step, Open, Authorize, Prompt, Unlock, Deliver, Finalize, Assertion, Stop,
                            Read, Reread
  <2> QED BY <2>1, <2>2, <2>3
<1>8. ASSUME NEW f \in Exchanged, CodeStep(f) PROVE Sound(row)'
  BY <1>5, <1>8 DEF CodeStep, Consume, WriteTokens, Refuse, Expire, CleanUp
<1>9. ASSUME NEW r \in Recoverers, ReadToRecover(r) \/ Recover(r) PROVE Sound(row)'
  BY <1>5, <1>9, RecoverSound DEF ReadToRecover, Recover
<1>10. ASSUME Revoke PROVE Sound(row)'
  BY <1>6, <1>10 DEF Revoke
<1>11. Sound(row)'
  BY <1>7, <1>8, <1>9, <1>10 DEF Next
<1> QED BY <1>4, <1>11 DEF ViewInv, Sound

-----------------------------------------------------------------------------
\* What FlowInv and StoreInv say of one flow.
FlowFact(f) ==
  /\ OwnKey(f)
  /\ pc[f] \in {"idle", "page", "locked"} => sent[f] = Nothing /\ given[f] = None
  /\ pc[f] \in {"sent", "insert", "reread", "write", "answered"} => Chosen(f)
  /\ pc[f] = "done" => given[f] = None \/ Chosen(f)
  /\ pc[f] \in Before \cup {"reread"} => read[f] = NoRow
  /\ pc[f] = "insert" => Accepted(want[f], sent[f], NoRow)
  /\ pc[f] \in {"write", "answered", "done"} /\ read[f].id # None =>
       Accepted(want[f], sent[f], read[f])

StoreFact(f) ==
  given[f] # None =>
    /\ pc[f] = "write" /\ read[f].id = None => given[f] \in stored
    /\ pc[f] \in {"answered", "done"} => given[f] \in stored \/ f \in missed

\* A step of a flow touches no other.
LEMMA StepFrame ==
  ASSUME TypeOK, NEW f \in Flows, Step(f), NEW g \in Flows \ {f}
  PROVE  /\ pc'[g] = pc[g] /\ want'[g] = want[g] /\ page'[g] = page[g]
         /\ sent'[g] = sent[g] /\ given'[g] = given[g] /\ read'[g] = read[g]
BY DEF TypeOK, Step, Open, Authorize, Prompt, Unlock, Deliver, Finalize, Assertion, Stop,
       Read, Reread, Insert, Write

LEMMA MissedGrows ==
  ASSUME Next
  PROVE  missed \subseteq missed'
BY DEF Next, Step, Open, Authorize, Prompt, Unlock, Deliver, Finalize, Assertion, Stop,
       Read, Reread, Insert, Write, CodeStep, Consume, WriteTokens, Refuse, Expire, CleanUp,
       ReadToRecover, Recover, Revoke, historyVars

LEMMA StepFlow ==
  ASSUME IInv, NEW f \in Flows, Step(f)
  PROVE  FlowFact(f)'
<1> USE DEF IInv, TypeOK
<1>0. FlowFact(f)
  BY DEF FlowInv, FlowFact
<1>1. CASE Open(f)
  BY <1>0, <1>1 DEF Open, FlowFact, OwnKey, Chosen, Before
<1>2. CASE Authorize(f)
  <2>1. want[f] \in WantSet /\ page[f] \in Row
    BY DEF WantSet
  <2>2. /\ sent'[f] = Choose(want[f], page[f], f).sent /\ given'[f] = Choose(want[f], page[f], f).given
        /\ want' = want /\ page' = page /\ read' = read /\ pc[f] = "page" /\ pc'[f] = "sent"
    BY <1>2 DEF Authorize
  <2>3. OwnKey(f)'
    BY <2>1, <2>2, ChooseIs DEF OwnKey
  <2> QED BY <1>0, <2>2, <2>3 DEF FlowFact, Chosen, Before
<1>3. CASE Prompt(f) \/ Unlock(f) \/ Deliver(f) \/ Finalize(f) \/ Assertion(f) \/ Stop(f)
  <2>1. /\ UNCHANGED <<want, page, sent, given, read>>
        /\ \/ pc[f] = "page" /\ pc'[f] = "locked"
           \/ pc[f] = "locked" /\ pc'[f] = "page"
           \/ pc[f] = "answered" /\ pc'[f] = "done"
           \/ pc[f] = "idle" /\ pc'[f] = "done"
           \/ pc'[f] = "stopped"
    BY <1>3 DEF Prompt, Unlock, Deliver, Finalize, Assertion, Stop
  <2>2. pc[f] = "idle" => given[f] = None /\ read[f].id = None
    BY <1>0 DEF FlowFact, Before, NoRow
  <2> QED BY <1>0, <2>1, <2>2 DEF FlowFact, OwnKey, Chosen, Before
<1>4. CASE Read(f)
  <2>1. row.id = None => row = NoRow
    BY DEF ViewInv, Sound, SoundIn
  <2> QED BY <1>0, <1>4, <2>1 DEF Read, FlowFact, OwnKey, Chosen, Before
<1>5. CASE Reread(f)
  BY <1>0, <1>5 DEF Reread, FlowFact, OwnKey, Chosen, Before
<1>6. CASE Insert(f)
  BY <1>0, <1>6 DEF Insert, FlowFact, OwnKey, Chosen, Before, NoRow
<1>7. CASE Write(f)
  BY <1>0, <1>7 DEF Write, FlowFact, OwnKey, Chosen, Before
<1> QED BY <1>1, <1>2, <1>3, <1>4, <1>5, <1>6, <1>7 DEF Step

\* The statement that a flow owes its key to: the insert, or the update.
LEMMA StepStore ==
  ASSUME IInv, NEW f \in Flows, Step(f)
  PROVE  StoreFact(f)'
<1> USE DEF IInv, TypeOK
<1>0. FlowFact(f) /\ StoreFact(f)
  BY DEF FlowInv, FlowFact, StoreInv, StoreFact
<1>1. stored \subseteq stored' /\ missed \subseteq missed'
  BY NextGrows, MissedGrows DEF Next
<1>2. KeysIn(page[f]) \subseteq stored
  BY DEF ViewInv, Sound, SoundIn
<1>3. /\ want[f] \in WantSet /\ page[f] \in Row /\ read[f] \in Row /\ row \in Row
      /\ NoRow \in Row /\ [NoRow EXCEPT !.id = f] \in Row
  BY DEF WantSet, NoRow, Row, MaybeKey, Modes
<1>4. CASE Insert(f)
  <2> SUFFICES ASSUME row.id = None, given[f] # None PROVE given[f] \in stored'
    BY <1>4, <1>0 DEF Insert, StoreFact, FlowFact, Before
  <2> DEFINE new == Updated(want[f], sent[f], NoRow, [NoRow EXCEPT !.id = f])
  <2>1. Chosen(f) /\ Accepted(want[f], sent[f], NoRow)
    BY <1>0, <1>4 DEF Insert, FlowFact
  <2>2. given[f] \in KeysIn(page[f]) \cup KeysIn(new)
    BY <1>3, <2>1, ChosenIsIn DEF Chosen
  <2>3. stored' = stored \cup KeysIn(new)
    BY <1>4 DEF Insert
  <2> HIDE DEF new
  <2> QED BY <1>2, <2>2, <2>3
<1>5. CASE Write(f)
  <2> DEFINE new == Updated(want[f], sent[f], read[f], row)
  <2>1. Chosen(f) /\ (read[f].id # None => Accepted(want[f], sent[f], read[f]))
    BY <1>0, <1>5 DEF Write, FlowFact
  <2>2. read[f].id # None /\ given[f] # None => given[f] \in KeysIn(page[f]) \cup KeysIn(new)
    BY <1>3, <2>1, ChosenIsIn DEF Chosen
  <2>3. /\ read[f].id # None /\ row.id = read[f].id => stored' = stored \cup KeysIn(new)
        /\ read[f].id # None /\ row.id # read[f].id => f \in missed'
        /\ given' = given /\ pc[f] = "write" /\ pc'[f] = "answered"
    BY <1>5 DEF Write
  <2> HIDE DEF new
  <2> QED BY <1>0, <1>1, <1>2, <2>2, <2>3 DEF StoreFact
<1>6. CASE Read(f) \/ Reread(f)
  BY <1>6 DEF Read, Reread, StoreFact
<1>7. CASE Open(f) \/ Authorize(f) \/ Prompt(f) \/ Unlock(f) \/ Stop(f) \/ Assertion(f)
  BY <1>0, <1>7 DEF Open, Authorize, Prompt, Unlock, Stop, Assertion, StoreFact, FlowFact
<1>8. CASE Deliver(f) \/ Finalize(f)
  BY <1>0, <1>1, <1>8 DEF Deliver, Finalize, StoreFact
<1> QED BY <1>4, <1>5, <1>6, <1>7, <1>8 DEF Step

LEMMA NextFlow ==
  ASSUME IInv, Next
  PROVE  (FlowInv /\ StoreInv)'
<1>1. \A g \in Flows : FlowFact(g) /\ StoreFact(g)
  BY DEF IInv, FlowInv, FlowFact, StoreInv, StoreFact
<1>2. stored \subseteq stored' /\ missed \subseteq missed' /\ TypeOK
  BY NextGrows, MissedGrows DEF IInv
<1>3. ASSUME NEW f \in Flows, Step(f), NEW g \in Flows PROVE (FlowFact(g) /\ StoreFact(g))'
  <2>1. CASE g = f
    BY <1>3, <2>1, StepFlow, StepStore
  <2>2. CASE g # f
    BY <1>1, <1>2, <1>3, <2>2, StepFrame DEF FlowFact, StoreFact, OwnKey, Chosen
  <2> QED BY <2>1, <2>2
<1>4. ASSUME NEW g \in Flows, UNCHANGED flowVars PROVE (FlowFact(g) /\ StoreFact(g))'
  BY <1>1, <1>2, <1>4 DEF FlowFact, StoreFact, OwnKey, Chosen, flowVars
<1>5. (\E f \in Flows : Step(f)) \/ UNCHANGED flowVars
  BY DEF Next, CodeStep, Consume, WriteTokens, Refuse, Expire, CleanUp, ReadToRecover, Recover, Revoke
<1>6. \A g \in Flows : (FlowFact(g) /\ StoreFact(g))'
  BY <1>3, <1>4, <1>5
<1> QED BY <1>6 DEF FlowInv, FlowFact, StoreInv, StoreFact

-----------------------------------------------------------------------------
LEMMA NextInv == IInv /\ [Next]_vars => IInv'
<1> SUFFICES ASSUME IInv, [Next]_vars PROVE IInv'
  OBVIOUS
<1>1. CASE Next
  <2>1. TypeOK'
    BY <1>1, StepType, OtherType DEF IInv, Next
  <2> QED BY <1>1, <2>1, NextCode, NextRecover, NextView, NextFlow DEF IInv
<1>2. CASE UNCHANGED vars
  BY <1>2 DEF IInv, TypeOK, CodeInv, CodeUsedOnce, RecoverInv, ViewInv, Sound, FlowInv, OwnKey, Chosen,
              StoreInv, vars, flowVars, codeVars, recoveryVars, historyVars
<1> QED BY <1>1, <1>2

THEOREM Invariance == Spec => []IInv
BY InitInv, NextInv, PTL DEF Spec

\* The row, the flows, the codes and the recoveries keep to their types.
THEOREM TypeCorrect == Spec => []TypeOK
<1>1. IInv => TypeOK
  BY DEF IInv
<1> QED BY <1>1, Invariance, PTL

\* A code yields tokens at most once, and is gone before it does
\* (consumeAuthorizationCode, oauth-store.ts).
THEOREM CodesAreUsedOnce == Spec => []CodeUsedOnce
<1>1. IInv => CodeUsedOnce
  BY DEF IInv, CodeInv
<1> QED BY <1>1, Invariance, PTL

\* A plain flow hands over the key its row began with: it read that key, or
\* the server held it against the one it sent.
LEMMA PlainKey ==
  ASSUME IInv, NEW f \in Flows, Plain(f), RowOf(f) \notin replaced, sent[RowOf(f)] # Nothing
  PROVE  given[f] = RowOf(f)
<1> DEFINE i == RowOf(f)
           m == want[f].mode
<1>1. /\ want[f] \in WantSet /\ page[f] \in Row /\ read[f] \in Row /\ i \in Flows /\ i # None
      /\ sent[f] \in Material
  BY NoneAssumption DEF IInv, TypeOK, WantSet, RowOf, Row
<1>2. CASE read[f].id = None
  BY <1>2 DEF RowOf, IInv, FlowInv, OwnKey
<1>3. CASE read[f].id # None
  <2>1. /\ pc[f] = "done" /\ given[f] # None /\ ~want[f].reset /\ page[f].id \in {None, i}
        /\ Chosen(f) /\ Accepted(want[f], sent[f], read[f]) /\ i = read[f].id
    BY <1>3 DEF Plain, IInv, FlowInv, RowOf
  <2>2. Resolve(want[f], page[f]) = m /\ Resolve(want[f], read[f]) = m
    BY <2>1 DEF Resolve
  <2>3. m \in {"symmetric", "asymmetric"}
    BY <1>1, <2>1, <2>2 DEF Chosen, Choose, WantSet, Modes
  <2>4. read[f] = Began(i, sent[i])
    BY <1>1, <2>1 DEF IInv, ViewInv, Sound, SoundIn
  <2>5. page[f] = NoRow \/ page[f] = Began(i, sent[i])
    BY <1>1, <2>1 DEF IInv, ViewInv, Sound, SoundIn
  <2>6. sent[i] \in {KeyAs("symmetric", i), KeyAs("asymmetric", i)}
    BY <1>1 DEF IInv, FlowInv, OwnKey
  <2>7. KeyOf(m, NoRow) = None /\ KeyOf(m, KeyAs(m, f)) = f /\ f # None
    BY <2>3, NoneAssumption DEF KeyOf, KeyAs, NoRow
  <2>8. KeyOf(m, Began(i, sent[i])) \in {None, i}
    BY <2>3, <2>6 DEF KeyOf, KeyAs, Began
  <2>9. Valid(want[f], m, sent[f], read[f])
    BY <2>1, <2>2, <2>3 DEF Accepted
  <2>10. read[f].mode = m
    BY <1>1, <2>1, <2>3, <2>4, <2>6, <2>9 DEF Valid, Began
  <2>11. KeyOf(m, read[f]) = i
    BY <1>1, <2>3, <2>4, <2>6, <2>10 DEF KeyOf, KeyAs, Began
  <2> HIDE DEF i, m
  <2>12. CASE KeyOf(m, page[f]) # None
    <3>1. page[f] = Began(i, sent[i]) /\ KeyOf(m, page[f]) = i
      BY <2>4, <2>5, <2>7, <2>11, <2>12
    <3>2. given[f] = KeyOf(m, page[f])
      BY <2>1, <2>2, <2>3, <2>12 DEF Chosen, Choose
    <3> QED BY <3>1, <3>2 DEF i
  <2>13. CASE KeyOf(m, page[f]) = None
    <3>1. sent[f] = KeyAs(m, f) /\ given[f] = f
      BY <2>1, <2>2, <2>3, <2>13 DEF Chosen, Choose
    <3>2. f = i
      BY <1>1, <2>1, <2>7, <2>9, <2>11, <3>1 DEF Valid
    <3> QED BY <3>1, <3>2 DEF i
  <2> QED BY <2>12, <2>13
<1> QED BY <1>2, <1>3

\* The key of an application is kept, and is one: what an application was
\* handed is stored, unless the row was revoked under the flow, and flows that
\* share a row share its key (handleAuthorize and POST /authorize).
THEOREM KeysAreStoredOnce == Spec => []KeyStoredOnce
<1>1. IInv => DeliveredWasStored
  BY DEF IInv, StoreInv, DeliveredWasStored
<1>2. IInv => OneKeyPerRow
  BY PlainKey DEF OneKeyPerRow
<1> QED BY <1>1, <1>2, Invariance, PTL DEF KeyStoredOnce

-----------------------------------------------------------------------------
(* Connectors.                                                              *)

\* The grant a connection has written.
Target(k) == IF connectRow[k] = None THEN k ELSE connectRow[k]

\* A connection has no grant until it inserts one, and knows what it has read.
Connecting(k) ==
  /\ scope[k] \subseteq consented[k]
  /\ connectPc[k] # "done" => grant[k] = "none"
  /\ connectPc[k] \in {"idle", "resource", "grant", "insert"} => connectRow[k] = None
  /\ connectPc[k] = "update" =>
              /\ connectRow[k] \in Connections /\ old[k] \subseteq consented[connectRow[k]]
              /\ k \notin disturbed => grant[connectRow[k]] = "active"

\* What a connection has written is kept by whoever has read it since.
Stands(k) ==
  connectPc[k] = "done" /\ k \notin disturbed =>
           /\ grant[Target(k)] = "active" /\ ask[k] \subseteq scope[Target(k)]
           /\ \A j \in Connections : connectPc[j] = "update" /\ connectRow[j] = Target(k) => ask[k] \subseteq old[j]

Exchanging(x) ==
  /\ \A g \in late[x] : grant[g] = "revoked"
  /\ xpc[x] \in {"idle", "grant"} => token[x] = None
  /\ token[x] # None => connectWant[x] \subseteq consented[token[x]] /\ token[x] \notin late[x]

ConnectorInv ==
  /\ C!TypeOK
  /\ \A k \in Connections : Connecting(k) /\ Stands(k)
  /\ \A x \in Exchanges : Exchanging(x)

LEMMA ConnectorInit == C!Init => ConnectorInv
BY ConnectorsAssumption DEF C!Init, ConnectorInv, C!TypeOK, Connecting, Stands, Exchanging, C!MaybeGrant

\* Reading changes no grant.
LEMMA ConnectReads ==
  ASSUME ConnectorInv, NEW k \in Connections, C!Open(k) \/ C!ReadResource(k) \/ C!ReadGrant(k) \/ C!Stop(k)
  PROVE  ConnectorInv'
<1> USE ConnectorsAssumption DEF ConnectorInv, C!TypeOK, C!gVars, C!exchangeVars, C!historyVars
<1>1. C!TypeOK'
  BY DEF C!Open, C!ReadResource, C!ReadGrant, C!Stop, C!Active, C!MaybeGrant, C!Deciding
<1>2. ASSUME NEW x \in Exchanges PROVE Exchanging(x)'
  BY DEF C!Open, C!ReadResource, C!ReadGrant, C!Stop, Exchanging
<1>3. ASSUME NEW j \in Connections PROVE Connecting(j)'
  BY DEF C!Open, C!ReadResource, C!ReadGrant, C!Stop, Connecting, C!Active, C!Deciding
<1>4. ASSUME NEW j \in Connections PROVE Stands(j)'
  <2>1. CASE C!Open(k) \/ C!ReadResource(k) \/ C!Stop(k)
    BY <2>1 DEF C!Open, C!ReadResource, C!Stop, Stands, Target, C!Deciding
  <2>2. CASE C!ReadGrant(k)
    <3>1. j # k => connectPc'[j] = connectPc[j] /\ connectRow'[j] = connectRow[j]
      BY <2>2 DEF C!ReadGrant
    <3>2. connectPc'[j] = "done" => j # k /\ connectPc[j] = "done" /\ Target(j)' = Target(j)
      BY <2>2, <3>1 DEF C!ReadGrant, Target
    <3>3. ASSUME NEW i \in Connections, i # k PROVE connectPc'[i] = connectPc[i] /\ connectRow'[i] = connectRow[i] /\ old'[i] = old[i]
      BY <2>2, <3>3 DEF C!ReadGrant
    <3>4. connectPc'[k] = "update" => old'[k] = scope[connectRow'[k]]
      BY <2>2 DEF C!ReadGrant, C!Active
    <3>5. UNCHANGED <<ask, grant, scope, disturbed>>
      BY <2>2 DEF C!ReadGrant
    <3> QED BY <3>2, <3>3, <3>4, <3>5 DEF Stands
  <2> QED BY <2>1, <2>2
<1> QED BY <1>1, <1>2, <1>3, <1>4

LEMMA ConnectWrites ==
  ASSUME ConnectorInv, NEW k \in Connections, C!InsertGrant(k) \/ C!UpdateGrant(k)
  PROVE  ConnectorInv'
<1> USE ConnectorsAssumption DEF ConnectorInv, C!TypeOK, C!exchangeVars
<1>1. C!TypeOK'
  <2>1. disturbed' \subseteq Connections
    BY DEF C!InsertGrant, C!UpdateGrant, C!Deciding
  <2>2. scope' \in [Connections -> SUBSET Scopes] /\ consented' \in [Connections -> SUBSET Scopes]
    BY DEF C!InsertGrant, C!UpdateGrant, C!Merged, Connecting
  <2> QED BY <2>1, <2>2 DEF C!InsertGrant, C!UpdateGrant
<1>2. /\ connectPc[k] \in {"insert", "update"} /\ connectPc' = [connectPc EXCEPT ![k] = "done"]
      /\ UNCHANGED <<ask, connectRow, old, xpc, connectWant, token, late>>
      /\ \A g \in Connections : consented[g] \subseteq consented'[g]
      /\ \A g \in Connections \ {k} : grant'[g] = grant[g]
      /\ grant[k] = "none" /\ grant'[k] \in {"none", "active"}
      /\ disturbed \subseteq disturbed' /\ C!Deciding \ {k} \subseteq disturbed'
      /\ k \notin disturbed' => C!Deciding = {k}
  BY DEF C!InsertGrant, C!UpdateGrant, Connecting, C!Deciding
<1>3. ASSUME NEW x \in Exchanges PROVE Exchanging(x)'
  BY <1>2 DEF Exchanging, C!MaybeGrant
<1>4. ASSUME NEW j \in Connections PROVE scope'[j] \subseteq consented'[j]
  BY <1>4 DEF C!InsertGrant, C!UpdateGrant, C!Merged, Connecting
<1>5. ASSUME NEW j \in Connections PROVE Connecting(j)'
  BY <1>2, <1>4 DEF Connecting, C!Deciding
<1>6. /\ grant'[Target(k)] = IF connectPc[k] = "insert" THEN "active" ELSE grant[Target(k)]
      /\ ask[k] \subseteq scope'[Target(k)] /\ Target(k) \in Connections
      /\ connectPc[k] = "update" => old[k] \subseteq scope'[Target(k)] /\ Target(k) = connectRow[k]
      /\ \A g \in Connections \ {Target(k)} : scope'[g] = scope[g]
  BY DEF C!InsertGrant, C!UpdateGrant, C!Merged, Connecting, Target
<1>7. ASSUME NEW j \in Connections PROVE Target(j)' = Target(j)
  BY <1>2 DEF Target
<1>8. ASSUME NEW j \in Connections, connectPc'[j] = "done", j \notin disturbed' PROVE Stands(j)'
  <2>1. CASE j = k
    <3>1. C!Deciding = {k}
      BY <1>2, <1>8, <2>1
    <3>2. \A i \in Connections : connectPc'[i] # "update"
      BY <1>2, <3>1 DEF C!Deciding
    <3>3. connectPc[k] = "update" => grant[connectRow[k]] = "active" /\ connectRow[k] # k
      BY <1>2, <1>8, <2>1 DEF Connecting
    <3> QED BY <1>2, <1>6, <1>7, <2>1, <3>2, <3>3 DEF Stands
  <2>2. CASE j # k
    <3>1. connectPc[j] = "done" /\ j \notin disturbed /\ Stands(j)
      BY <1>2, <1>8, <2>2
    <3>2. grant[Target(j)] = "active" /\ ask[j] \subseteq scope[Target(j)] /\ Target(j) # k
      BY <1>2, <3>1 DEF Stands
    <3>3. Target(j) \in Connections
      BY <3>2 DEF Target, C!MaybeGrant
    <3>4. ask[j] \subseteq scope'[Target(j)]
      <4>1. CASE Target(j) # Target(k)
        BY <1>6, <3>2, <3>3, <4>1
      <4>2. CASE Target(j) = Target(k)
        <5>1. connectPc[k] = "update" /\ connectRow[k] = Target(j)
          BY <1>2, <1>6, <3>2, <4>2 DEF Target, Connecting
        <5> QED BY <1>6, <3>1, <4>2, <5>1 DEF Stands
      <4> QED BY <4>1, <4>2
    <3> QED BY <1>2, <1>7, <3>1, <3>2, <3>3, <3>4 DEF Stands
  <2> QED BY <2>1, <2>2
<1> QED BY <1>1, <1>3, <1>5, <1>8 DEF Stands

LEMMA ConnectorRevokes ==
  ASSUME ConnectorInv, NEW h \in Connections, C!Revoke(h)
  PROVE  ConnectorInv'
<1> USE ConnectorsAssumption DEF ConnectorInv, C!TypeOK, C!exchangeVars, C!connectVars, C!Revoke
<1>1. C!TypeOK'
  <2>1. disturbed' \subseteq Connections
    BY DEF C!Deciding
  <2> QED BY <2>1
<1>2. ASSUME NEW x \in Exchanges PROVE Exchanging(x)'
  BY DEF Exchanging
<1>3. ASSUME NEW j \in Connections PROVE Connecting(j)'
  BY DEF Connecting, C!Deciding
<1>4. ASSUME NEW j \in Connections PROVE Stands(j)'
  <2>1. j \notin disturbed' /\ connectPc[j] = "done" => Target(j) # h
    BY DEF Target
  <2>2. Target(j)' = Target(j)
    BY DEF Target
  <2> QED BY <2>1, <2>2 DEF Stands
<1> QED BY <1>1, <1>2, <1>3, <1>4

LEMMA ConnectorExchanges ==
  ASSUME ConnectorInv, NEW x \in Exchanges, C!ExchangeResource(x) \/ C!ExchangeGrant(x)
  PROVE  ConnectorInv'
<1> USE ConnectorsAssumption DEF ConnectorInv, C!TypeOK, C!connectVars, C!gVars, C!historyVars
<1>1. C!TypeOK'
  BY DEF C!ExchangeResource, C!ExchangeGrant, C!Active, C!MaybeGrant
<1>2. ASSUME NEW y \in Exchanges PROVE Exchanging(y)'
  BY DEF C!ExchangeResource, C!ExchangeGrant, Exchanging, C!Active, C!Within, Connecting
<1>3. UNCHANGED <<connectPc, ask, connectRow, old, grant, scope, consented, disturbed>>
  BY DEF C!ExchangeResource, C!ExchangeGrant
<1>4. ASSUME NEW j \in Connections PROVE Connecting(j)' /\ Stands(j)'
  BY <1>3 DEF Connecting, Stands, Target
<1> QED BY <1>1, <1>2, <1>4

THEOREM ConnectorInvariance == C!Spec => []ConnectorInv
<1>1. ConnectorInv /\ [C!Next]_(C!vars) => ConnectorInv'
  <2> SUFFICES ASSUME ConnectorInv, [C!Next]_(C!vars) PROVE ConnectorInv'
    OBVIOUS
  <2>1. CASE C!Offer \/ UNCHANGED C!vars
    <3>1. UNCHANGED <<C!gVars, C!connectVars, C!exchangeVars, C!historyVars>> /\ offered' \subseteq Scopes
      BY <2>1 DEF C!Offer, C!vars, ConnectorInv, C!TypeOK
    <3> QED BY <3>1 DEF ConnectorInv, C!TypeOK, Connecting, Stands, Exchanging, Target, C!gVars, C!connectVars,
                        C!exchangeVars, C!historyVars
  <2> QED BY <2>1, ConnectReads, ConnectWrites, ConnectorRevokes, ConnectorExchanges DEF C!Next, C!ConnectStep
<1> QED BY <1>1, ConnectorInit, PTL DEF C!Spec

\* Scopes of a revoked grant never come back in a token.
THEOREM DelegatedAsConsented == C!Spec => []C!DelegatedWithinConsent
<1>1. ConnectorInv => C!DelegatedWithinConsent
  BY DEF ConnectorInv, Exchanging, C!DelegatedWithinConsent
<1> QED BY <1>1, ConnectorInvariance, PTL

\* A connection that met no other write stands.
THEOREM LoneConnectionsStand == C!Spec => []C!LoneConnectionStands
<1>1. ASSUME ConnectorInv PROVE C!LoneConnectionStands
  <2>1. ASSUME NEW k \in Connections, connectPc[k] = "done", k \notin disturbed
        PROVE  \E g \in C!Active : ask[k] \subseteq scope[g]
    <3>1. Target(k) \in Connections
      BY <1>1, <2>1 DEF Target, ConnectorInv, C!TypeOK, C!MaybeGrant
    <3> QED BY <1>1, <2>1, <3>1 DEF ConnectorInv, Stands, C!Active
  <2> QED BY <2>1 DEF C!LoneConnectionStands
<1> QED BY <1>1, ConnectorInvariance, PTL

-----------------------------------------------------------------------------
(* Enterprise SSO (SsoConnections).                                         *)

MaybeVouched == S!Vouched \cup {None}
Resolved == {"find", "user", "identity", "member", "undo", "session"}
Made == {"member", "undo", "session", "done"}

Verifying(v) ==
  /\ vold[v] \subseteq S!Vouched
  /\ vpc[v] \in {"lookup", "verify", "list"} => vdom[v] \in Domains
  /\ vpc[v] \in {"verify", "list"} => vdom[v] \in proved

\* Writers of the list that do not overlap write it as it is.
ListStands ==
  /\ \A v, w \in S!Lists : v = w
  /\ \A u, w \in S!Rewrites : u = w
  /\ S!Lists = {} \/ S!Rewrites = {}
  /\ \A v \in S!Lists : vold[v] = verified
  /\ \A u \in S!Rewrites : ulist[u] = verified
  /\ \A d \in proved : \/ d \in verified \cup leftOut
                       \/ \E v \in Verifications : vpc[v] \in {"verify", "list"} /\ vdom[v] = d

DomainInv ==
  /\ verified \subseteq S!Vouched
  /\ \A v \in Verifications : Verifying(v)
  /\ \A u \in Updates : ulist[u] \subseteq S!Vouched
  /\ crossed \/ ListStands

\* Whatever has been read of a connection was tested if it was active.
ConnectionInv ==
  /\ \A c \in SsoConnectionIds : conn[c].domain \in MaybeVouched /\ (conn[c].status = "active" => c \in tested)
  /\ \A p \in Patches :
       /\ ppc[p] = "write" => pconn[p] \in SsoConnectionIds
       /\ pold[p].domain \in MaybeVouched /\ pask[p].domain \in MaybeVouched
       /\ pold[p].status = "active" => pconn[p] \in tested

\* What a sign-in came over.
CameOver(l) ==
  /\ lpc[l] = "idle" => lrow[l] = S!NoRow /\ lmode[l] = None
  /\ lpc[l] \notin {"idle", "done"} => lconn[l] \in SsoConnectionIds
  /\ lmode[l] = "login" \/ lrow[l].status = "active" => lconn[l] \in tested
  /\ lrow[l].domain \in MaybeVouched
  /\ lpc[l] \in {"back", "test"} \cup Resolved => ldom[l] \in Domains
  /\ lpc[l] \in Resolved \/ l \in session =>
       lconn[l] \in tested /\ (lrow[l].domain # None => ldom[l] = lrow[l].domain)

\* The account it uses has been made, by itself or by one that is past it.
HasAccount(l) ==
  /\ l \in session => lpc[l] = "done" /\ account[l] \in there
  /\ lpc[l] \in {"member", "session"} \/ l \in session =>
       account[l] \in Logins /\ (account[l] \in there => holder[account[l]] = ldom[l])
  /\ lpc[l] \in {"identity", "undo"} => account[l] = l
  /\ account[l] # None => account[l] = l \/ lpc[account[l]] \in Made
  /\ account[l] = l => lpc[l] \in Made \cup {"identity"}
  /\ holder[l] # None => lpc[l] \in Made

\* Sign-ins that do not overlap make one account of an address.
AccountsStand ==
  /\ \A l, m \in S!Resolves : l = m
  /\ \A l \in Logins, a \in there : lpc[l] \in {"user", "identity"} => holder[a] # ldom[l]
  /\ \A a, b \in there : holder[a] = holder[b] /\ holder[a] # None => a = b

LoginInv ==
  /\ \A l \in Logins : CameOver(l) /\ HasAccount(l)
  /\ crossed \/ AccountsStand

SsoInv == S!TypeOK /\ DomainInv /\ ConnectionInv /\ LoginInv

LEMMA RowIs ==
  /\ S!NoRow \in S!Row /\ S!NoRow.status = "none" /\ S!NoRow.domain = None
  /\ \A r \in S!Row : r.domain \in S!MaybeDomain /\ r.kind \in {"oidc", "saml"} /\ r.status \in {"none", "inactive", "active"}
BY DEF S!Row, S!NoRow, S!MaybeDomain

LEMMA SsoInit == S!Init => SsoInv
<1> SUFFICES ASSUME S!Init PROVE SsoInv
  OBVIOUS
<1> USE SsoAssumption, RowIs DEF S!Init
<1>1. S!TypeOK
  BY DEF S!TypeOK, S!MaybeDomain
<1>2. DomainInv
  BY DEF DomainInv, ListStands, S!Lists, S!Rewrites, Verifying, S!Vouched
<1>3. ConnectionInv
  BY DEF ConnectionInv, MaybeVouched, S!Vouched
<1>4. LoginInv
  BY DEF LoginInv, CameOver, HasAccount, AccountsStand, S!Resolves, Resolved, MaybeVouched, S!Vouched, Made
<1> QED BY <1>1, <1>2, <1>3, <1>4 DEF SsoInv

-----------------------------------------------------------------------------
\* Domains that are vouched for stay so, and connections that are tested.
LEMMA VouchedGrows ==
  ASSUME SsoInv, proved \subseteq proved', entered \subseteq entered', tested \subseteq tested',
         crossed => crossed'
  PROVE  /\ UNCHANGED <<conn, S!patchVars>> => ConnectionInv'
         /\ UNCHANGED <<S!loginVars, S!accountVars>> => LoginInv'
         /\ UNCHANGED <<verified, S!verifyVars, S!updateVars, proved>> => DomainInv'
<1> USE DEF SsoInv, S!TypeOK
<1>1. UNCHANGED <<conn, S!patchVars>> => ConnectionInv'
  BY DEF ConnectionInv, S!patchVars, MaybeVouched, S!Vouched
<1>2. UNCHANGED <<S!loginVars, S!accountVars>> => LoginInv'
  BY DEF LoginInv, CameOver, HasAccount, AccountsStand, S!Resolves, S!loginVars, S!accountVars, MaybeVouched, S!Vouched, Made, Resolved
<1>3. UNCHANGED <<verified, S!verifyVars, S!updateVars, proved>> => DomainInv'
  BY DEF DomainInv, Verifying, ListStands, S!Lists, S!Rewrites, S!verifyVars, S!updateVars, S!Vouched
<1> QED BY <1>1, <1>2, <1>3

LEMMA DomainSteps ==
  ASSUME SsoInv, NEW v \in Verifications,
         S!ReadDomain(v) \/ S!LookUp(v) \/ S!WriteRecord(v) \/ S!WriteList(v) \/ S!Die(v)
  PROVE  SsoInv'
<1> USE DEF SsoInv
<1>1. /\ UNCHANGED <<conn, upc, ulist, entered, S!patchVars, S!loginVars, S!accountVars, tested>>
      /\ proved \subseteq proved' /\ (crossed => crossed')
  BY DEF S!ReadDomain, S!LookUp, S!WriteRecord, S!WriteList, S!Die, S!historyVars, S!recordVars, S!updateVars, S!TypeOK
<1>2. ConnectionInv' /\ LoginInv'
  BY <1>1, VouchedGrows
<1> USE DEF S!TypeOK, DomainInv, Verifying
<1>3. S!TypeOK'
  <2>1. /\ record' \in [Domains -> {"none", "pending", "verified"}] /\ verified' \subseteq Domains
        /\ vpc' \in [Verifications -> {"idle", "lookup", "verify", "list", "done"}]
        /\ vdom' \in [Verifications -> S!MaybeDomain] /\ vold' \in [Verifications -> SUBSET Domains]
        /\ proved' \subseteq Domains /\ leftOut' \subseteq Domains /\ crossed' \in BOOLEAN
    <3>1. CASE S!ReadDomain(v)
      BY <3>1 DEF S!ReadDomain, S!recordVars, S!updateVars, S!MaybeDomain
    <3>2. CASE S!LookUp(v)
      <4>1. /\ vpc' \in {[vpc EXCEPT ![v] = "verify"], [vpc EXCEPT ![v] = "done"]}
            /\ vdom' \in {vdom, [vdom EXCEPT ![v] = None]} /\ vold' \in {vold, [vold EXCEPT ![v] = {}]}
            /\ proved' \in {proved, proved \cup {vdom[v]}} /\ UNCHANGED <<record, verified, leftOut, crossed>>
            /\ vpc[v] = "lookup"
        BY <3>2 DEF S!LookUp, S!EndVerification, S!recordVars, S!updateVars
      <4>2. vdom[v] \in Domains
        BY <4>1
      <4>3. vdom' \in [Verifications -> S!MaybeDomain] /\ vold' \in [Verifications -> SUBSET Domains]
        BY <4>1 DEF S!MaybeDomain
      <4> QED BY <4>1, <4>2, <4>3
    <3>3. CASE S!WriteRecord(v)
      BY <3>3 DEF S!WriteRecord, S!historyVars, S!updateVars
    <3>4. CASE S!WriteList(v)
      BY <3>4 DEF S!WriteList, S!EndVerification, S!historyVars, S!Listed, S!MaybeDomain
    <3>5. CASE S!Die(v)
      BY <3>5 DEF S!Die, S!EndVerification, S!recordVars, S!updateVars, S!MaybeDomain
    <3> QED BY <3>1, <3>2, <3>3, <3>4, <3>5
  <2> QED BY <1>1, <2>1 DEF S!patchVars, S!loginVars, S!accountVars
<1>7. S!Vouched \subseteq S!Vouched' /\ proved \subseteq S!Vouched
  BY <1>1 DEF S!Vouched
<1>4. ASSUME NEW w \in Verifications PROVE Verifying(w)'
  BY <1>7 DEF S!ReadDomain, S!LookUp, S!WriteRecord, S!WriteList, S!Die, S!EndVerification, S!recordVars, S!historyVars, S!Listed
<1>5. verified' \subseteq S!Vouched' /\ \A u \in Updates : ulist'[u] \subseteq S!Vouched'
  BY <1>1, <1>7 DEF S!ReadDomain, S!LookUp, S!WriteRecord, S!WriteList, S!Die, S!recordVars, S!historyVars, S!Listed
<1>6. ASSUME ~crossed' PROVE ListStands'
  <2>1. ListStands /\ ~crossed
    BY <1>1, <1>6
  <2> USE <2>1 DEF ListStands, S!Lists, S!Rewrites
  <2>2. CASE S!ReadDomain(v)
    <3>1. S!Lists = {} /\ S!Rewrites = {}
      BY <1>6, <2>2 DEF S!ReadDomain
    <3> QED BY <2>2, <3>1 DEF S!ReadDomain, S!recordVars, S!updateVars
  <2>3. CASE S!LookUp(v)
    <3>1. CASE vpc' = [vpc EXCEPT ![v] = "verify"] /\ proved' = proved \cup {vdom[v]} /\ UNCHANGED <<vdom, vold>>
      BY <2>3, <3>1 DEF S!LookUp, S!recordVars, S!updateVars
    <3>2. CASE S!EndVerification(v) /\ UNCHANGED proved
      BY <2>3, <3>2 DEF S!LookUp, S!EndVerification, S!recordVars, S!updateVars
    <3> QED BY <2>3, <3>1, <3>2 DEF S!LookUp
  <2>4. CASE S!WriteRecord(v)
    BY <2>4 DEF S!WriteRecord, S!historyVars, S!updateVars
  <2>5. CASE S!WriteList(v)
    <3>1. verified' = verified \cup {vdom[v]} /\ leftOut' = leftOut \ {vdom[v]}
      BY <2>5 DEF S!WriteList, S!Listed
    <3>2. ASSUME NEW w \in Verifications, w # v PROVE vpc[w] \notin {"lookup", "verify", "list"}
      BY <2>5, <3>2 DEF S!WriteList
    <3> QED BY <2>5, <3>1, <3>2 DEF S!WriteList, S!EndVerification, S!historyVars
  <2>6. CASE S!Die(v)
    <3>1. vpc[v] = "lookup" /\ vpc' = [vpc EXCEPT ![v] = "done"]
      BY <1>6, <2>6 DEF S!Die, S!EndVerification
    <3>2. \A w \in Verifications \ {v} : vpc'[w] = vpc[w] /\ vdom'[w] = vdom[w] /\ vold'[w] = vold[w]
      BY <2>6 DEF S!Die, S!EndVerification
    <3>3. UNCHANGED <<verified, proved, leftOut>>
      BY <2>6 DEF S!Die, S!recordVars, S!updateVars
    <3> QED BY <1>1, <3>1, <3>2, <3>3
  <2> QED BY <2>2, <2>3, <2>4, <2>5, <2>6
<1> QED BY <1>2, <1>3, <1>4, <1>5, <1>6

\* Who updates the row, or enters domains, writes the list as it is unless it is given one.
LEMMA UpdateSteps ==
  ASSUME SsoInv, NEW u \in Updates,
         S!ReadOrganization(u) \/ S!WriteOrganization(u) \/ \E list \in SUBSET Domains : S!EnterDomains(u, list)
  PROVE  SsoInv'
<1> USE DEF SsoInv
<1>1. /\ UNCHANGED <<record, conn, S!verifyVars, S!patchVars, S!loginVars, S!accountVars, tested, proved>>
      /\ entered \subseteq entered' /\ (crossed => crossed') /\ crossed' \in BOOLEAN
  <2>1. CASE S!ReadOrganization(u)
    BY <2>1 DEF S!ReadOrganization, S!recordVars, S!TypeOK
  <2>2. CASE S!WriteOrganization(u)
    BY <2>2 DEF S!WriteOrganization, S!historyVars, S!TypeOK
  <2>3. CASE \E list \in SUBSET Domains : S!EnterDomains(u, list)
    BY <2>3 DEF S!EnterDomains, S!TypeOK
  <2> QED BY <2>1, <2>2, <2>3
<1>2. ConnectionInv' /\ LoginInv'
  BY <1>1, VouchedGrows
<1> USE DEF S!TypeOK, DomainInv
<1>3. S!TypeOK'
  <2>1. /\ verified' \subseteq Domains /\ upc' \in [Updates -> {"idle", "write", "done"}]
        /\ ulist' \in [Updates -> SUBSET Domains]
        /\ entered' \subseteq Domains /\ leftOut' \subseteq Domains
    BY DEF S!ReadOrganization, S!WriteOrganization, S!EnterDomains, S!recordVars
  <2> QED BY <1>1, <2>1 DEF S!verifyVars, S!patchVars, S!loginVars, S!accountVars
<1>4. \A w \in Verifications : Verifying(w)'
  BY <1>1 DEF Verifying, S!Vouched, S!verifyVars
<1>5. verified' \subseteq S!Vouched' /\ \A w \in Updates : ulist'[w] \subseteq S!Vouched'
  <2>1. S!Vouched \subseteq S!Vouched' /\ entered' \subseteq S!Vouched'
    BY <1>1 DEF S!Vouched
  <2>2. CASE S!ReadOrganization(u)
    BY <2>1, <2>2 DEF S!ReadOrganization, S!recordVars
  <2>3. CASE S!WriteOrganization(u)
    BY <2>1, <2>3 DEF S!WriteOrganization
  <2>4. CASE \E list \in SUBSET Domains : S!EnterDomains(u, list)
    BY <2>1, <2>4 DEF S!EnterDomains
  <2> QED BY <2>2, <2>3, <2>4
<1>6. ASSUME ~crossed' PROVE ListStands'
  <2>1. ListStands /\ ~crossed
    BY <1>1, <1>6
  <2> USE <1>1, <2>1 DEF ListStands, S!Lists, S!Rewrites, S!verifyVars
  <2>2. CASE S!ReadOrganization(u)
    <3>1. S!Lists = {} /\ S!Rewrites = {}
      BY <1>6, <2>2 DEF S!ReadOrganization
    <3> QED BY <2>2, <3>1 DEF S!ReadOrganization, S!recordVars
  <2>3. CASE S!WriteOrganization(u)
    <3>1. verified' = verified /\ leftOut' = leftOut
      BY <2>3 DEF S!WriteOrganization
    <3>2. \A w \in Updates : upc'[w] # "write"
      BY <2>3 DEF S!WriteOrganization
    <3> QED BY <2>3, <3>1, <3>2
  <2>4. ASSUME NEW list \in SUBSET Domains, S!EnterDomains(u, list) PROVE ListStands'
    <3>1. S!Lists = {} /\ S!Rewrites = {}
      BY <1>6, <2>4 DEF S!EnterDomains
    <3> QED BY <2>4, <3>1 DEF S!EnterDomains
  <2> QED BY <2>2, <2>3, <2>4
<1> QED BY <1>2, <1>3, <1>4, <1>5, <1>6

-----------------------------------------------------------------------------
LEMMA ConnectionSteps ==
  ASSUME SsoInv,
         \/ \E d \in Domains : S!Claim(d)
         \/ \E c \in SsoConnectionIds : S!Create(c)
         \/ \E p \in Patches : S!ReadConnection(p) \/ S!WriteConnection(p)
  PROVE  SsoInv'
<1> USE SsoAssumption, RowIs DEF SsoInv
<1>1. UNCHANGED <<verified, S!verifyVars, S!updateVars, S!loginVars, S!accountVars, S!historyVars>>
  BY DEF S!Claim, S!Create, S!ReadConnection, S!WriteConnection, S!recordVars
<1>2. DomainInv' /\ LoginInv'
  BY <1>1, VouchedGrows DEF S!historyVars, S!updateVars
<1> USE DEF S!TypeOK
<1>3. CASE \E d \in Domains : S!Claim(d)
  <2>1. record' \in [Domains -> {"none", "pending", "verified"}] /\ UNCHANGED <<conn, S!patchVars>>
    BY <1>3 DEF S!Claim
  <2>2. ConnectionInv'
    BY <1>1, <2>1, VouchedGrows DEF S!historyVars, S!updateVars
  <2> QED BY <1>1, <1>2, <2>1, <2>2 DEF S!verifyVars, S!updateVars, S!patchVars, S!loginVars, S!accountVars, S!historyVars
<1>4. ASSUME NEW c \in SsoConnectionIds, S!Create(c) PROVE SsoInv'
  <2>1. PICK k \in {"oidc", "saml"}, d \in S!MaybeDomain :
          /\ S!Attachable(d)
          /\ conn' = [conn EXCEPT ![c] = [kind |-> k, status |-> "inactive", domain |-> d]]
    BY <1>4 DEF S!Create
  <2>2. [kind |-> k, status |-> "inactive", domain |-> d] \in S!Row /\ d \in MaybeVouched
    BY <2>1 DEF S!Row, S!Attachable, MaybeVouched, S!Vouched, DomainInv
  <2>3. conn' \in [SsoConnectionIds -> S!Row] /\ UNCHANGED <<record, S!patchVars>>
    BY <1>4, <2>1, <2>2 DEF S!Create
  <2>4. ConnectionInv'
    BY <1>1, <2>1, <2>2, <2>3 DEF ConnectionInv, S!patchVars, S!historyVars, S!updateVars, MaybeVouched, S!Vouched
  <2> QED BY <1>1, <1>2, <2>3, <2>4 DEF S!verifyVars, S!updateVars, S!patchVars, S!loginVars, S!accountVars, S!historyVars
<1>5. ASSUME NEW p \in Patches, S!ReadConnection(p) PROVE SsoInv'
  <2>1. PICK c \in SsoConnectionIds, s \in {"inactive", None}, d \in S!MaybeDomain :
          /\ conn[c].status # "none" /\ S!Attachable(d)
          /\ pconn' = [pconn EXCEPT ![p] = c]
          /\ pold' = [pold EXCEPT ![p] = conn[c]]
          /\ pask' = [pask EXCEPT ![p] = [status |-> s, domain |-> d]]
    BY <1>5 DEF S!ReadConnection
  <2>2. d \in MaybeVouched
    BY <2>1 DEF S!Attachable, MaybeVouched, S!Vouched, DomainInv
  <2>3. /\ [status |-> s, domain |-> d] \in [status : {"inactive", None}, domain : S!MaybeDomain]
        /\ [status |-> s, domain |-> d].domain = d
    OBVIOUS
  <2>4. /\ pask' \in [Patches -> [status : {"inactive", None}, domain : S!MaybeDomain]]
        /\ pold' \in [Patches -> S!Row] /\ pconn' \in [Patches -> SsoConnectionIds \cup {None}]
        /\ ppc' \in [Patches -> {"idle", "write", "done"}]
        /\ UNCHANGED <<record, conn>>
    BY <1>5, <2>1, <2>3 DEF S!ReadConnection, S!recordVars
  <2>5. ConnectionInv'
    BY <1>1, <1>5, <2>1, <2>2, <2>3, <2>4 DEF S!ReadConnection, ConnectionInv, S!historyVars, S!updateVars, MaybeVouched, S!Vouched
  <2> QED BY <1>1, <1>2, <2>4, <2>5 DEF S!verifyVars, S!updateVars, S!loginVars, S!accountVars, S!historyVars
<1>6. ASSUME NEW p \in Patches, S!WriteConnection(p) PROVE SsoInv'
  <2> DEFINE c == pconn[p]
             st == S!Or(pask[p].status, pold[p].status)
             dm == S!Or(pask[p].domain, pold[p].domain)
             r == [conn[c] EXCEPT !.status = st, !.domain = dm]
  <2>1. c \in SsoConnectionIds /\ pask[p].status \in {"inactive", None} /\ pask[p].domain \in S!MaybeDomain
    BY <1>6 DEF S!WriteConnection, ConnectionInv
  <2>2. /\ st \in {"none", "inactive", "active"} /\ (st = "active" => c \in tested)
        /\ dm \in S!MaybeDomain /\ dm \in MaybeVouched
    <3>1. /\ pold[p] \in S!Row /\ pold[p].domain \in MaybeVouched /\ pask[p].domain \in MaybeVouched
          /\ pold[p].status = "active" => c \in tested
      BY DEF ConnectionInv
    <3>2. pold[p].domain \in S!MaybeDomain /\ pold[p].status \in {"none", "inactive", "active"}
      BY <3>1
    <3> QED BY <2>1, <3>1, <3>2 DEF S!Or
  <2>3. conn[c] \in S!Row
    BY <2>1
  <2>4. r \in S!Row /\ r.status = st /\ r.domain = dm
    BY <2>2, <2>3 DEF S!Row
  <2>5. conn' = [conn EXCEPT ![c] = r]
    <3> HIDE DEF SsoInv, S!TypeOK
    <3> QED BY <1>6 DEF S!WriteConnection
  <2> HIDE DEF r, st, dm
  <2>6. conn' \in [SsoConnectionIds -> S!Row]
    BY <2>4, <2>5
  <2>7. [status |-> None, domain |-> None] \in [status : {"inactive", None}, domain : S!MaybeDomain]
    BY DEF S!MaybeDomain
  <2>8. /\ pask' = [pask EXCEPT ![p] = [status |-> None, domain |-> None]]
        /\ pold' = [pold EXCEPT ![p] = S!NoRow] /\ pconn' = [pconn EXCEPT ![p] = None]
        /\ ppc' = [ppc EXCEPT ![p] = "done"] /\ UNCHANGED record
    BY <1>6 DEF S!WriteConnection
  <2>9. /\ pask' \in [Patches -> [status : {"inactive", None}, domain : S!MaybeDomain]]
        /\ pold' \in [Patches -> S!Row] /\ pconn' \in [Patches -> SsoConnectionIds \cup {None}]
        /\ ppc' \in [Patches -> {"idle", "write", "done"}]
    BY <2>7, <2>8
  <2>10. ASSUME NEW q \in Patches
         PROVE  /\ ppc'[q] = "write" => pconn'[q] \in SsoConnectionIds
                /\ pold'[q].domain \in MaybeVouched /\ pask'[q].domain \in MaybeVouched
                /\ pold'[q].status = "active" => pconn'[q] \in tested
    BY <2>8 DEF ConnectionInv, MaybeVouched, S!Vouched
  <2>11. ConnectionInv'
    BY <1>1, <2>1, <2>2, <2>4, <2>5, <2>6, <2>10 DEF ConnectionInv, S!historyVars, S!updateVars, MaybeVouched, S!Vouched
  <2> QED BY <1>1, <1>2, <2>6, <2>8, <2>9, <2>11 DEF S!verifyVars, S!updateVars, S!loginVars, S!accountVars, S!historyVars
<1> QED BY <1>3, <1>4, <1>5, <1>6

-----------------------------------------------------------------------------
\* The steps of a sign-in.
SignInStep(l) ==
  \/ S!Start(l) \/ S!Arrive(l) \/ S!Return(l) \/ S!VerifyOidcIdToken(l) \/ S!ValidateSamlResponse(l) \/ S!Decide(l)
  \/ S!FindAccount(l) \/ S!InsertUser(l) \/ S!InsertIdentity(l) \/ S!Join(l) \/ S!Undo(l) \/ S!InsertSession(l)

\* What the end of a sign-in clears, and what it leaves alone.
LEMMA LoginEnds ==
  ASSUME S!TypeOK, NEW l \in Logins, S!EndLogin(l)
  PROVE  /\ lpc'[l] = "done" /\ lconn'[l] = None /\ lmode'[l] = None /\ lrow'[l] = S!NoRow
         /\ ldom'[l] = None /\ account'[l] = None
         /\ \A m \in Logins \ {l} :
              /\ lpc'[m] = lpc[m] /\ lconn'[m] = lconn[m] /\ lmode'[m] = lmode[m] /\ lrow'[m] = lrow[m]
              /\ ldom'[m] = ldom[m] /\ account'[m] = account[m]
<1>1. lpc'[l] = "done" /\ \A m \in Logins \ {l} : lpc'[m] = lpc[m]
  BY DEF S!TypeOK, S!EndLogin
<1>2. lconn'[l] = None /\ \A m \in Logins \ {l} : lconn'[m] = lconn[m]
  BY DEF S!TypeOK, S!EndLogin
<1>3. lmode'[l] = None /\ \A m \in Logins \ {l} : lmode'[m] = lmode[m]
  BY DEF S!TypeOK, S!EndLogin
<1>4. lrow'[l] = S!NoRow /\ \A m \in Logins \ {l} : lrow'[m] = lrow[m]
  BY DEF S!TypeOK, S!EndLogin
<1>5. ldom'[l] = None /\ \A m \in Logins \ {l} : ldom'[m] = ldom[m]
  BY DEF S!TypeOK, S!EndLogin
<1>6. account'[l] = None /\ \A m \in Logins \ {l} : account'[m] = account[m]
  BY DEF S!TypeOK, S!EndLogin
<1> QED BY <1>1, <1>2, <1>3, <1>4, <1>5, <1>6

\* A sign-in that comes back ends, or goes on as a test or to look for an account.
LEMMA Decides ==
  ASSUME NEW l \in Logins, S!Decide(l)
  PROVE  /\ lpc[l] = "back"
         /\ UNCHANGED <<S!recordVars, S!verifyVars, S!updateVars, S!patchVars, there, holder, session, tested, proved>>
         /\ \/ S!EndLogin(l) /\ UNCHANGED crossed
            \/ /\ \/ lpc' = [lpc EXCEPT ![l] = "test"] /\ crossed' = (crossed \/ FALSE)
                  \/ lpc' = [lpc EXCEPT ![l] = "find"] /\ crossed' = (crossed \/ S!Resolves # {})
               /\ lmode' = [lmode EXCEPT ![l] = None]
               /\ UNCHANGED <<lconn, lrow, ldom, account>>
<1> DEFINE test == lmode[l] = "test" \/ (lmode[l] = None /\ lrow[l].status # "active")
           left == UNCHANGED <<S!recordVars, S!verifyVars, S!updateVars, S!patchVars, there, holder, session, tested, proved>>
<1>1. /\ lpc[l] = "back" /\ left
      /\ \/ S!EndLogin(l) /\ UNCHANGED crossed
         \/ /\ lpc' = [lpc EXCEPT ![l] = IF test THEN "test" ELSE "find"]
            /\ crossed' = (crossed \/ (~test /\ S!Resolves # {}))
            /\ lmode' = [lmode EXCEPT ![l] = None]
            /\ UNCHANGED <<lconn, lrow, ldom, account>>
  BY DEF S!Decide
<1> HIDE DEF test, left
<1>2. CASE test
  BY <1>1, <1>2 DEF left
<1>3. CASE ~test
  BY <1>1, <1>3 DEF left
<1> QED BY <1>2, <1>3

\* A sign-in touches what is its own, and accounts.
LEMMA SignInFrame ==
  ASSUME SsoInv, NEW l \in Logins, SignInStep(l)
  PROVE  /\ UNCHANGED <<S!recordVars, S!verifyVars, S!updateVars, S!patchVars, tested, proved>>
         /\ (crossed => crossed') /\ crossed' \in BOOLEAN
         /\ \A m \in Logins \ {l} :
              /\ lpc'[m] = lpc[m] /\ lconn'[m] = lconn[m] /\ lmode'[m] = lmode[m] /\ lrow'[m] = lrow[m]
              /\ ldom'[m] = ldom[m] /\ account'[m] = account[m] /\ holder'[m] = holder[m]
              /\ m \in session' => m \in session
<1> USE DEF SsoInv, S!TypeOK
<1>1. CASE S!Start(l) \/ S!Arrive(l) \/ S!Return(l) \/ S!FindAccount(l) \/ S!InsertUser(l) \/ S!InsertIdentity(l)
  BY <1>1 DEF S!Start, S!Arrive, S!Return, S!FindAccount, S!InsertUser, S!InsertIdentity, S!historyVars, S!accountVars
<1>2. CASE S!VerifyOidcIdToken(l) \/ S!ValidateSamlResponse(l)
  BY <1>2 DEF S!VerifyOidcIdToken, S!ValidateSamlResponse, S!Believe, S!EndLogin, S!historyVars
<1>3. CASE S!Decide(l)
  <2>1. CASE S!EndLogin(l) /\ UNCHANGED crossed
    BY <1>3, <2>1, Decides, LoginEnds
  <2>2. CASE UNCHANGED <<lconn, lrow, ldom, account>>
    <3>1. \A m \in Logins \ {l} : lpc'[m] = lpc[m] /\ lmode'[m] = lmode[m]
      BY <1>3, Decides, LoginEnds
    <3>2. (crossed => crossed') /\ crossed' \in BOOLEAN
      BY <1>3, Decides
    <3> QED BY <1>3, <2>2, <3>1, <3>2, Decides
  <2> QED BY <1>3, <2>1, <2>2, Decides
<1>4. CASE S!Join(l)
  BY <1>4 DEF S!Join, S!ContinueLogin, S!EndLogin, S!historyVars
<1>5. CASE S!Undo(l) \/ S!InsertSession(l)
  BY <1>5 DEF S!Undo, S!InsertSession, S!ContinueLogin, S!EndLogin, S!historyVars, S!Removed
<1> QED BY <1>1, <1>2, <1>3, <1>4, <1>5 DEF SignInStep

LEMMA SignInOwnType ==
  ASSUME SsoInv, NEW l \in Logins, SignInStep(l)
  PROVE  /\ lpc' \in [Logins -> {"idle", "away", "answer", "back", "test", "find", "user", "identity", "member",
                                 "undo", "session", "done"}]
         /\ lconn' \in [Logins -> SsoConnectionIds \cup {None}] /\ lmode' \in [Logins -> {"login", "test", None}]
         /\ lrow' \in [Logins -> S!Row] /\ ldom' \in [Logins -> S!MaybeDomain]
         /\ account' \in [Logins -> Logins \cup {None}]
         /\ there' \subseteq Logins /\ session' \subseteq Logins
         /\ holder' \in [Logins -> S!MaybeDomain]
<1>8. S!NoRow \in S!Row /\ (lpc[l] = "away" => lconn[l] \in SsoConnectionIds)
  BY RowIs DEF SsoInv, LoginInv, CameOver
<1> USE <1>8 DEF SsoInv, S!TypeOK, S!MaybeDomain
<1>9. CASE S!Start(l)
  <2>1. lpc' \in [Logins -> {"idle", "away", "answer", "back", "test", "find", "user", "identity", "member", "undo", "session", "done"}]
    BY <1>9 DEF S!Start, S!accountVars
  <2>2. lconn' \in [Logins -> SsoConnectionIds \cup {None}] /\ lmode' \in [Logins -> {"login", "test", None}]
    BY <1>9 DEF S!Start, S!accountVars
  <2>3. lrow' \in [Logins -> S!Row] /\ ldom' \in [Logins -> S!MaybeDomain]
    BY <1>9 DEF S!Start, S!accountVars
  <2>4. account' \in [Logins -> Logins \cup {None}] /\ there' \subseteq Logins /\ session' \subseteq Logins /\ holder' \in [Logins -> S!MaybeDomain]
    BY <1>9 DEF S!Start, S!accountVars
  <2> QED BY <2>1, <2>2, <2>3, <2>4
<1>10. CASE S!Arrive(l)
  <2>1. lpc' \in [Logins -> {"idle", "away", "answer", "back", "test", "find", "user", "identity", "member", "undo", "session", "done"}]
    BY <1>10 DEF S!Arrive, S!accountVars
  <2>2. lconn' \in [Logins -> SsoConnectionIds \cup {None}] /\ lmode' \in [Logins -> {"login", "test", None}]
    BY <1>10 DEF S!Arrive, S!accountVars
  <2>3. lrow' \in [Logins -> S!Row] /\ ldom' \in [Logins -> S!MaybeDomain]
    BY <1>10 DEF S!Arrive, S!accountVars
  <2>4. account' \in [Logins -> Logins \cup {None}] /\ there' \subseteq Logins /\ session' \subseteq Logins /\ holder' \in [Logins -> S!MaybeDomain]
    BY <1>10 DEF S!Arrive, S!accountVars
  <2> QED BY <2>1, <2>2, <2>3, <2>4
<1>11. CASE S!Return(l)
  <2>1. lpc' \in [Logins -> {"idle", "away", "answer", "back", "test", "find", "user", "identity", "member", "undo", "session", "done"}]
    BY <1>11 DEF S!Return, S!accountVars
  <2>2. lconn' \in [Logins -> SsoConnectionIds \cup {None}] /\ lmode' \in [Logins -> {"login", "test", None}]
    BY <1>11 DEF S!Return, S!accountVars
  <2>3. lrow' \in [Logins -> S!Row] /\ ldom' \in [Logins -> S!MaybeDomain]
    BY <1>11 DEF S!Return, S!accountVars
  <2>4. account' \in [Logins -> Logins \cup {None}] /\ there' \subseteq Logins /\ session' \subseteq Logins /\ holder' \in [Logins -> S!MaybeDomain]
    BY <1>11 DEF S!Return, S!accountVars
  <2> QED BY <2>1, <2>2, <2>3, <2>4
<1>12. CASE S!VerifyOidcIdToken(l)
  <2>1. lpc' \in [Logins -> {"idle", "away", "answer", "back", "test", "find", "user", "identity", "member", "undo", "session", "done"}]
    BY <1>12 DEF S!VerifyOidcIdToken, S!Believe, S!EndLogin
  <2>2. lconn' \in [Logins -> SsoConnectionIds \cup {None}] /\ lmode' \in [Logins -> {"login", "test", None}]
    BY <1>12 DEF S!VerifyOidcIdToken, S!Believe, S!EndLogin
  <2>3. lrow' \in [Logins -> S!Row] /\ ldom' \in [Logins -> S!MaybeDomain]
    <3>1. lrow' \in {lrow, [lrow EXCEPT ![l] = S!NoRow]} /\ \E d \in S!MaybeDomain : ldom' = [ldom EXCEPT ![l] = d]
      BY <1>12 DEF S!VerifyOidcIdToken, S!Believe, S!EndLogin
    <3> QED BY <3>1
  <2>4. account' \in [Logins -> Logins \cup {None}] /\ there' \subseteq Logins /\ session' \subseteq Logins /\ holder' \in [Logins -> S!MaybeDomain]
    BY <1>12 DEF S!VerifyOidcIdToken, S!Believe, S!EndLogin
  <2> QED BY <2>1, <2>2, <2>3, <2>4
<1>13. CASE S!ValidateSamlResponse(l)
  <2>1. lpc' \in [Logins -> {"idle", "away", "answer", "back", "test", "find", "user", "identity", "member", "undo", "session", "done"}]
    BY <1>13 DEF S!ValidateSamlResponse, S!Believe, S!EndLogin
  <2>2. lconn' \in [Logins -> SsoConnectionIds \cup {None}] /\ lmode' \in [Logins -> {"login", "test", None}]
    BY <1>13 DEF S!ValidateSamlResponse, S!Believe, S!EndLogin
  <2>3. lrow' \in [Logins -> S!Row] /\ ldom' \in [Logins -> S!MaybeDomain]
    <3>1. lrow' \in {lrow, [lrow EXCEPT ![l] = S!NoRow]} /\ \E d \in S!MaybeDomain : ldom' = [ldom EXCEPT ![l] = d]
      BY <1>13 DEF S!ValidateSamlResponse, S!Believe, S!EndLogin
    <3> QED BY <3>1
  <2>4. account' \in [Logins -> Logins \cup {None}] /\ there' \subseteq Logins /\ session' \subseteq Logins /\ holder' \in [Logins -> S!MaybeDomain]
    BY <1>13 DEF S!ValidateSamlResponse, S!Believe, S!EndLogin
  <2> QED BY <2>1, <2>2, <2>3, <2>4
<1>14. CASE S!Decide(l)
  <2>1. lpc' \in [Logins -> {"idle", "away", "answer", "back", "test", "find", "user", "identity", "member", "undo", "session", "done"}]
    <3>1. lpc' \in {[lpc EXCEPT ![l] = "done"], [lpc EXCEPT ![l] = "test"], [lpc EXCEPT ![l] = "find"]}
      <4> HIDE DEF SsoInv, S!TypeOK, S!MaybeDomain
      <4> QED BY <1>14, Decides DEF S!EndLogin
    <3> QED BY <3>1
  <2>2. lconn' \in [Logins -> SsoConnectionIds \cup {None}] /\ lmode' \in [Logins -> {"login", "test", None}]
    <3>1. lconn' \in {lconn, [lconn EXCEPT ![l] = None]} /\ lmode' = [lmode EXCEPT ![l] = None]
      <4> HIDE DEF SsoInv, S!TypeOK, S!MaybeDomain
      <4> QED BY <1>14, Decides DEF S!EndLogin
    <3> QED BY <3>1
  <2>3. lrow' \in [Logins -> S!Row] /\ ldom' \in [Logins -> S!MaybeDomain]
    <3>1. lrow' \in {lrow, [lrow EXCEPT ![l] = S!NoRow]} /\ \E d \in S!MaybeDomain : ldom' \in {ldom, [ldom EXCEPT ![l] = d]}
      <4>1. S!EndLogin(l) \/ UNCHANGED <<lrow, ldom>>
        BY <1>14, Decides
      <4> QED BY <4>1 DEF S!EndLogin
    <3>2. S!NoRow \in S!Row /\ lrow \in [Logins -> S!Row] /\ ldom \in [Logins -> S!MaybeDomain]
      BY <1>8
    <3> HIDE DEF SsoInv, S!TypeOK, S!MaybeDomain
    <3>3. lrow' \in [Logins -> S!Row]
      BY <3>1, <3>2
    <3>4. ldom' \in [Logins -> S!MaybeDomain]
      BY <3>1, <3>2
    <3> QED BY <3>3, <3>4
  <2>4. account' \in [Logins -> Logins \cup {None}] /\ there' \subseteq Logins /\ session' \subseteq Logins /\ holder' \in [Logins -> S!MaybeDomain]
    BY <1>14, Decides DEF S!EndLogin
  <2> QED BY <2>1, <2>2, <2>3, <2>4
<1>15. CASE S!FindAccount(l)
  <2>1. lpc' \in [Logins -> {"idle", "away", "answer", "back", "test", "find", "user", "identity", "member", "undo", "session", "done"}]
    BY <1>15 DEF S!FindAccount
  <2>2. lconn' \in [Logins -> SsoConnectionIds \cup {None}] /\ lmode' \in [Logins -> {"login", "test", None}]
    BY <1>15 DEF S!FindAccount
  <2>3. lrow' \in [Logins -> S!Row] /\ ldom' \in [Logins -> S!MaybeDomain]
    BY <1>15 DEF S!FindAccount
  <2>4. account' \in [Logins -> Logins \cup {None}] /\ there' \subseteq Logins /\ session' \subseteq Logins /\ holder' \in [Logins -> S!MaybeDomain]
    BY <1>15 DEF S!FindAccount
  <2> QED BY <2>1, <2>2, <2>3, <2>4
<1>16. CASE S!InsertUser(l)
  <2>1. lpc' \in [Logins -> {"idle", "away", "answer", "back", "test", "find", "user", "identity", "member", "undo", "session", "done"}]
    BY <1>16 DEF S!InsertUser
  <2>2. lconn' \in [Logins -> SsoConnectionIds \cup {None}] /\ lmode' \in [Logins -> {"login", "test", None}]
    BY <1>16 DEF S!InsertUser
  <2>3. lrow' \in [Logins -> S!Row] /\ ldom' \in [Logins -> S!MaybeDomain]
    BY <1>16 DEF S!InsertUser
  <2>4. account' \in [Logins -> Logins \cup {None}] /\ there' \subseteq Logins /\ session' \subseteq Logins /\ holder' \in [Logins -> S!MaybeDomain]
    BY <1>16 DEF S!InsertUser
  <2> QED BY <2>1, <2>2, <2>3, <2>4
<1>17. CASE S!InsertIdentity(l)
  <2>1. lpc' \in [Logins -> {"idle", "away", "answer", "back", "test", "find", "user", "identity", "member", "undo", "session", "done"}]
    BY <1>17 DEF S!InsertIdentity
  <2>2. lconn' \in [Logins -> SsoConnectionIds \cup {None}] /\ lmode' \in [Logins -> {"login", "test", None}]
    BY <1>17 DEF S!InsertIdentity
  <2>3. lrow' \in [Logins -> S!Row] /\ ldom' \in [Logins -> S!MaybeDomain]
    BY <1>17 DEF S!InsertIdentity
  <2>4. account' \in [Logins -> Logins \cup {None}] /\ there' \subseteq Logins /\ session' \subseteq Logins /\ holder' \in [Logins -> S!MaybeDomain]
    BY <1>17 DEF S!InsertIdentity
  <2> QED BY <2>1, <2>2, <2>3, <2>4
<1>18. CASE S!Join(l)
  <2>1. lpc' \in [Logins -> {"idle", "away", "answer", "back", "test", "find", "user", "identity", "member", "undo", "session", "done"}]
    BY <1>18 DEF S!Join, S!ContinueLogin, S!EndLogin
  <2>2. lconn' \in [Logins -> SsoConnectionIds \cup {None}] /\ lmode' \in [Logins -> {"login", "test", None}]
    BY <1>18 DEF S!Join, S!ContinueLogin, S!EndLogin
  <2>3. lrow' \in [Logins -> S!Row] /\ ldom' \in [Logins -> S!MaybeDomain]
    <3>1. lrow' \in {lrow, [lrow EXCEPT ![l] = S!NoRow]} /\ ldom' \in {ldom, [ldom EXCEPT ![l] = None]}
      <4> HIDE DEF SsoInv, S!TypeOK, S!MaybeDomain
      <4> QED BY <1>18 DEF S!Join, S!ContinueLogin, S!EndLogin
    <3> QED BY <3>1
  <2>4. account' \in [Logins -> Logins \cup {None}] /\ there' \subseteq Logins /\ session' \subseteq Logins /\ holder' \in [Logins -> S!MaybeDomain]
    BY <1>18 DEF S!Join, S!ContinueLogin, S!EndLogin
  <2> QED BY <2>1, <2>2, <2>3, <2>4
<1>19. CASE S!Undo(l)
  <2>1. lpc' \in [Logins -> {"idle", "away", "answer", "back", "test", "find", "user", "identity", "member", "undo", "session", "done"}]
    BY <1>19 DEF S!Undo, S!EndLogin, S!Removed
  <2>2. lconn' \in [Logins -> SsoConnectionIds \cup {None}] /\ lmode' \in [Logins -> {"login", "test", None}]
    BY <1>19 DEF S!Undo, S!EndLogin, S!Removed
  <2>3. lrow' \in [Logins -> S!Row] /\ ldom' \in [Logins -> S!MaybeDomain]
    BY <1>19 DEF S!Undo, S!EndLogin, S!Removed
  <2>4. account' \in [Logins -> Logins \cup {None}] /\ there' \subseteq Logins /\ session' \subseteq Logins /\ holder' \in [Logins -> S!MaybeDomain]
    BY <1>19 DEF S!Undo, S!EndLogin, S!Removed
  <2> QED BY <2>1, <2>2, <2>3, <2>4
<1>20. CASE S!InsertSession(l)
  <2>1. lpc' \in [Logins -> {"idle", "away", "answer", "back", "test", "find", "user", "identity", "member", "undo", "session", "done"}]
    BY <1>20 DEF S!InsertSession, S!ContinueLogin, S!EndLogin
  <2>2. lconn' \in [Logins -> SsoConnectionIds \cup {None}] /\ lmode' \in [Logins -> {"login", "test", None}]
    <3>1. lconn' \in {lconn, [lconn EXCEPT ![l] = None]} /\ lmode' \in {lmode, [lmode EXCEPT ![l] = None]}
      <4> HIDE DEF SsoInv, S!TypeOK, S!MaybeDomain
      <4> QED BY <1>20 DEF S!InsertSession, S!ContinueLogin, S!EndLogin
    <3> QED BY <3>1
  <2>3. lrow' \in [Logins -> S!Row] /\ ldom' \in [Logins -> S!MaybeDomain]
    <3>1. CASE S!EndLogin(l)
      BY <3>1 DEF S!EndLogin
    <3>2. CASE UNCHANGED <<lrow, ldom>>
      BY <3>2
    <3> QED BY <1>20, <3>1, <3>2 DEF S!InsertSession, S!ContinueLogin
  <2>4. account' \in [Logins -> Logins \cup {None}] /\ there' \subseteq Logins /\ session' \subseteq Logins /\ holder' \in [Logins -> S!MaybeDomain]
    BY <1>20 DEF S!InsertSession, S!ContinueLogin, S!EndLogin
  <2> QED BY <2>1, <2>2, <2>3, <2>4
<1> QED BY <1>9, <1>10, <1>11, <1>12, <1>13, <1>14, <1>15, <1>16, <1>17, <1>18, <1>19, <1>20 DEF SignInStep

\* What it came over stays what it was.
LEMMA SignInCame ==
  ASSUME SsoInv, NEW l \in Logins, SignInStep(l)
  PROVE  \A m \in Logins : CameOver(m)'
<1> USE SsoAssumption, RowIs DEF SsoInv, S!TypeOK, LoginInv
<1>1. UNCHANGED <<S!recordVars, S!verifyVars, S!updateVars, S!patchVars, tested, S!Vouched>>
  BY SignInFrame DEF S!updateVars, S!Vouched
<1>2. ASSUME NEW m \in Logins \ {l} PROVE CameOver(m)'
  BY <1>1, SignInFrame DEF CameOver, MaybeVouched
<1>3. l \in session => lpc[l] = "done"
  BY DEF HasAccount
<1> USE <1>1 DEF CameOver, MaybeVouched, Resolved
<1>4. CASE S!Start(l) \/ S!Arrive(l)
  <2>1. /\ lpc[l] = "idle" /\ lpc'[l] = "away" /\ UNCHANGED <<lrow, ldom, S!accountVars>>
        /\ lconn'[l] \in SsoConnectionIds
        /\ lrow[l].status = "active" => lconn'[l] \in tested
    BY <1>4 DEF S!Start, S!Arrive
  <2>2. lmode'[l] = "login" => lconn'[l] \in tested
    BY <1>4 DEF S!Start, S!Arrive, S!Startable, ConnectionInv
  <2>3. CameOver(l)'
    <3>1. lrow[l].status # "active" /\ lrow[l].domain \in MaybeVouched
      BY <2>1
    <3> QED BY <1>3, <2>1, <2>2, <3>1, SignInOwnType DEF S!accountVars
  <2> QED BY <1>2, <2>3
<1>5. CASE S!Return(l)
  BY <1>3, <1>5 DEF S!Return, ConnectionInv, S!accountVars, MaybeVouched
<1>6. CASE S!VerifyOidcIdToken(l) \/ S!ValidateSamlResponse(l)
  <2>1. lpc[l] = "answer" /\ UNCHANGED <<there, holder, session>> /\ S!Believe(l)
    BY <1>6 DEF S!VerifyOidcIdToken, S!ValidateSamlResponse, S!Believe
  <2>2. CASE S!EndLogin(l)
    BY <1>3, <2>1, <2>2, LoginEnds DEF SsoInv
  <2>3. CASE \E d \in Domains : ldom' = [ldom EXCEPT ![l] = d] /\ lpc' = [lpc EXCEPT ![l] = "back"]
                                 /\ UNCHANGED <<lconn, lmode, lrow, account>>
    BY <1>3, <2>1, <2>3
  <2> QED BY <2>1, <2>2, <2>3 DEF S!Believe
<1>7. CASE S!Decide(l)
  <2>1. lpc[l] = "back" /\ UNCHANGED <<there, holder, session>>
    BY <1>7 DEF S!Decide
  <2>2. CASE S!EndLogin(l)
    BY <1>3, <2>1, <2>2 DEF S!EndLogin
  <2>3. CASE /\ lrow[l].domain # None => ldom[l] = lrow[l].domain
             /\ lpc' = [lpc EXCEPT ![l] = IF lmode[l] = "test" \/ (lmode[l] = None /\ lrow[l].status # "active")
                                          THEN "test" ELSE "find"]
             /\ lmode' = [lmode EXCEPT ![l] = None]
             /\ UNCHANGED <<lconn, lrow, ldom, account>>
    <3>1. lpc'[l] = "find" => lmode[l] = "login" \/ lrow[l].status = "active"
      BY <2>3
    <3> QED BY <1>3, <2>1, <2>3, <3>1
  <2> QED BY <1>7, <2>2, <2>3 DEF S!Decide
<1>8. CASE S!FindAccount(l) \/ S!InsertUser(l) \/ S!InsertIdentity(l)
  BY <1>3, <1>8 DEF S!FindAccount, S!InsertUser, S!InsertIdentity
<1>9. CASE S!Join(l)
  BY <1>3, <1>9 DEF S!Join, S!ContinueLogin, S!EndLogin
<1>10. CASE S!Undo(l)
  BY <1>3, <1>10 DEF S!Undo, S!EndLogin, S!Removed
<1>11. CASE S!InsertSession(l)
  BY <1>3, <1>11 DEF S!InsertSession, S!ContinueLogin, S!EndLogin
<1> QED BY <1>2, <1>4, <1>5, <1>6, <1>7, <1>8, <1>9, <1>10, <1>11 DEF SignInStep

\* Whose account a sign-in uses has made it, or is the sign-in itself.
LEMMA SignInAccounts ==
  ASSUME SsoInv, NEW l \in Logins, SignInStep(l)
  PROVE  \A m \in Logins : HasAccount(m)'
<1> USE SsoAssumption DEF SsoInv, S!TypeOK, LoginInv
<1>1. /\ \A m \in Logins \ {l} : lpc'[m] = lpc[m] /\ ldom'[m] = ldom[m] /\ account'[m] = account[m] /\ holder'[m] = holder[m]
      /\ \A m \in Logins \ {l} : m \in session' => m \in session
  BY SignInFrame
<1>2. CASE S!Start(l) \/ S!Arrive(l) \/ S!Return(l) \/ S!VerifyOidcIdToken(l) \/ S!ValidateSamlResponse(l) \/ S!Decide(l)
  <2>1. /\ lpc[l] \in {"idle", "away", "answer", "back"}
        /\ UNCHANGED <<there, holder, session>>
    BY <1>2 DEF S!Start, S!Arrive, S!Return, S!VerifyOidcIdToken, S!ValidateSamlResponse, S!Decide, S!Believe, S!accountVars
  <2>2. account'[l] \in {account[l], None} /\ lpc'[l] \in {"away", "answer", "back", "test", "find", "done"}
    BY <1>2 DEF S!Start, S!Arrive, S!Return, S!VerifyOidcIdToken, S!ValidateSamlResponse, S!Decide, S!Believe, S!EndLogin, S!accountVars
  <2>3. l \notin session /\ holder[l] = None /\ \A m \in Logins : account[m] # l
    <3>1. lpc[l] \in {"idle", "away", "answer", "back"} /\ \A m \in Logins : HasAccount(m)
      BY <2>1
    <3> HIDE DEF SsoInv, S!TypeOK, LoginInv
    <3> QED BY <3>1 DEF HasAccount, Made
  <2>4. HasAccount(l)'
    BY <1>1, <2>1, <2>2, <2>3 DEF HasAccount, Made
  <2>5. ASSUME NEW m \in Logins \ {l} PROVE HasAccount(m)'
    BY <1>1, <2>1, <2>3 DEF HasAccount
  <2> QED BY <2>4, <2>5
<1>3. CASE S!FindAccount(l)
  <2>1. lpc[l] = "find" /\ UNCHANGED <<there, holder, session>> /\ UNCHANGED ldom
    BY <1>3 DEF S!FindAccount
  <2>2. l \notin session /\ holder[l] = None /\ \A m \in Logins : account[m] # l
    BY <2>1 DEF HasAccount, Made
  <2>3. account[l] # l /\ l \notin there \cap {a \in Logins : holder[a] = ldom[l]} /\ ldom[l] \in Domains
    BY <2>1, <2>2 DEF CameOver, Resolved
  <2>4. CASE /\ {a \in there : holder[a] = ldom[l]} = {}
             /\ lpc' = [lpc EXCEPT ![l] = "user"] /\ UNCHANGED account
    <3>1. HasAccount(l)'
      BY <2>1, <2>2, <2>3, <2>4 DEF HasAccount, Made
    <3>2. ASSUME NEW m \in Logins \ {l} PROVE HasAccount(m)'
      BY <1>1, <2>1, <2>2, <2>4 DEF HasAccount
    <3> QED BY <3>1, <3>2
  <2>5. ASSUME NEW a \in there, holder[a] = ldom[l],
               account' = [account EXCEPT ![l] = a], lpc' = [lpc EXCEPT ![l] = "member"]
        PROVE  \A m \in Logins : HasAccount(m)'
    <3>1. a # l /\ a \in Logins /\ holder[a] # None
      BY <2>2, <2>3, <2>5
    <3>2. lpc[a] \in Made
      BY <3>1 DEF HasAccount
    <3>3. lpc'[l] = "member" /\ account'[l] = a /\ lpc'[a] = lpc[a]
      BY <2>5, <3>1
    <3>4. HasAccount(l)'
      BY <2>1, <2>2, <2>5, <3>1, <3>2, <3>3 DEF HasAccount, Made
    <3>5. ASSUME NEW m \in Logins \ {l} PROVE HasAccount(m)'
      BY <1>1, <2>1, <2>2, <2>5 DEF HasAccount
    <3> QED BY <3>4, <3>5
  <2> QED BY <1>3, <2>4, <2>5 DEF S!FindAccount
<1>4. CASE S!InsertUser(l)
  <2>1. /\ lpc[l] = "user" /\ lpc'[l] = "identity" /\ account'[l] = l /\ there' = there \cup {l}
        /\ UNCHANGED <<holder, session, ldom>>
    BY <1>4 DEF S!InsertUser
  <2>2. l \notin session /\ holder[l] = None /\ \A m \in Logins : account[m] # l
    BY <2>1 DEF HasAccount, Made
  <2>3. HasAccount(l)'
    BY <2>1, <2>2 DEF HasAccount
  <2>4. ASSUME NEW m \in Logins \ {l} PROVE HasAccount(m)'
    BY <1>1, <2>1, <2>2 DEF HasAccount
  <2> QED BY <2>3, <2>4
<1>5. CASE S!InsertIdentity(l)
  <2>1. /\ lpc[l] = "identity" /\ lpc'[l] = "member" /\ holder'[l] = ldom[l]
        /\ UNCHANGED <<account, there, session, ldom>>
    BY <1>5 DEF S!InsertIdentity
  <2>2. l \notin session /\ account[l] = l /\ \A m \in Logins \ {l} : account[m] # l
    BY <2>1 DEF HasAccount, Made
  <2>3. HasAccount(l)'
    BY <2>1, <2>2 DEF HasAccount, Made
  <2>4. ASSUME NEW m \in Logins \ {l} PROVE HasAccount(m)'
    BY <1>1, <2>1, <2>2 DEF HasAccount
  <2> QED BY <2>3, <2>4
<1>6. CASE S!Join(l)
  <2>1. lpc[l] \in {"identity", "member"} /\ UNCHANGED <<there, holder, session>> /\ l \notin session
    BY <1>6 DEF S!Join, HasAccount
  <2>2. \/ lpc[l] = "member" /\ account[l] \in there /\ lpc'[l] = "session" /\ account'[l] = account[l] /\ ldom'[l] = ldom[l]
        \/ account[l] = l /\ lpc'[l] = "undo" /\ account'[l] = account[l]
        \/ lpc[l] = "member" /\ lpc'[l] = "done" /\ account'[l] = None
    BY <1>6 DEF S!Join, S!ContinueLogin, S!EndLogin, HasAccount
  <2>3. lpc'[l] \in Made
    BY <2>2 DEF Made
  <2>4. holder[l] # None => lpc[l] \in Made
    BY DEF HasAccount
  <2>5. HasAccount(l)'
    BY <1>1, <2>1, <2>2, <2>3 DEF HasAccount
  <2>6. ASSUME NEW m \in Logins \ {l} PROVE HasAccount(m)'
    BY <1>1, <2>1, <2>3 DEF HasAccount
  <2> QED BY <2>5, <2>6
<1>7. CASE S!Undo(l)
  <2>1. /\ lpc[l] = "undo" /\ lpc'[l] = "done" /\ account'[l] = None /\ there' = there \ {l}
        /\ session' = {m \in session : account[m] # l} /\ holder'[l] = None /\ l \notin session
    BY <1>7 DEF S!Undo, S!EndLogin, S!Removed, HasAccount
  <2>2. HasAccount(l)'
    BY <2>1 DEF HasAccount
  <2>3. ASSUME NEW m \in Logins \ {l} PROVE HasAccount(m)'
    <3>1. lpc'[l] \in Made
      BY <2>1 DEF Made
    <3>2. HasAccount(m)
      OBVIOUS
    <3> QED BY <1>1, <2>1, <3>1, <3>2 DEF HasAccount
  <2> QED BY <2>2, <2>3
<1>8. CASE S!InsertSession(l)
  <2>1. lpc[l] = "session" /\ lpc'[l] = "done" /\ UNCHANGED <<there, holder>> /\ l \notin session
    BY <1>8 DEF S!InsertSession, S!ContinueLogin, S!EndLogin, HasAccount
  <2>2. \/ account[l] \in there /\ session' = session \cup {l} /\ account'[l] = account[l] /\ ldom'[l] = ldom[l]
        \/ account'[l] = None /\ session' = session
    BY <1>8 DEF S!InsertSession, S!ContinueLogin, S!EndLogin
  <2>3. lpc'[l] \in Made
    BY <2>1 DEF Made
  <2>4. HasAccount(l)'
    BY <1>1, <2>1, <2>2, <2>3 DEF HasAccount
  <2>5. ASSUME NEW m \in Logins \ {l} PROVE HasAccount(m)'
    BY <1>1, <2>1, <2>3 DEF HasAccount
  <2> QED BY <2>4, <2>5
<1> QED BY <1>2, <1>3, <1>4, <1>5, <1>6, <1>7, <1>8 DEF SignInStep

\* One sign-in at a time looks for an account before it makes one.
LEMMA SignInAlone ==
  ASSUME SsoInv, NEW l \in Logins, SignInStep(l), ~crossed'
  PROVE  AccountsStand'
<1> USE SsoAssumption DEF SsoInv, S!TypeOK, LoginInv
<1>1. /\ \A m \in Logins \ {l} : lpc'[m] = lpc[m] /\ ldom'[m] = ldom[m] /\ holder'[m] = holder[m]
      /\ AccountsStand
  BY SignInFrame
<1>2. lpc[l] \in {"idle", "away", "answer", "back"} => S!Start(l) \/ S!Arrive(l) \/ S!Return(l) \/ S!VerifyOidcIdToken(l) \/ S!ValidateSamlResponse(l) \/ S!Decide(l)
  BY DEF SignInStep, S!FindAccount, S!InsertUser, S!InsertIdentity, S!Join, S!Undo, S!InsertSession
<1> DEFINE Making == {"user", "identity"}
           InWork == {"find", "user", "identity", "member", "undo"}
<1>3. /\ \A m, n \in Logins : lpc[m] \in InWork /\ lpc[n] \in InWork => m = n
      /\ \A m \in Logins, a \in there : lpc[m] \in Making => holder[a] # ldom[m]
      /\ \A a, b \in there : holder[a] = holder[b] /\ holder[a] # None => a = b
  BY <1>1 DEF AccountsStand, S!Resolves
<1>4. SUFFICES
        /\ \A m, n \in Logins : lpc'[m] \in InWork /\ lpc'[n] \in InWork => m = n
        /\ \A m \in Logins, a \in there' : lpc'[m] \in Making => holder'[a] # ldom'[m]
        /\ \A a, b \in there' : holder'[a] = holder'[b] /\ holder'[a] # None => a = b
  BY DEF AccountsStand, S!Resolves
<1>5. CASE S!Start(l) \/ S!Arrive(l) \/ S!Return(l) \/ S!VerifyOidcIdToken(l) \/ S!ValidateSamlResponse(l)
  <2>1. lpc'[l] \in {"away", "answer", "back", "done"} /\ UNCHANGED <<there, holder>>
    BY <1>5 DEF S!Start, S!Arrive, S!Return, S!VerifyOidcIdToken, S!ValidateSamlResponse, S!Believe, S!EndLogin, S!accountVars
  <2>2. \A m \in Logins : /\ lpc'[m] \in InWork => lpc[m] \in InWork
                          /\ lpc'[m] \in Making => lpc[m] \in Making /\ ldom'[m] = ldom[m]
    BY <1>1, <2>1
  <2>3. there' = there /\ holder' = holder
    BY <2>1
  <2> HIDE DEF SsoInv, S!TypeOK, LoginInv
  <2>4. \A m, n \in Logins : lpc'[m] \in InWork /\ lpc'[n] \in InWork => m = n
    BY <1>3, <2>2
  <2>5. \A m \in Logins, a \in there' : lpc'[m] \in Making => holder'[a] # ldom'[m]
    BY <1>3, <2>2, <2>3
  <2>6. \A a, b \in there' : holder'[a] = holder'[b] /\ holder'[a] # None => a = b
    BY <1>3, <2>3
  <2> QED BY <2>4, <2>5, <2>6
<1>6. CASE S!Decide(l)
  <2>1. UNCHANGED <<there, holder>> /\ (lpc'[l] \in {"test", "done"} \/ (lpc'[l] = "find" /\ S!Resolves = {}))
    <3>1. S!TypeOK /\ lpc \in [Logins -> {"idle", "away", "answer", "back", "test", "find", "user", "identity", "member",
                                           "undo", "session", "done"}]
      OBVIOUS
    <3> HIDE DEF SsoInv, S!TypeOK, LoginInv
    <3>2. CASE S!EndLogin(l)
      BY <1>6, <3>1, <3>2, Decides, LoginEnds
    <3>3. CASE lpc' = [lpc EXCEPT ![l] = "test"]
      BY <1>6, <3>1, <3>3, Decides
    <3>4. CASE lpc' = [lpc EXCEPT ![l] = "find"] /\ crossed' = (crossed \/ S!Resolves # {})
      BY <1>6, <3>1, <3>4, Decides
    <3> QED BY <1>6, <3>2, <3>3, <3>4, Decides
  <2>2. lpc'[l] \in {"test", "done"} \/ (lpc'[l] = "find" /\ \A m \in Logins : lpc[m] \notin InWork)
    BY <2>1 DEF S!Resolves
  <2>3. \A m, n \in Logins : lpc'[m] \in InWork /\ lpc'[n] \in InWork => m = n
    BY <1>1, <1>3, <2>2
  <2>4. \A m \in Logins : lpc'[m] \in Making => lpc[m] \in Making /\ ldom'[m] = ldom[m]
    BY <1>1, <2>2
  <2> QED BY <1>3, <2>1, <2>3, <2>4
<1>7. CASE S!FindAccount(l)
  <2>1. /\ lpc[l] = "find" /\ lpc'[l] \in {"user", "member"} /\ UNCHANGED <<there, holder, ldom>>
        /\ lpc'[l] = "user" => \A a \in there : holder[a] # ldom[l]
    BY <1>7 DEF S!FindAccount
  <2> QED BY <1>1, <1>3, <2>1
<1>8. CASE S!InsertUser(l)
  <2>1. /\ lpc[l] = "user" /\ lpc'[l] = "identity" /\ UNCHANGED <<holder, ldom>> /\ there' = there \cup {l}
    BY <1>8 DEF S!InsertUser
  <2>2. holder[l] = None /\ ldom[l] # None
    BY <2>1 DEF HasAccount, Made, CameOver, Resolved
  <2>3. \A m \in Logins \ {l} : lpc[m] \notin InWork
    BY <1>3, <2>1
  <2>4. \A m, n \in Logins : lpc'[m] \in InWork /\ lpc'[n] \in InWork => m = n
    BY <1>1, <2>3
  <2>5. \A m \in Logins : lpc'[m] \in Making => m = l
    BY <1>1, <2>3
  <2>6. \A a \in there' : holder'[a] # ldom'[l]
    BY <1>3, <2>1, <2>2
  <2>7. \A a, b \in there' : holder'[a] = holder'[b] /\ holder'[a] # None => a = b
    BY <1>3, <2>1, <2>2
  <2> QED BY <2>4, <2>5, <2>6, <2>7
<1>9. CASE S!InsertIdentity(l)
  <2>1. /\ lpc[l] = "identity" /\ lpc'[l] = "member" /\ holder'[l] = ldom[l] /\ UNCHANGED <<there, ldom>>
    BY <1>9 DEF S!InsertIdentity
  <2>2. \A m \in Logins \ {l} : lpc[m] \notin InWork
    BY <1>3, <2>1
  <2>3. \A a \in there : holder[a] # ldom[l]
    BY <1>3, <2>1
  <2>4. \A m, n \in Logins : lpc'[m] \in InWork /\ lpc'[n] \in InWork => m = n
    BY <1>1, <2>2
  <2>5. \A m \in Logins : lpc'[m] \notin Making
    BY <1>1, <2>1, <2>2
  <2>6. \A a \in there' \ {l} : holder'[a] = holder[a] /\ holder'[a] # holder'[l]
    BY <1>1, <2>1, <2>3
  <2>7. \A a, b \in there' : holder'[a] = holder'[b] /\ holder'[a] # None => a = b
    BY <1>3, <2>1, <2>6
  <2> QED BY <2>4, <2>5, <2>7
<1>10. CASE S!Join(l) \/ S!Undo(l) \/ S!InsertSession(l)
  <2>1. /\ lpc[l] \in {"identity", "member", "undo", "session"} /\ lpc'[l] \in {"session", "undo", "done"}
        /\ lpc[l] = "session" => lpc'[l] = "done"
        /\ there' \subseteq there /\ (holder' = holder \/ holder' = [holder EXCEPT ![l] = None])
    BY <1>10 DEF S!Join, S!Undo, S!InsertSession, S!ContinueLogin, S!EndLogin
  <2>2. lpc'[l] = "undo" => \A m \in Logins \ {l} : lpc[m] \notin InWork
    BY <1>3, <2>1
  <2>3. \A m, n \in Logins : lpc'[m] \in InWork /\ lpc'[n] \in InWork => m = n
    BY <1>1, <1>3, <2>1, <2>2
  <2>4. \A m \in Logins, a \in there' : lpc'[m] \in Making => holder'[a] # ldom'[m]
    <3> SUFFICES ASSUME NEW m \in Logins, NEW a \in there', lpc'[m] \in Making
                 PROVE  holder'[a] # ldom'[m]
      OBVIOUS
    <3>1. m # l /\ lpc[m] \in Making /\ ldom'[m] = ldom[m] /\ a \in there
      BY <1>1, <2>1
    <3>2. ldom[m] # None /\ holder[a] # ldom[m]
      BY <1>3, <3>1 DEF CameOver, Resolved
    <3> QED BY <2>1, <3>1, <3>2
  <2>5. \A a, b \in there' : holder'[a] = holder'[b] /\ holder'[a] # None => a = b
    BY <1>3, <2>1
  <2> QED BY <2>3, <2>4, <2>5
<1> QED BY <1>5, <1>6, <1>7, <1>8, <1>9, <1>10 DEF SignInStep

LEMMA SignInSteps ==
  ASSUME SsoInv, NEW l \in Logins, SignInStep(l)
  PROVE  SsoInv'
<1>1. /\ UNCHANGED <<S!recordVars, S!verifyVars, S!updateVars, S!patchVars, tested, proved>>
      /\ (crossed => crossed') /\ crossed' \in BOOLEAN
  BY SignInFrame
<1>2. ConnectionInv' /\ DomainInv'
  BY <1>1, VouchedGrows DEF S!recordVars, S!updateVars
<1>3. S!TypeOK'
  BY <1>1, SignInOwnType DEF SsoInv, S!TypeOK, S!recordVars, S!verifyVars, S!updateVars, S!patchVars
<1>4. LoginInv'
  BY SignInCame, SignInAccounts, SignInAlone DEF LoginInv
<1> QED BY <1>2, <1>3, <1>4 DEF SsoInv

LEMMA TestSteps ==
  ASSUME SsoInv, NEW l \in Logins, S!RecordTest(l)
  PROVE  SsoInv'
<1> USE SsoAssumption, RowIs DEF SsoInv
<1> DEFINE c == lconn[l]
           r == [conn[c] EXCEPT !.status = "active"]
<1>1. /\ lpc[l] = "test" /\ c \in SsoConnectionIds /\ conn' = [conn EXCEPT ![c] = r]
      /\ tested' = tested \cup {c} /\ S!EndLogin(l)
      /\ UNCHANGED <<record, verified, S!verifyVars, S!updateVars, S!patchVars, there, holder, session, proved, crossed>>
  BY DEF S!RecordTest, LoginInv, CameOver, S!TypeOK
<1>11. UNCHANGED S!Vouched
  BY <1>1 DEF S!updateVars, S!Vouched
<1>2. r \in S!Row /\ r.status = "active" /\ r.domain = conn[c].domain
  <2>1. conn[c] \in S!Row
    BY <1>1 DEF S!TypeOK
  <2> QED BY <2>1 DEF S!Row
<1> HIDE DEF r
<1>3. S!TypeOK'
  <2>1. conn' \in [SsoConnectionIds -> S!Row] /\ tested' \subseteq SsoConnectionIds
    BY <1>1, <1>2 DEF S!TypeOK
  <2>2. /\ lpc' \in [Logins -> {"idle", "away", "answer", "back", "test", "find", "user", "identity", "member",
                                 "undo", "session", "done"}]
        /\ lconn' \in [Logins -> SsoConnectionIds \cup {None}] /\ lmode' \in [Logins -> {"login", "test", None}]
        /\ lrow' \in [Logins -> S!Row] /\ ldom' \in [Logins -> S!MaybeDomain]
        /\ account' \in [Logins -> Logins \cup {None}]
    BY <1>1 DEF S!TypeOK, S!EndLogin, S!MaybeDomain
  <2> QED BY <1>1, <2>1, <2>2 DEF S!TypeOK, S!verifyVars, S!updateVars, S!patchVars
<1>4. DomainInv'
  BY <1>1, VouchedGrows DEF S!updateVars
<1>5. ConnectionInv'
  <2>1. \A d \in SsoConnectionIds : conn'[d] = IF d = c THEN r ELSE conn[d]
    BY <1>1 DEF S!TypeOK
  <2>2. \A d \in SsoConnectionIds : conn'[d].domain \in MaybeVouched /\ (conn'[d].status = "active" => d \in tested')
    BY <1>1, <1>2, <1>11, <2>1 DEF ConnectionInv, MaybeVouched
  <2>3. ASSUME NEW p \in Patches
        PROVE  /\ ppc'[p] = "write" => pconn'[p] \in SsoConnectionIds
               /\ pold'[p].domain \in MaybeVouched /\ pask'[p].domain \in MaybeVouched
               /\ pold'[p].status = "active" => pconn'[p] \in tested'
    BY <1>1, <1>11 DEF ConnectionInv, S!patchVars, MaybeVouched
  <2> QED BY <1>1, <1>11, <2>2, <2>3 DEF ConnectionInv, MaybeVouched
<1>6. \A m \in Logins \ {l} :
        /\ lpc'[m] = lpc[m] /\ lconn'[m] = lconn[m] /\ lmode'[m] = lmode[m] /\ lrow'[m] = lrow[m]
        /\ ldom'[m] = ldom[m] /\ account'[m] = account[m] /\ holder'[m] = holder[m]
  BY <1>1 DEF S!EndLogin
<1>7. /\ lpc'[l] = "done" /\ lmode'[l] = None /\ lrow'[l] = S!NoRow /\ account'[l] = None
      /\ l \notin session /\ holder[l] = None /\ \A m \in Logins : account[m] # l
  <2>1. lpc'[l] = "done" /\ lmode'[l] = None /\ lrow'[l] = S!NoRow /\ account'[l] = None
    BY <1>1, LoginEnds
  <2>2. \A m \in Logins : HasAccount(m)
    BY DEF LoginInv
  <2>3. l \notin session /\ holder[l] = None /\ \A m \in Logins : account[m] # l
    BY <1>1, <2>2 DEF HasAccount, Made
  <2> QED BY <2>1, <2>3
<1>8. \A m \in Logins : CameOver(m)'
  BY <1>1, <1>6, <1>7, <1>11 DEF LoginInv, CameOver, MaybeVouched, Resolved
<1>9. \A m \in Logins : HasAccount(m)'
  <2>1. HasAccount(l)'
    BY <1>1, <1>7, SsoAssumption DEF HasAccount
  <2>2. ASSUME NEW m \in Logins \ {l} PROVE HasAccount(m)'
    <3>1. HasAccount(m) /\ account[m] \in Logins \cup {None} /\ account[m] # l
      BY <1>7 DEF LoginInv, S!TypeOK
    <3> QED BY <1>1, <1>6, <3>1 DEF HasAccount
  <2> QED BY <2>1, <2>2
<1>10. ASSUME ~crossed' PROVE AccountsStand'
  BY <1>1, <1>6, <1>7, <1>10 DEF LoginInv, AccountsStand, S!Resolves
<1> QED BY <1>3, <1>4, <1>5, <1>8, <1>9, <1>10 DEF LoginInv

LEMMA SsoNext == SsoInv /\ [S!Next]_(S!vars) => SsoInv'
<1> SUFFICES ASSUME SsoInv, [S!Next]_(S!vars) PROVE SsoInv'
  OBVIOUS
<1>1. CASE UNCHANGED S!vars
  <2>1. UNCHANGED <<S!recordVars, S!verifyVars, S!updateVars, S!patchVars, S!loginVars, S!accountVars, S!historyVars>>
    BY <1>1 DEF S!vars
  <2>2. ConnectionInv' /\ LoginInv' /\ DomainInv'
    BY <2>1, VouchedGrows DEF S!historyVars, S!recordVars, S!updateVars
  <2> QED BY <2>1, <2>2 DEF SsoInv, S!TypeOK, S!recordVars, S!verifyVars, S!updateVars, S!patchVars, S!loginVars, S!accountVars, S!historyVars
<1>2. CASE S!Next
  BY <1>2, DomainSteps, UpdateSteps, ConnectionSteps, SignInSteps, TestSteps DEF S!Next, SignInStep
<1> QED BY <1>1, <1>2

\* What is read of connections, domains and accounts stays true until it is used.
THEOREM SsoInvariance == S!Spec => []SsoInv
BY SsoInit, SsoNext, PTL DEF S!Spec

\* Who is signed in by a provider came over a connection that passed a test.
THEOREM SsoLoginIsGrounded == S!Spec => []S!SsoLoginGrounded
<1>1. SsoInv => S!SsoLoginGrounded
  <2> SUFFICES ASSUME SsoInv, NEW l \in session
               PROVE  /\ lconn[l] \in tested
                      /\ account[l] \in there /\ holder[account[l]] = ldom[l]
                      /\ lrow[l].domain # None => ldom[l] = lrow[l].domain /\ ldom[l] \in S!Vouched
    BY DEF S!SsoLoginGrounded
  <2>1. l \in Logins /\ CameOver(l) /\ HasAccount(l)
    BY DEF SsoInv, LoginInv, S!TypeOK
  <2> QED BY <2>1 DEF CameOver, HasAccount, MaybeVouched, S!Vouched
<1> QED BY <1>1, SsoInvariance, PTL

\* Requests that do not overlap lose nothing.
THEOREM LoneSsoRequestsKeep == S!Spec => []S!LoneRequestsKeep
<1>1. SsoInv => S!LoneRequestsKeep
  <2> SUFFICES ASSUME SsoInv, ~crossed
               PROVE  /\ \A d \in proved : d \in verified \cup leftOut \/ \E v \in S!Lists : vdom[v] = d
                      /\ \A a, b \in there : holder[a] = holder[b] /\ holder[a] # None => a = b
    BY DEF S!LoneRequestsKeep
  <2>1. ListStands /\ AccountsStand
    BY DEF SsoInv, DomainInv, LoginInv
  <2> QED BY <2>1 DEF ListStands, AccountsStand, S!Lists
<1> QED BY <1>1, SsoInvariance, PTL

-----------------------------------------------------------------------------
(* Embedded surfaces (EmbedHost).                                           *)

WindowRow == [gen : 0..Windows, of : Surfaces \cup {None}, at : H!Ats]
CodeRow == [of : Surfaces \cup {None}, spent : BOOLEAN]

\* A handler that would take an answer.
Listens(s) == listening[s] /\ (kind[s] \in H!Sheets => ~resolved[s])

\* Whoever may still answer has not: a surface that listens exchanges nothing,
\* and one exchange is under way at most.
AnswerInv ==
  \A s \in Surfaces :
    /\ kind[s] = None => ~listening[s] /\ results[s] = 0 /\ exchanging[s] = {}
    /\ kind[s] # "mount" =>
         /\ results[s] <= 1
         /\ Listens(s) => results[s] = 0 /\ exchanging[s] = {}
         /\ \A c, d \in exchanging[s] : c = d /\ results[s] = 0
    /\ got[s] \subseteq {s}

\* Who will be told listens, or has a timer.
ToldInv ==
  \A s \in Surfaces :
    /\ kind[s] \in H!Polled => told[s] \/ polling[s]
    /\ kind[s] \in H!Sheets => told[s] \/ (listening[s] /\ frame[s] # "closed")

\* A message of success carries its code.
QueueInv == \A i \in 1..Len(queue) : queue[i].type = "success" => queue[i].code # 0

HostInv == H!TypeOK /\ AnswerInv /\ ToldInv /\ QueueInv

LEMMA HostInit == H!Init => HostInv
<1> SUFFICES ASSUME H!Init PROVE HostInv
  OBVIOUS
<1> USE HostAssumption DEF H!Init
<1>1. window \in [H!Names -> WindowRow]
  <2>1. [gen |-> 0, of |-> None, at |-> "closed"] \in WindowRow
    BY DEF WindowRow, H!Ats
  <2> QED BY <2>1
<1>2. handle \in [Surfaces -> 0..Windows] /\ closing \in [Surfaces -> 0..2] /\ results \in [Surfaces -> 0..2]
  OBVIOUS
<1>3. queue \in Seq(H!Messages) /\ hostCode \in Seq(CodeRow)
  OBVIOUS
<1>4. H!TypeOK
  BY <1>1, <1>2, <1>3 DEF H!TypeOK, H!Ats, WindowRow, CodeRow
<1>5. AnswerInv
  BY DEF AnswerInv, Listens
<1>6. ToldInv
  BY DEF ToldInv, H!Polled, H!Sheets, H!Framed
<1>7. QueueInv
  BY DEF QueueInv
<1> QED BY <1>4, <1>5, <1>6, <1>7 DEF HostInv

\* The flags stay flags.
LEMMA Flags ==
  ASSUME NEW these, NEW f
  PROVE  /\ H!Told(these) \in [Surfaces -> BOOLEAN] /\ H!Off(f, these) \in [Surfaces -> BOOLEAN]
         /\ \A s \in Surfaces : H!Told(these)[s] = (told[s] \/ s \in these)
         /\ \A s \in Surfaces : H!Off(f, these)[s] = (f[s] /\ s \notin these)
<1>1. \A s \in Surfaces : (told[s] \/ s \in these) \in BOOLEAN /\ (f[s] /\ s \notin these) \in BOOLEAN
  OBVIOUS
<1>2. H!Told(these) \in [Surfaces -> BOOLEAN] /\ H!Off(f, these) \in [Surfaces -> BOOLEAN]
  BY <1>1, Zenon DEF H!Told, H!Off
<1>3. \A s \in Surfaces : H!Told(these)[s] = (told[s] \/ s \in these)
  BY DEF H!Told
<1>4. \A s \in Surfaces : H!Off(f, these)[s] = (f[s] /\ s \notin these)
  BY DEF H!Off
<1> QED BY <1>2, <1>3, <1>4

LEMMA NamesOfKinds == \A k : H!Name(k) \in H!Names
BY DEF H!Name, H!Names

LEMMA OpenedWindows ==
  ASSUME H!TypeOK, NEW n \in H!Names, NEW s \in Surfaces, H!CanOpen(n)
  PROVE  H!OpenIn(n, s) \in [H!Names -> WindowRow] /\ H!OpenIn(n, s)[n].gen \in 0..Windows
<1> DEFINE g == IF window[n].at = "closed" THEN window[n].gen + 1 ELSE window[n].gen
           r == [gen |-> g, of |-> s, at |-> "opening"]
<1>1. window \in [H!Names -> WindowRow] /\ window[n] \in WindowRow
  BY DEF H!TypeOK, WindowRow
<1>2. window[n].gen \in 0..Windows /\ Windows \in Nat
  BY <1>1, HostAssumption DEF WindowRow
<1>3. g \in 0..Windows
  BY <1>2 DEF H!CanOpen
<1>4. r \in WindowRow /\ r.gen = g
  BY <1>3 DEF WindowRow, H!Ats
<1>5. H!OpenIn(n, s) = [window EXCEPT ![n] = r]
  BY DEF H!OpenIn
<1> HIDE DEF r, g
<1> QED BY <1>1, <1>3, <1>4, <1>5

LEMMA ClosedWindows ==
  ASSUME H!TypeOK
  PROVE  /\ \A n \in H!Names : H!ClosedWindow(n) \in WindowRow
         /\ \A these : H!Shut(these) \in [H!Names -> WindowRow]
<1>1. ASSUME NEW n \in H!Names PROVE H!ClosedWindow(n) \in WindowRow /\ window[n] \in WindowRow
  <2>1. window[n] \in WindowRow
    BY DEF H!TypeOK, WindowRow
  <2>2. window[n].gen \in 0..Windows
    BY <2>1 DEF WindowRow
  <2> QED BY <2>1, <2>2 DEF H!ClosedWindow, WindowRow, H!Ats
<1>2. ASSUME NEW these PROVE H!Shut(these) \in [H!Names -> WindowRow]
  BY <1>1 DEF H!Shut
<1> QED BY <1>1, <1>2

LEMMA QueueGrows ==
  ASSUME HostInv, NEW type \in {"success", "error", "close", "auth", "signed"}, NEW c \in 0..Codes,
         type = "success" => c # 0, queue' = Append(queue, [type |-> type, code |-> c])
  PROVE  queue' \in Seq(H!Messages) /\ QueueInv'
<1> DEFINE m == [type |-> type, code |-> c]
<1>1. m \in H!Messages /\ m.type = type /\ m.code = c /\ queue \in Seq(H!Messages)
  BY DEF H!Messages, HostInv, H!TypeOK
<1> HIDE DEF m
<1>2. queue' = Append(queue, m)
  BY DEF m
<1>3. queue' \in Seq(H!Messages) /\ Len(queue') = Len(queue) + 1 /\ queue'[Len(queue) + 1] = m
      /\ \A i \in 1..Len(queue) : queue'[i] = queue[i]
  BY <1>1, <1>2
<1>4. QueueInv'
  BY <1>1, <1>3 DEF QueueInv, HostInv
<1> QED BY <1>3, <1>4

LEMMA QueueShrinks ==
  ASSUME HostInv, queue # <<>>, queue' = Tail(queue)
  PROVE  /\ queue' \in Seq(H!Messages) /\ QueueInv' /\ Head(queue) \in H!Messages
         /\ Head(queue).type = "success" => Head(queue).code \in 1..Codes
<1>1. queue \in Seq(H!Messages)
  BY DEF HostInv, H!TypeOK
<1>2. /\ queue' \in Seq(H!Messages) /\ Head(queue) = queue[1] /\ Head(queue) \in H!Messages /\ 1 \in 1..Len(queue)
      /\ Len(queue') = Len(queue) - 1 /\ \A i \in 1..Len(queue') : queue'[i] = queue[i + 1]
  BY <1>1
<1>3. QueueInv'
  BY <1>1, <1>2 DEF QueueInv, HostInv
<1>4. Head(queue).code \in 0..Codes
  BY <1>2 DEF H!Messages
<1>5. Head(queue).type = "success" => Head(queue).code # 0
  BY <1>2 DEF HostInv, QueueInv
<1> QED BY <1>2, <1>3, <1>4, <1>5, HostAssumption

\* What the host's own handlers leave alone.
LEMMA HostFrame ==
  ASSUME HostInv
  PROVE  /\ UNCHANGED <<kind, listening, resolved, exchanging, results, got>> => AnswerInv'
         /\ /\ UNCHANGED <<kind, polling, told, listening>>
            /\ \A s \in Surfaces : frame'[s] = "closed" => frame[s] = "closed"
            => ToldInv'
         /\ UNCHANGED queue => QueueInv'
<1>1. UNCHANGED <<kind, listening, resolved, exchanging, results, got>> => AnswerInv'
  BY DEF HostInv, AnswerInv, Listens
<1>2. /\ UNCHANGED <<kind, polling, told, listening>>
      /\ \A s \in Surfaces : frame'[s] = "closed" => frame[s] = "closed"
      => ToldInv'
  BY DEF HostInv, ToldInv
<1>3. UNCHANGED queue => QueueInv'
  BY DEF HostInv, QueueInv
<1> QED BY <1>1, <1>2, <1>3

-----------------------------------------------------------------------------
LEMMA OpeningKeeps ==
  ASSUME HostInv, NEW s \in Surfaces, NEW k \in Kinds,
         H!OpenFrame(s, k) \/ H!OpenPopup(s, k) \/ H!PopupBlocked(s, k)
  PROVE  HostInv'
<1> USE HostAssumption DEF HostInv
<1>1. /\ kind[s] = None /\ ~told[s] /\ kind' = [kind EXCEPT ![s] = k] /\ k # None
      /\ UNCHANGED <<resolved, closing, queue, H!serverVars, exchanging, got>>
  BY DEF H!OpenFrame, H!OpenPopup, H!PopupBlocked, H!historyVars
<1>2. /\ kind' \in [Surfaces -> Kinds \cup {None}] /\ kind'[s] = k /\ \A t \in Surfaces \ {s} : kind'[t] = kind[t]
      /\ ~listening[s] /\ results[s] = 0 /\ exchanging[s] = {}
  BY <1>1 DEF H!TypeOK, AnswerInv
<1>3. QueueInv'
  BY <1>1, HostFrame
<1>4. /\ listening' = listening \/ listening' = [listening EXCEPT ![s] = TRUE]
      /\ frame' = frame \/ frame' = [frame EXCEPT ![s] = "opening"]
      /\ polling' = polling \/ polling' = [polling EXCEPT ![s] = k \in H!Polled]
      /\ told' = told \/ told' = H!Told({s})
      /\ (results' = results) \/ (results' = H!Counted({s}) /\ UNCHANGED listening)
  BY DEF H!OpenFrame, H!OpenPopup, H!PopupBlocked, H!historyVars, H!pageVars
<1>5. /\ listening' \in [Surfaces -> BOOLEAN] /\ frame' \in [Surfaces -> H!Ats] /\ polling' \in [Surfaces -> BOOLEAN]
      /\ told' \in [Surfaces -> BOOLEAN]
  <2>1. listening' \in [Surfaces -> BOOLEAN]
    BY <1>4 DEF H!TypeOK
  <2>2. frame' \in [Surfaces -> H!Ats]
    BY <1>4 DEF H!TypeOK, H!Ats
  <2>3. polling' \in [Surfaces -> BOOLEAN]
    <3> DEFINE b == k \in H!Polled
    <3>1. b \in BOOLEAN
      <4>1. CASE k \in H!Polled
        BY <4>1
      <4>2. CASE k \notin H!Polled
        BY <4>2
      <4> QED BY <4>1, <4>2
    <3>2. polling' = polling \/ polling' = [polling EXCEPT ![s] = b]
      BY <1>4
    <3>3. polling \in [Surfaces -> BOOLEAN]
      BY DEF H!TypeOK
    <3> HIDE DEF b
    <3> QED BY <3>1, <3>2, <3>3
  <2>4. told' \in [Surfaces -> BOOLEAN]
    <3>1. CASE told' = told
      BY <3>1 DEF H!TypeOK
    <3>2. CASE told' = H!Told({s})
      BY <3>2, Flags
    <3> QED BY <1>4, <3>1, <3>2
  <2> QED BY <2>1, <2>2, <2>3, <2>4
<1>6. results' \in [Surfaces -> 0..2] /\ results'[s] <= 1 /\ (listening'[s] => results'[s] = 0)
      /\ \A t \in Surfaces \ {s} : results'[t] = results[t]
  <2>1. CASE results' = results
    BY <1>2, <2>1 DEF H!TypeOK
  <2>2. CASE results' = H!Counted({s}) /\ UNCHANGED listening
    BY <1>2, <2>2 DEF H!TypeOK, H!Counted
  <2> QED BY <1>4, <2>1, <2>2
<1>7. window' \in [H!Names -> WindowRow] /\ handle' \in [Surfaces -> 0..Windows]
  <2>1. CASE H!OpenPopup(s, k)
    <3>1. H!Name(k) \in H!Names /\ H!CanOpen(H!Name(k)) /\ window' = H!OpenIn(H!Name(k), s)
          /\ handle' = [handle EXCEPT ![s] = window'[H!Name(k)].gen]
      BY <2>1, NamesOfKinds DEF H!OpenPopup
    <3>2. window' \in [H!Names -> WindowRow] /\ window'[H!Name(k)].gen \in 0..Windows
      BY <3>1, OpenedWindows
    <3> QED BY <3>1, <3>2 DEF H!TypeOK
  <2>2. CASE H!OpenFrame(s, k) \/ H!PopupBlocked(s, k)
    BY <2>2 DEF H!OpenFrame, H!PopupBlocked, H!pageVars, H!TypeOK, WindowRow
  <2> QED BY <2>1, <2>2
<1>8. H!TypeOK'
  BY <1>1, <1>2, <1>5, <1>6, <1>7 DEF H!TypeOK, WindowRow, H!serverVars
<1>9. AnswerInv'
  <2>1. ASSUME NEW t \in Surfaces \ {s}
        PROVE  /\ listening'[t] = listening[t] /\ resolved'[t] = resolved[t] /\ exchanging'[t] = exchanging[t] /\ got'[t] = got[t]
               /\ kind'[t] = kind[t] /\ results'[t] = results[t]
    BY <1>1, <1>2, <1>4, <1>6 DEF H!TypeOK
  <2>2. got'[s] \subseteq {s} /\ exchanging'[s] = {} /\ kind'[s] # None
    BY <1>1, <1>2 DEF AnswerInv
  <2>3. Listens(s)' => results'[s] = 0
    BY <1>6 DEF Listens
  <2> QED BY <1>6, <2>1, <2>2, <2>3 DEF AnswerInv, Listens
<1>10. ToldInv'
  <2>1. ASSUME NEW t \in Surfaces \ {s}
        PROVE  /\ listening'[t] = listening[t] /\ kind'[t] = kind[t] /\ polling'[t] = polling[t] /\ frame'[t] = frame[t]
               /\ told[t] => told'[t]
    BY <1>2, <1>4 DEF H!TypeOK, H!Told
  <2>2. k \in H!Polled => k \notin H!Framed
    BY DEF H!Polled, H!Framed, H!Sheets
  <2>3. k \in H!Sheets => k \in H!Framed
    BY DEF H!Framed
  <2>4. CASE H!OpenFrame(s, k)
    <3>1. listening'[s] /\ frame'[s] # "closed" /\ k \notin H!Polled
      BY <2>2, <2>4 DEF H!OpenFrame, H!TypeOK
    <3> QED BY <1>2, <2>1, <3>1 DEF ToldInv
  <2>5. CASE H!OpenPopup(s, k)
    <3>1. (k \in H!Polled => polling'[s]) /\ k \notin H!Sheets
      BY <2>3, <2>5 DEF H!OpenPopup, H!TypeOK
    <3> QED BY <1>2, <2>1, <3>1 DEF ToldInv
  <2>6. CASE H!PopupBlocked(s, k)
    <3>1. told'[s]
      BY <2>6 DEF H!PopupBlocked, H!Told
    <3> QED BY <1>2, <2>1, <3>1 DEF ToldInv
  <2> QED BY <2>4, <2>5, <2>6
<1> QED BY <1>3, <1>8, <1>9, <1>10

-----------------------------------------------------------------------------
LEMMA PageTyped ==
  ASSUME H!TypeOK, NEW s \in Surfaces, NEW from \in H!Ats, NEW to \in H!Ats \ {"closed"},
         H!Page(s, from, to) \/ \E n \in H!Names : H!InWindow(n, from, to)
  PROVE  /\ window' \in [H!Names -> WindowRow] /\ handle' \in [Surfaces -> 0..Windows] /\ frame' \in [Surfaces -> H!Ats]
         /\ \A t \in Surfaces : frame'[t] = "closed" => frame[t] = "closed"
<1>1. CASE H!InFrame(s, from, to)
  BY <1>1 DEF H!InFrame, H!TypeOK, WindowRow
<1>2. ASSUME NEW n \in H!Names, H!InWindow(n, from, to)
      PROVE  /\ window' \in [H!Names -> WindowRow] /\ UNCHANGED <<frame, handle>>
  <2>1. window[n] \in WindowRow /\ window \in [H!Names -> WindowRow]
    BY DEF H!TypeOK, WindowRow
  <2>2. [window[n] EXCEPT !.at = to] \in WindowRow
    BY <2>1 DEF WindowRow
  <2>3. window' = [window EXCEPT ![n] = [window[n] EXCEPT !.at = to]] /\ UNCHANGED <<frame, handle>>
    BY <1>2 DEF H!InWindow
  <2> QED BY <2>1, <2>2, <2>3
<1> QED BY <1>1, <1>2 DEF H!Page, H!TypeOK

\* What the pages of Ave do is nothing to the host until a message is read.
LEMMA PagesKeep ==
  ASSUME HostInv, NEW s \in Surfaces,
         \/ H!Enter(s) \/ H!AskForStorage(s) \/ H!GoToLogin(s) \/ H!OpenHere(s) \/ H!LeaveEmbed(s)
         \/ H!Approve(s) \/ H!Decline(s) \/ H!DecideSignature(s)
  PROVE  HostInv'
<1> USE HostAssumption DEF HostInv
<1>1. UNCHANGED <<H!hostVars, exchanging, H!historyVars>>
  BY DEF H!Enter, H!AskForStorage, H!GoToLogin, H!OpenHere, H!LeaveEmbed, H!Approve, H!Decline, H!DecideSignature, H!StillUnread
<1>2. /\ window' \in [H!Names -> WindowRow] /\ handle' \in [Surfaces -> 0..Windows] /\ frame' \in [Surfaces -> H!Ats]
      /\ \A t \in Surfaces : frame'[t] = "closed" => frame[t] = "closed"
  <2>1. CASE H!Enter(s)
    BY <2>1, PageTyped DEF H!Enter, H!Page, H!Ats
  <2>2. CASE H!AskForStorage(s) \/ H!LeaveEmbed(s)
    BY <2>2, PageTyped DEF H!AskForStorage, H!LeaveEmbed, H!Page, H!Ats
  <2>3. CASE H!GoToLogin(s)
    BY <2>3, PageTyped DEF H!GoToLogin, H!Page, H!Ats
  <2>4. CASE H!OpenHere(s)
    <3>1. window' = H!OpenIn(H!Name(kind[s]), s) /\ H!CanOpen(H!Name(kind[s])) /\ frame' = [frame EXCEPT ![s] = "sent"] /\ UNCHANGED handle
      BY <2>4 DEF H!OpenHere
    <3>2. window' \in [H!Names -> WindowRow]
      BY <3>1, NamesOfKinds, OpenedWindows
    <3> QED BY <3>1, <3>2 DEF H!TypeOK, H!Ats
  <2>5. CASE H!Approve(s) \/ H!Decline(s) \/ H!DecideSignature(s)
    BY <2>5, PageTyped DEF H!Approve, H!Decline, H!DecideSignature, H!Ats
  <2> QED BY <2>1, <2>2, <2>3, <2>4, <2>5
<1>3. AnswerInv' /\ ToldInv'
  BY <1>1, <1>2, HostFrame DEF H!hostVars, H!historyVars
<1>4. Len(hostCode) \in Nat /\ hostCode \in Seq(CodeRow)
  BY DEF H!TypeOK, CodeRow
<1>5. queue' \in Seq(H!Messages) /\ QueueInv'
  <2>1. CASE UNCHANGED queue
    BY <2>1, HostFrame DEF H!TypeOK
  <2>2. CASE \E type \in {"error", "close", "auth", "signed"} : H!Post(type, 0)
    <3>1. 0 \in 0..Codes
      OBVIOUS
    <3> QED BY <2>2, <3>1, QueueGrows DEF H!Post
  <2>3. CASE H!Approve(s)
    <3>1. Len(hostCode) + 1 \in 0..Codes /\ Len(hostCode) + 1 # 0 /\ H!Post("success", Len(hostCode) + 1)
      BY <1>4, <2>3 DEF H!Approve
    <3> QED BY <3>1, QueueGrows DEF H!Post
  <2> QED BY <2>1, <2>2, <2>3 DEF H!Enter, H!AskForStorage, H!GoToLogin, H!OpenHere, H!LeaveEmbed, H!Decline, H!DecideSignature
<1>6. hostCode' \in Seq(CodeRow) /\ decided' \subseteq Surfaces
  <2>1. CASE H!Approve(s)
    <3>1. PICK r \in CodeRow : hostCode' = Append(hostCode, r)
      <4> DEFINE q == [of |-> IF kind[s] \in H!TakesTokens THEN s ELSE None, spent |-> FALSE]
      <4>1. q \in CodeRow
        BY DEF CodeRow
      <4>2. hostCode' = Append(hostCode, q)
        BY <2>1 DEF H!Approve
      <4> HIDE DEF q
      <4> QED BY <4>1, <4>2
    <3> QED BY <1>4, <2>1, <3>1 DEF H!Approve, H!TypeOK
  <2>2. CASE UNCHANGED hostCode /\ decided' \in {decided, decided \cup {s}}
    BY <1>4, <2>2 DEF H!TypeOK
  <2> QED BY <2>1, <2>2 DEF H!Enter, H!AskForStorage, H!GoToLogin, H!OpenHere, H!LeaveEmbed, H!Decline, H!DecideSignature,
                            H!StillUnread, H!serverVars
<1> QED BY <1>1, <1>2, <1>3, <1>5, <1>6 DEF H!TypeOK, H!hostVars, H!historyVars, WindowRow, CodeRow

LEMMA WindowClosesKeeps ==
  ASSUME HostInv, NEW n \in H!Names, H!WindowCloses(n)
  PROVE  HostInv'
<1> USE DEF HostInv
<1>1. /\ UNCHANGED <<H!hostVars, H!serverVars, exchanging, H!historyVars, frame, handle, queue>>
      /\ window' = [window EXCEPT ![n] = H!ClosedWindow(n)]
  BY DEF H!WindowCloses, H!StillUnread
<1>2. window' \in [H!Names -> WindowRow]
  BY <1>1, ClosedWindows DEF H!TypeOK, WindowRow
<1>3. AnswerInv' /\ ToldInv' /\ QueueInv'
  BY <1>1, HostFrame DEF H!hostVars, H!historyVars
<1> QED BY <1>1, <1>2, <1>3 DEF H!TypeOK, H!hostVars, H!serverVars, H!historyVars, WindowRow

-----------------------------------------------------------------------------
\* An answer is taken by whoever listens, who then does not any more: unless it
\* is a mounted frame.
LEMMA DispatchAnswerKeeps ==
  ASSUME HostInv, H!DispatchAnswer
  PROVE  HostInv'
<1> USE DEF HostInv
<1> DEFINE m == Head(queue)
           T == H!Takes(m)
           popups == {s \in T : kind[s] \notin H!Framed}
           sheets == {s \in T : kind[s] \in H!Sheets}
           waiting == {s \in T : m.type = "success" /\ kind[s] \in H!TakesTokens}
           closers == IF m.type = "close" THEN T ELSE {}
<1>1. /\ queue # <<>> /\ queue' = Tail(queue)
      /\ listening' = H!Off(listening, popups)
      /\ resolved' = [s \in Surfaces |-> resolved[s] \/ s \in sheets]
      /\ closing' = H!Started(sheets)
      /\ window' = H!Shut(popups \cup sheets)
      /\ exchanging' = [s \in Surfaces |-> exchanging[s] \cup (IF s \in waiting THEN {m.code} ELSE {})]
      /\ results' = H!Counted(T \ (waiting \cup closers))
      /\ told' = H!Told(T \ (waiting \cup (closers \cap sheets)))
      /\ UNCHANGED <<kind, polling, frame, handle, H!serverVars, got>>
  BY DEF H!DispatchAnswer
<1>2. /\ \A s \in T : s \in Surfaces /\ Listens(s)
      /\ popups \subseteq T /\ sheets \subseteq T /\ waiting \subseteq T
      /\ \A s \in T : s \in popups <=> kind[s] \notin H!Framed
      /\ \A s \in T : s \in sheets <=> kind[s] \in H!Sheets
      /\ \A s \in waiting : m.code \in 1..Codes
  BY <1>1, QueueShrinks DEF H!Takes, Listens
<1> HIDE DEF T, popups, sheets, waiting, closers, m
<1>3. queue' \in Seq(H!Messages) /\ QueueInv'
  BY <1>1, QueueShrinks
<1>4. H!TypeOK'
  <2>1. listening' \in [Surfaces -> BOOLEAN] /\ told' \in [Surfaces -> BOOLEAN]
    BY <1>1, Flags
  <2>2. resolved' \in [Surfaces -> BOOLEAN]
    <3>1. \A s \in Surfaces : (resolved[s] \/ s \in sheets) \in BOOLEAN
      OBVIOUS
    <3> QED BY <1>1, <3>1, Zenon
  <2>3. closing' \in [Surfaces -> 0..2] /\ results' \in [Surfaces -> 0..2]
    BY <1>1 DEF H!TypeOK, H!Started, H!Counted
  <2>4. window' \in [H!Names -> WindowRow]
    BY <1>1, ClosedWindows
  <2>5. exchanging' \in [Surfaces -> SUBSET (1..Codes)]
    BY <1>1, <1>2 DEF H!TypeOK
  <2> QED BY <1>1, <1>3, <2>1, <2>2, <2>3, <2>4, <2>5 DEF H!TypeOK, H!serverVars, WindowRow
<1>5. AnswerInv'
  <2> SUFFICES ASSUME NEW s \in Surfaces
               PROVE  /\ kind'[s] = None => ~listening'[s] /\ results'[s] = 0 /\ exchanging'[s] = {}
                      /\ kind'[s] # "mount" =>
                           /\ results'[s] <= 1
                           /\ Listens(s)' => results'[s] = 0 /\ exchanging'[s] = {}
                           /\ \A c, d \in exchanging'[s] : c = d /\ results'[s] = 0
                      /\ got'[s] \subseteq {s}
    BY DEF AnswerInv
  <2>1. got'[s] \subseteq {s} /\ kind'[s] = kind[s]
    BY <1>1 DEF AnswerInv
  <2>2. /\ listening'[s] = (listening[s] /\ s \notin popups)
        /\ resolved'[s] = (resolved[s] \/ s \in sheets)
    BY <1>1, Flags
  <2>3. results[s] \in 0..2
    BY DEF H!TypeOK
  <2>4. CASE s \notin T
    <3>1. results'[s] = results[s] /\ exchanging'[s] = exchanging[s] /\ s \notin popups /\ s \notin sheets
      BY <1>1, <1>2, <2>4 DEF H!Counted
    <3> QED BY <2>1, <2>2, <3>1 DEF AnswerInv, Listens
  <2>5. CASE s \in T /\ kind[s] # "mount"
    <3>1. Listens(s) /\ kind[s] # None /\ results[s] = 0 /\ exchanging[s] = {}
      BY <1>2, <2>5 DEF AnswerInv, Listens
    <3>2. ~Listens(s)'
      <4>1. s \in popups \/ s \in sheets
        BY <1>2, <2>5 DEF H!Framed
      <4> QED BY <1>2, <2>1, <2>2, <2>5, <4>1 DEF Listens
    <3>3. CASE s \in waiting
      <4>1. exchanging'[s] = {m.code} /\ results'[s] = 0
        BY <1>1, <3>1, <3>3 DEF H!Counted
      <4> QED BY <2>1, <3>1, <3>2, <4>1
    <3>4. CASE s \notin waiting
      <4>1. exchanging'[s] = {} /\ results'[s] \in 0..1
        BY <1>1, <3>1, <3>4 DEF H!Counted
      <4> QED BY <2>1, <3>1, <3>2, <4>1
    <3> QED BY <3>3, <3>4
  <2>6. CASE s \in T /\ kind[s] = "mount"
    <3>1. kind[s] # None
      BY <2>6, HostAssumption DEF H!Framed
    <3> QED BY <2>1, <2>6, <3>1
  <2> QED BY <2>4, <2>5, <2>6
<1>6. ToldInv'
  <2> SUFFICES ASSUME NEW s \in Surfaces
               PROVE  /\ kind'[s] \in H!Polled => told'[s] \/ polling'[s]
                      /\ kind'[s] \in H!Sheets => told'[s] \/ (listening'[s] /\ frame'[s] # "closed")
    BY DEF ToldInv
  <2>1. /\ listening'[s] = (listening[s] /\ s \notin popups) /\ (told[s] => told'[s])
    BY <1>1, Flags
  <2>2. kind[s] \in H!Sheets => s \notin popups
    BY <1>2 DEF H!Framed
  <2> QED BY <1>1, <2>1, <2>2 DEF ToldInv
<1> QED BY <1>3, <1>4, <1>5, <1>6

LEMMA DispatchLoginKeeps ==
  ASSUME HostInv, H!DispatchLogin
  PROVE  HostInv'
<1> USE DEF HostInv
<1>1. /\ queue # <<>> /\ queue' = Tail(queue)
      /\ UNCHANGED <<H!hostVars, frame, H!serverVars, exchanging, H!historyVars>>
  BY DEF H!DispatchLogin
<1>2. queue' \in Seq(H!Messages) /\ QueueInv'
  BY <1>1, QueueShrinks
<1>3. AnswerInv' /\ ToldInv'
  BY <1>1, HostFrame DEF H!hostVars, H!historyVars
<1>4. window' \in [H!Names -> WindowRow] /\ handle' \in [Surfaces -> 0..Windows]
  <2> DEFINE opening == {s \in H!Takes(Head(queue)) : ~H!HoldsOpen(s)}
  <2>1. PICK last \in SUBSET opening, blocked \in SUBSET {s \in opening : kind[s] \in H!Signing} :
          /\ \A s \in opening \ blocked :
               H!CanOpen(H!Name(kind[s]))
          /\ last \cap blocked = {}
          /\ window' = [n \in H!Names |->
               IF \E s \in last : H!Name(kind[s]) = n
               THEN H!OpenIn(n, CHOOSE s \in last : H!Name(kind[s]) = n)[n] ELSE window[n]]
          /\ handle' = [s \in Surfaces |->
               IF s \in opening \ blocked THEN window'[H!Name(kind[s])].gen
               ELSE IF s \in blocked THEN 0 ELSE handle[s]]
    BY DEF H!DispatchLogin
  <2>2. opening \subseteq Surfaces
    BY DEF H!Takes
  <2> HIDE DEF opening
  <2>3. ASSUME NEW n \in H!Names
        PROVE  window'[n] \in WindowRow
    <3>1. CASE \E s \in last : H!Name(kind[s]) = n
      <4> DEFINE s == CHOOSE r \in last : H!Name(kind[r]) = n
      <4>1. s \in last /\ H!Name(kind[s]) = n
        BY <3>1
      <4>2. window'[n] = H!OpenIn(n, s)[n]
        BY <2>1, <3>1
      <4> HIDE DEF s
      <4>3. s \in Surfaces /\ H!CanOpen(n)
        BY <2>1, <2>2, <4>1
      <4> QED BY <4>2, <4>3, OpenedWindows
    <3>2. CASE ~\E s \in last : H!Name(kind[s]) = n
      BY <2>1, <3>2 DEF H!TypeOK, WindowRow
    <3> QED BY <3>1, <3>2
  <2>4. window' \in [H!Names -> WindowRow]
    <3>1. window' = [n \in H!Names |-> window'[n]]
      BY <2>1
    <3> QED BY <2>3, <3>1
  <2>5. ASSUME NEW s \in Surfaces PROVE handle'[s] \in 0..Windows
    <3>1. window'[H!Name(kind[s])].gen \in 0..Windows
      BY <2>4, NamesOfKinds DEF WindowRow
    <3>2. handle[s] \in 0..Windows /\ 0 \in 0..Windows
      BY HostAssumption DEF H!TypeOK
    <3> QED BY <2>1, <3>1, <3>2
  <2>6. handle' = [s \in Surfaces |-> handle'[s]]
    BY <2>1
  <2> QED BY <2>4, <2>5, <2>6
<1> QED BY <1>1, <1>2, <1>3, <1>4 DEF H!TypeOK, H!hostVars, H!serverVars, H!historyVars, WindowRow

LEMMA LeaveHostKeeps ==
  ASSUME HostInv, H!LeaveHost
  PROVE  HostInv'
<1> USE DEF HostInv
<1>1. /\ listening' = [s \in Surfaces |-> FALSE] /\ polling' = [s \in Surfaces |-> FALSE]
      /\ closing' = [s \in Surfaces |-> 0] /\ frame' = [s \in Surfaces |-> "closed"]
      /\ queue' = <<>> /\ exchanging' = [s \in Surfaces |-> {}] /\ told' = [s \in Surfaces |-> TRUE]
      /\ UNCHANGED <<kind, resolved, window, handle, H!serverVars, results, got>>
  BY DEF H!LeaveHost
<1>2. H!TypeOK'
  <2>1. queue' \in Seq(H!Messages) /\ closing' \in [Surfaces -> 0..2] /\ frame' \in [Surfaces -> H!Ats]
        /\ listening' \in [Surfaces -> BOOLEAN] /\ polling' \in [Surfaces -> BOOLEAN] /\ told' \in [Surfaces -> BOOLEAN]
        /\ exchanging' \in [Surfaces -> SUBSET (1..Codes)]
    BY <1>1 DEF H!Ats
  <2> QED BY <1>1, <2>1 DEF H!TypeOK, H!serverVars
<1>3. AnswerInv'
  BY <1>1 DEF AnswerInv, Listens
<1>4. ToldInv'
  BY <1>1 DEF ToldInv
<1>5. QueueInv'
  BY <1>1 DEF QueueInv
<1> QED BY <1>2, <1>3, <1>4, <1>5

-----------------------------------------------------------------------------
LEMMA ExchangeKeeps ==
  ASSUME HostInv, NEW s \in Surfaces, H!Exchange(s) \/ H!ExchangeFails(s)
  PROVE  HostInv'
<1> USE DEF HostInv
<1>1. PICK c \in exchanging[s] :
        /\ exchanging' = [exchanging EXCEPT ![s] = @ \ {c}]
        /\ hostCode' = hostCode \/ hostCode' = [hostCode EXCEPT ![c].spent = TRUE]
        /\ got' = got \/ got' = [got EXCEPT ![s] = @ \cup {s}]
        /\ results' = H!Counted({s}) /\ told' = H!Told({s})
        /\ UNCHANGED <<H!hostVars, H!pageVars, queue, decided>>
  <2>1. CASE H!Exchange(s)
    <3>1. PICK c \in exchanging[s] :
            /\ exchanging' = [exchanging EXCEPT ![s] = @ \ {c}]
            /\ hostCode' = [hostCode EXCEPT ![c].spent = TRUE]
            /\ got' = IF ~hostCode[c].spent /\ H!Redeems(s, c) THEN [got EXCEPT ![s] = @ \cup {hostCode[c].of}] ELSE got
            /\ results' = H!Counted({s}) /\ told' = H!Told({s})
            /\ UNCHANGED <<H!hostVars, H!pageVars, queue, decided>>
      BY <2>1 DEF H!Exchange
    <3>2. got' = got \/ got' = [got EXCEPT ![s] = @ \cup {s}]
      BY <3>1 DEF H!Redeems
    <3> QED BY <3>1, <3>2
  <2>2. CASE H!ExchangeFails(s)
    BY <2>2 DEF H!ExchangeFails
  <2> QED BY <2>1, <2>2
<1>2. /\ \A t \in Surfaces : results'[t] = (IF t = s THEN IF results[t] = 2 THEN 2 ELSE results[t] + 1 ELSE results[t])
      /\ results' \in [Surfaces -> 0..2]
  BY <1>1 DEF H!Counted, H!TypeOK
<1>3. /\ exchanging' \in [Surfaces -> SUBSET (1..Codes)] /\ exchanging'[s] = exchanging[s] \ {c}
      /\ \A t \in Surfaces \ {s} : exchanging'[t] = exchanging[t]
  BY <1>1 DEF H!TypeOK
<1>4. got' \in [Surfaces -> SUBSET Surfaces] /\ \A t \in Surfaces : got'[t] \subseteq {t}
  <2>1. got \in [Surfaces -> SUBSET Surfaces] /\ \A t \in Surfaces : got[t] \subseteq {t}
    BY DEF H!TypeOK, AnswerInv
  <2>2. CASE got' = got
    BY <2>1, <2>2
  <2>3. CASE got' = [got EXCEPT ![s] = @ \cup {s}]
    <3>1. got' \in [Surfaces -> SUBSET Surfaces]
      BY <2>1, <2>3
    <3>2. \A t \in Surfaces : got'[t] = IF t = s THEN got[s] \cup {s} ELSE got[t]
      BY <2>1, <2>3
    <3> QED BY <2>1, <3>1, <3>2
  <2> QED BY <1>1, <2>2, <2>3
<1>5. hostCode' \in Seq(CodeRow)
  <2>1. hostCode \in Seq(CodeRow)
    BY DEF H!TypeOK, CodeRow
  <2>2. CASE c \notin 1..Len(hostCode)
    <3>1. hostCode' = hostCode
      BY <1>1, <2>1, <2>2
    <3> QED BY <2>1, <3>1
  <2>3. CASE c \in 1..Len(hostCode)
    <3>1. hostCode[c] \in CodeRow
      BY <2>1, <2>3
    <3>2. [hostCode[c] EXCEPT !.spent = TRUE] \in CodeRow
      BY <3>1 DEF CodeRow
    <3> DEFINE q == [hostCode[c] EXCEPT !.spent = TRUE]
    <3>3. hostCode' = hostCode \/ hostCode' = [hostCode EXCEPT ![c] = q]
      BY <1>1
    <3> HIDE DEF q
    <3>4. [hostCode EXCEPT ![c] = q] \in Seq(CodeRow)
      BY <2>1, <2>3, <3>2 DEF q
    <3> QED BY <2>1, <3>3, <3>4
  <2> QED BY <2>2, <2>3
<1>6. told' \in [Surfaces -> BOOLEAN] /\ \A t \in Surfaces : told[t] => told'[t]
  BY <1>1, Flags
<1>7. H!TypeOK'
  BY <1>1, <1>2, <1>3, <1>4, <1>5, <1>6 DEF H!TypeOK, CodeRow, H!hostVars, H!pageVars
<1>8. AnswerInv'
  <2>1. ASSUME NEW t \in Surfaces \ {s}
        PROVE  results'[t] = results[t] /\ exchanging'[t] = exchanging[t]
    BY <1>2, <1>3
  <2>2. kind[s] # None
    BY DEF AnswerInv
  <2>3. kind[s] # "mount" => results'[s] = 1 /\ exchanging'[s] = {} /\ ~Listens(s)
    BY <1>2, <1>3 DEF AnswerInv
  <2>4. UNCHANGED <<kind, listening, resolved>>
    BY <1>1 DEF H!hostVars
  <2>5. ASSUME NEW t \in Surfaces
        PROVE  /\ kind'[t] = None => ~listening'[t] /\ results'[t] = 0 /\ exchanging'[t] = {}
               /\ kind'[t] # "mount" =>
                    /\ results'[t] <= 1
                    /\ Listens(t)' => results'[t] = 0 /\ exchanging'[t] = {}
                    /\ \A d, e \in exchanging'[t] : d = e /\ results'[t] = 0
    <3>1. CASE t = s
      BY <2>2, <2>3, <2>4, <3>1 DEF Listens
    <3>2. CASE t # s
      BY <2>1, <2>4, <3>2 DEF AnswerInv, Listens
    <3> QED BY <3>1, <3>2
  <2> QED BY <1>4, <2>5 DEF AnswerInv
<1>9. ToldInv'
  BY <1>1, <1>6 DEF ToldInv, H!hostVars, H!pageVars
<1>10. QueueInv'
  BY <1>1, HostFrame
<1> QED BY <1>7, <1>8, <1>9, <1>10

\* Timers and closing: whatever stops listening has told the application.
LEMMA TimersKeep ==
  ASSUME HostInv, NEW s \in Surfaces,
         H!CloseSheet(s) \/ H!SheetGoes(s) \/ H!Poll(s) \/ H!Release(s)
  PROVE  HostInv'
<1> USE DEF HostInv
<1>1. UNCHANGED <<kind, resolved, queue, H!serverVars, exchanging, results, got>>
  BY DEF H!CloseSheet, H!SheetGoes, H!Poll, H!Release, H!historyVars
<1>2. /\ (listening' = listening) \/ (listening' = H!Off(listening, {s}) /\ told' = H!Told({s}))
      /\ (told' = told) \/ told' = H!Told({s})
      /\ (polling' = polling) \/ (polling' = H!Off(polling, {s}) /\ told' = H!Told({s}))
      /\ (frame' = frame) \/ (frame' = [frame EXCEPT ![s] = "closed"] /\ told' = H!Told({s}))
  BY DEF H!CloseSheet, H!SheetGoes, H!Poll, H!Release, H!historyVars
<1>3. /\ listening' \in [Surfaces -> BOOLEAN] /\ polling' \in [Surfaces -> BOOLEAN] /\ told' \in [Surfaces -> BOOLEAN]
      /\ \A t \in Surfaces : listening'[t] => listening[t]
      /\ \A t \in Surfaces : told[t] => told'[t]
  <2>1. listening' \in [Surfaces -> BOOLEAN] /\ \A t \in Surfaces : listening'[t] => listening[t]
    <3>1. CASE listening' = listening
      BY <3>1 DEF H!TypeOK
    <3>2. CASE listening' = H!Off(listening, {s})
      BY <3>2, Flags
    <3> QED BY <1>2, <3>1, <3>2
  <2>2. polling' \in [Surfaces -> BOOLEAN]
    <3>1. CASE polling' = polling
      BY <3>1 DEF H!TypeOK
    <3>2. CASE polling' = H!Off(polling, {s})
      BY <3>2, Flags
    <3> QED BY <1>2, <3>1, <3>2
  <2>3. told' \in [Surfaces -> BOOLEAN] /\ \A t \in Surfaces : told[t] => told'[t]
    <3>1. CASE told' = told
      BY <3>1 DEF H!TypeOK
    <3>2. CASE told' = H!Told({s})
      BY <3>2, Flags
    <3> QED BY <1>2, <3>1, <3>2
  <2> QED BY <2>1, <2>2, <2>3
<1>4. closing' \in [Surfaces -> 0..2]
  <2>1. CASE H!SheetGoes(s)
    <3>1. closing[s] \in 1..2 /\ closing' = [closing EXCEPT ![s] = closing[s] - 1]
      BY <2>1 DEF H!SheetGoes, H!TypeOK
    <3>2. closing[s] - 1 \in 0..2
      BY <3>1
    <3> QED BY <3>1, <3>2 DEF H!TypeOK
  <2>2. CASE H!CloseSheet(s)
    BY <2>2 DEF H!CloseSheet, H!TypeOK, H!Started
  <2>3. CASE H!Poll(s) \/ H!Release(s)
    BY <2>3 DEF H!Poll, H!Release, H!TypeOK
  <2> QED BY <2>1, <2>2, <2>3
<1>5. window' \in [H!Names -> WindowRow] /\ handle' \in [Surfaces -> 0..Windows]
  <2>1. window' \in [H!Names -> WindowRow]
    <3>1. window' = window \/ \E these : window' = H!Shut(these)
      BY DEF H!CloseSheet, H!SheetGoes, H!Poll, H!Release
    <3> QED BY <3>1, ClosedWindows DEF H!TypeOK, WindowRow
  <2>2. handle' = handle \/ handle' = [handle EXCEPT ![s] = 0]
    BY DEF H!CloseSheet, H!SheetGoes, H!Poll, H!Release
  <2>3. 0 \in 0..Windows
    BY HostAssumption
  <2>4. handle' \in [Surfaces -> 0..Windows]
    BY <2>2, <2>3 DEF H!TypeOK
  <2> QED BY <2>1, <2>4
<1>6. frame' \in [Surfaces -> H!Ats]
  BY <1>2 DEF H!TypeOK, H!Ats
<1>7. H!TypeOK'
  BY <1>1, <1>3, <1>4, <1>5, <1>6 DEF H!TypeOK, H!serverVars, WindowRow
<1>8. AnswerInv'
  BY <1>1, <1>3 DEF AnswerInv, Listens
<1>9. ToldInv'
  <2> SUFFICES ASSUME NEW t \in Surfaces, ~told'[t]
               PROVE  /\ kind'[t] \in H!Polled => polling'[t]
                      /\ kind'[t] \in H!Sheets => listening'[t] /\ frame'[t] # "closed"
    BY DEF ToldInv
  <2>1. ~told[t]
    BY <1>3
  <2>2. t # s \/ (told' = told /\ polling' = polling /\ listening' = listening /\ frame' = frame)
    <3>1. told' = H!Told({s}) => told'[s]
      BY Flags
    <3>2. CASE t = s
      <4>1. told' # H!Told({s})
        BY <3>1, <3>2
      <4> QED BY <1>2, <4>1
    <3> QED BY <3>2
  <2>3. polling'[t] = polling[t] /\ listening'[t] = listening[t] /\ frame'[t] = frame[t]
    <3>1. CASE t # s
      <4>1. t \notin {s}
        BY <3>1
      <4>2. polling'[t] = polling[t]
        <5>1. H!Off(polling, {s})[t] = (polling[t] /\ t \notin {s}) /\ polling[t] \in BOOLEAN
          BY Flags DEF H!TypeOK
        <5> QED BY <1>2, <4>1, <5>1
      <4>3. listening'[t] = listening[t]
        <5>1. H!Off(listening, {s})[t] = (listening[t] /\ t \notin {s}) /\ listening[t] \in BOOLEAN
          BY Flags DEF H!TypeOK
        <5> QED BY <1>2, <4>1, <5>1
      <4>4. frame'[t] = frame[t]
        BY <1>2, <3>1 DEF H!TypeOK
      <4> QED BY <4>2, <4>3, <4>4
    <3>2. CASE t = s
      BY <2>2, <3>2
    <3> QED BY <3>1, <3>2
  <2> QED BY <1>1, <2>1, <2>3 DEF ToldInv
<1>10. QueueInv'
  BY <1>1, HostFrame
<1> QED BY <1>7, <1>8, <1>9, <1>10

-----------------------------------------------------------------------------
LEMMA HostNext == HostInv /\ [H!Next]_(H!vars) => HostInv'
<1> SUFFICES ASSUME HostInv, [H!Next]_(H!vars) PROVE HostInv'
  OBVIOUS
<1>1. CASE UNCHANGED H!vars
  <2>1. UNCHANGED <<H!hostVars, H!pageVars, queue, H!serverVars, exchanging, H!historyVars>>
    BY <1>1 DEF H!vars
  <2>2. AnswerInv' /\ ToldInv' /\ QueueInv'
    BY <2>1, HostFrame DEF H!hostVars, H!pageVars, H!historyVars
  <2> QED BY <2>1, <2>2 DEF HostInv, H!TypeOK, H!hostVars, H!pageVars, H!serverVars, H!historyVars
<1>2. CASE H!Next
  BY <1>2, OpeningKeeps, PagesKeep, WindowClosesKeeps, DispatchAnswerKeeps, DispatchLoginKeeps, LeaveHostKeeps,
     ExchangeKeeps, TimersKeep DEF H!Next
<1> QED BY <1>1, <1>2

\* Whoever may still answer has not, and who is to be told will be.
THEOREM HostInvariance == H!Spec => []HostInv
BY HostInit, HostNext, PTL DEF H!Spec

\* A surface gives one result, and tokens for its own challenge only.
THEOREM OneOwnAnswers == H!Spec => []H!OneOwnAnswer
<1>1. HostInv => H!OneOwnAnswer
  BY DEF HostInv, AnswerInv, H!OneOwnAnswer
<1> QED BY <1>1, HostInvariance, PTL

\* Until the application has been told, something is under way that will tell.
THEOREM SomebodyIsToldAlways == H!Spec => []H!SomebodyIsTold
<1>1. HostInv => H!SomebodyIsTold
  BY DEF HostInv, ToldInv, H!SomebodyIsTold, H!Polled
<1> QED BY <1>1, HostInvariance, PTL

-----------------------------------------------------------------------------
(* Signing in by redirect (BrowserSignIn).                                  *)

Bundled(t, f) == entry[t][f] # None

\* A bundle lies where its start was made, and starts that share the place
\* have been noted.
BundleInv ==
  /\ \A t \in Tabs, f \in B!Protocols : Bundled(t, f) =>
       /\ step[entry[t][f]] = "left" /\ made[entry[t][f]] = [tab |-> t, flow |-> f]
       /\ browserOld[t][f] => entry[t][f] \in browserCrossed
  /\ \A n \in Starts :
       /\ step[n] \in {"hashing", "left", "asking", "asserted", "done"} => made[n].tab \in Tabs
       /\ step[n] = "left" => made[n].flow \in B!Protocols
       /\ made[n].flow \in B!Protocols /\ n \notin browserCrossed => \A m \in Starts : made[m] = made[n] => m = n
  /\ B!LoneStartKeepsBundle

\* What a page exchanges was made in its tab.
Redeems(x) == fin[x].at \in {"sent", "granted"}

FinishInv ==
  \A x \in Finishes : Redeems(x) =>
    /\ fin[x].of \in Starts /\ fin[x].verifier = fin[x].of
    /\ step[fin[x].of] = "left" /\ made[fin[x].of].tab = fin[x].tab
    /\ fin[x].at = "granted" => browserCode[fin[x].of] = "spent"

SignedInv == \A t \in Tabs : \A n \in signedIn[t] : made[n].tab = t /\ step[n] \in {"left", "done"}

\* Until a monitor has asked, it has one check in flight at most.
MonitorInv ==
  \A t \in Tabs :
    /\ monitor[t].checks <= 1 /\ asked[t] <= 1
    /\ monitor[t].run = "on" \/ monitor[t].checks > 0 => asked[t] = 0

BrowserInv == B!TypeOK /\ BundleInv /\ FinishInv /\ SignedInv /\ MonitorInv

\* What has left its tab, or is done, stays as it was made; a spent code stays
\* spent.
StartsKept ==
  /\ \A n \in Starts :
       /\ step[n] \in {"left", "done"} => made'[n] = made[n] /\ step'[n] = step[n]
       /\ browserCode[n] = "spent" => browserCode'[n] = "spent"
  /\ browserCrossed \subseteq browserCrossed'

LEMMA BrowserInit == B!Init => BrowserInv
<1> SUFFICES ASSUME B!Init PROVE BrowserInv
  OBVIOUS
<1> USE BrowserAssumption DEF B!Init
<1>1. B!TypeOK
  BY DEF B!TypeOK, B!Maybe, B!Protocols, B!Idle
<1>2. BundleInv
  BY DEF BundleInv, Bundled, B!LoneStartKeepsBundle
<1>3. FinishInv /\ SignedInv /\ MonitorInv
  BY DEF FinishInv, Redeems, B!Idle, SignedInv, MonitorInv
<1> QED BY <1>1, <1>2, <1>3 DEF BrowserInv

LEMMA BrowserFrame ==
  ASSUME BrowserInv, StartsKept
  PROVE  /\ UNCHANGED <<B!startVars, entry, browserOld>> => BundleInv'
         /\ UNCHANGED fin => FinishInv'
         /\ UNCHANGED signedIn => SignedInv'
         /\ UNCHANGED <<monitor, asked>> => MonitorInv'
<1> USE DEF BrowserInv, B!TypeOK, StartsKept, B!Maybe
<1>1. ASSUME UNCHANGED <<B!startVars, entry, browserOld>> PROVE BundleInv'
  BY <1>1 DEF BundleInv, Bundled, B!LoneStartKeepsBundle, B!startVars
<1>2. ASSUME UNCHANGED fin PROVE FinishInv'
  BY <1>2 DEF FinishInv, Redeems
<1>3. ASSUME UNCHANGED signedIn PROVE SignedInv'
  BY <1>3 DEF SignedInv
<1>4. UNCHANGED <<monitor, asked>> => MonitorInv'
  BY DEF MonitorInv
<1> QED BY <1>1, <1>2, <1>3, <1>4

-----------------------------------------------------------------------------
LEMMA StartKeeps ==
  ASSUME BrowserInv, NEW n \in Starts, NEW t \in Tabs, NEW f \in B!Protocols, B!Start(n, t, f)
  PROVE  BrowserInv'
<1> USE BrowserAssumption DEF BrowserInv
<1> DEFINE here == [tab |-> t, flow |-> f]
<1>1. /\ step[n] = "idle" /\ step' = [step EXCEPT ![n] = "hashing"] /\ made' = [made EXCEPT ![n] = here]
      /\ UNCHANGED <<entry, browserOld, identity, B!tabVars, browserCode, fin, monitor, signedIn, asked>>
      /\ (returnTo' = returnTo \/ returnTo' = [returnTo EXCEPT ![t] = n])
  BY DEF B!Start
<1>2. /\ browserCrossed \subseteq browserCrossed' /\ browserCrossed' \subseteq Starts
      /\ \A m \in Starts : made[m] = here => n \in browserCrossed' /\ m \in browserCrossed'
  BY DEF B!Start, B!Crosses, B!Meets, B!TypeOK
<1>3. here \in [tab : Tabs \cup {None}, flow : B!Protocols \cup {"fedcm", None}] /\ here.tab = t /\ here.flow = f
  OBVIOUS
<1> HIDE DEF here
<1>4. StartsKept
  BY <1>1, <1>2 DEF StartsKept, B!TypeOK
<1>5. B!TypeOK'
  <2>1. step' \in [Starts -> {"idle", "hashing", "left", "asking", "asserted", "done", "failed"}]
    BY <1>1 DEF B!TypeOK
  <2>2. made' \in [Starts -> [tab : Tabs \cup {None}, flow : B!Protocols \cup {"fedcm", None}]]
    BY <1>1, <1>3 DEF B!TypeOK
  <2>3. returnTo' \in [Tabs -> B!Maybe]
    BY <1>1 DEF B!TypeOK, B!Maybe
  <2> QED BY <1>1, <1>2, <2>1, <2>2, <2>3 DEF B!TypeOK, B!tabVars
<1>6. BundleInv'
  <2> USE DEF B!TypeOK
  <2>1. \A m \in Starts \ {n} : made'[m] = made[m] /\ step'[m] = step[m]
    BY <1>1
  <2>2. made'[n] = here /\ step'[n] = "hashing"
    BY <1>1
  <2>3. ASSUME NEW u \in Tabs, NEW g \in B!Protocols, Bundled(u, g)'
        PROVE  /\ step'[entry'[u][g]] = "left" /\ made'[entry'[u][g]] = [tab |-> u, flow |-> g]
               /\ browserOld'[u][g] => entry'[u][g] \in browserCrossed'
    <3>1. entry'[u][g] = entry[u][g] /\ browserOld'[u][g] = browserOld[u][g] /\ Bundled(u, g) /\ entry[u][g] \in Starts
      BY <1>1, <2>3 DEF Bundled, B!Maybe
    <3>2. step[entry[u][g]] = "left" /\ made[entry[u][g]] = [tab |-> u, flow |-> g] /\ entry[u][g] # n
      BY <1>1, <3>1 DEF BundleInv
    <3>3. browserOld[u][g] => entry[u][g] \in browserCrossed
      BY <3>1 DEF BundleInv
    <3> QED BY <1>2, <2>1, <3>1, <3>2, <3>3
  <2>4. ASSUME NEW m \in Starts
        PROVE  /\ step'[m] \in {"hashing", "left", "asking", "asserted", "done"} => made'[m].tab \in Tabs
               /\ step'[m] = "left" => made'[m].flow \in B!Protocols
    BY <1>3, <2>1, <2>2 DEF BundleInv
  <2>5. ASSUME NEW m \in Starts, NEW k \in Starts, made'[m].flow \in B!Protocols, m \notin browserCrossed', made'[k] = made'[m]
        PROVE  k = m
    <3>1. CASE m = n
      BY <1>2, <2>1, <2>2, <2>5, <3>1
    <3>2. CASE m # n
      BY <1>2, <2>1, <2>2, <2>5, <3>2 DEF BundleInv
    <3> QED BY <3>1, <3>2
  <2>6. B!LoneStartKeepsBundle'
    BY <1>1, <1>2, <2>1, <2>2 DEF BundleInv, B!LoneStartKeepsBundle
  <2> QED BY <2>3, <2>4, <2>5, <2>6 DEF BundleInv
<1>7. FinishInv' /\ SignedInv' /\ MonitorInv'
  BY <1>1, <1>4, BrowserFrame
<1> QED BY <1>5, <1>6, <1>7

LEMMA StoreKeeps ==
  ASSUME BrowserInv, NEW n \in Starts, B!Store(n)
  PROVE  BrowserInv'
<1> USE BrowserAssumption DEF BrowserInv
<1> DEFINE t == made[n].tab
           f == made[n].flow
<1>1. /\ step[n] = "hashing" /\ f \in B!Protocols /\ step' = [step EXCEPT ![n] = "left"]
      /\ entry' = [entry EXCEPT ![t][f] = n] /\ browserOld' = [browserOld EXCEPT ![t][f] = FALSE]
      /\ going' = [going EXCEPT ![t] = n]
      /\ UNCHANGED <<made, returnTo, identity, at, browserCode, fin, monitor, B!historyVars>>
  BY DEF B!Store
<1>2. t \in Tabs /\ made[n] = [tab |-> t, flow |-> f]
  BY <1>1 DEF BundleInv, B!TypeOK
<1>3. StartsKept
  BY <1>1 DEF StartsKept, B!TypeOK, B!historyVars
<1> HIDE DEF t, f
<1>4. B!TypeOK'
  <2>1. entry' \in [Tabs -> [B!Protocols -> B!Maybe]] /\ browserOld' \in [Tabs -> [B!Protocols -> BOOLEAN]] /\ going' \in [Tabs -> B!Maybe]
    BY <1>1, <1>2 DEF B!TypeOK, B!Maybe
  <2>2. step' \in [Starts -> {"idle", "hashing", "left", "asking", "asserted", "done", "failed"}]
    BY <1>1 DEF B!TypeOK
  <2> QED BY <1>1, <2>1, <2>2 DEF B!TypeOK, B!historyVars
<1>5. BundleInv'
  <2>1. entry'[t][f] = n /\ ~browserOld'[t][f] /\ made'[n] = [tab |-> t, flow |-> f] /\ step'[n] = "left"
    BY <1>1, <1>2 DEF B!TypeOK
  <2>2. ASSUME NEW u \in Tabs, NEW g \in B!Protocols, ~(u = t /\ g = f)
        PROVE  entry'[u][g] = entry[u][g] /\ browserOld'[u][g] = browserOld[u][g]
    <3>1. entry \in [Tabs -> [B!Protocols -> B!Maybe]] /\ browserOld \in [Tabs -> [B!Protocols -> BOOLEAN]]
      BY DEF B!TypeOK
    <3>2. CASE u # t
      <4>1. entry'[u] = entry[u]
        BY <1>1, <3>1, <3>2
      <4>2. browserOld'[u] = browserOld[u]
        BY <1>1, <3>1, <3>2
      <4> QED BY <4>1, <4>2
    <3>3. CASE u = t
      <4>1. entry'[t] = [entry[t] EXCEPT ![f] = n] /\ browserOld'[t] = [browserOld[t] EXCEPT ![f] = FALSE]
        BY <1>1, <1>2, <3>1
      <4>2. entry[t] \in [B!Protocols -> B!Maybe] /\ browserOld[t] \in [B!Protocols -> BOOLEAN]
        BY <1>2, <3>1
      <4> QED BY <2>2, <3>3, <4>1, <4>2
    <3> QED BY <3>2, <3>3
  <2>3. \A m \in Starts : made'[m] = made[m] /\ (m # n => step'[m] = step[m])
    BY <1>1 DEF B!TypeOK
  <2>4. ASSUME NEW u \in Tabs, NEW g \in B!Protocols, Bundled(u, g)'
        PROVE  /\ step'[entry'[u][g]] = "left" /\ made'[entry'[u][g]] = [tab |-> u, flow |-> g]
               /\ browserOld'[u][g] => entry'[u][g] \in browserCrossed'
    <3>1. CASE u = t /\ g = f
      BY <2>1, <3>1
    <3>2. CASE ~(u = t /\ g = f)
      <4>1. entry'[u][g] = entry[u][g] /\ browserOld'[u][g] = browserOld[u][g] /\ Bundled(u, g) /\ entry[u][g] \in Starts
        BY <2>2, <2>4, <3>2 DEF Bundled, B!TypeOK, B!Maybe
      <4>2. /\ step[entry[u][g]] = "left" /\ made[entry[u][g]] = [tab |-> u, flow |-> g]
            /\ browserOld[u][g] => entry[u][g] \in browserCrossed
        BY <4>1 DEF BundleInv
      <4>3. step'[entry[u][g]] = "left"
        BY <1>1, <2>3, <4>1, <4>2
      <4> QED BY <1>1, <2>3, <4>1, <4>2, <4>3 DEF B!historyVars
    <3> QED BY <3>1, <3>2
  <2>5. ASSUME NEW m \in Starts
        PROVE  /\ step'[m] \in {"hashing", "left", "asking", "asserted", "done"} => made'[m].tab \in Tabs
               /\ step'[m] = "left" => made'[m].flow \in B!Protocols
               /\ made'[m].flow \in B!Protocols /\ m \notin browserCrossed' => \A k \in Starts : made'[k] = made'[m] => k = m
    BY <1>1, <1>2, <2>1, <2>3 DEF BundleInv, B!historyVars
  <2>6. B!LoneStartKeepsBundle'
    <3> SUFFICES ASSUME NEW m \in Starts \ browserCrossed', step'[m] = "left", browserCode'[m] # "spent"
                 PROVE  entry'[made'[m].tab][made'[m].flow] = m
      BY DEF B!LoneStartKeepsBundle
    <3>1. CASE m = n
      BY <2>1, <3>1
    <3>2. CASE m # n
      <4>1. /\ m \notin browserCrossed /\ step[m] = "left" /\ browserCode[m] # "spent" /\ made'[m] = made[m]
            /\ made[m].tab \in Tabs /\ made[m].flow \in B!Protocols
        BY <1>1, <2>3, <3>2 DEF B!historyVars, BundleInv
      <4>2. entry[made[m].tab][made[m].flow] = m
        BY <4>1 DEF BundleInv, B!LoneStartKeepsBundle
      <4>3. made[n] # made[m]
        BY <3>2, <4>1 DEF BundleInv
      <4>4. made[m] = [tab |-> made[m].tab, flow |-> made[m].flow]
        BY DEF B!TypeOK
      <4>5. ~(made[m].tab = t /\ made[m].flow = f)
        BY <1>2, <4>3, <4>4
      <4> QED BY <2>2, <4>1, <4>2, <4>5
    <3> QED BY <3>1, <3>2
  <2> QED BY <2>4, <2>5, <2>6 DEF BundleInv
<1>6. FinishInv' /\ SignedInv' /\ MonitorInv'
  BY <1>1, <1>3, BrowserFrame DEF B!historyVars
<1> QED BY <1>4, <1>5, <1>6

\* A page that goes takes with it what it was doing, and no bundle.
LEMMA UnloadKeeps ==
  ASSUME BrowserInv, NEW t \in Tabs,
         B!Leave(t) \/ \E n \in Starts : B!Revisit(t, n)
  PROVE  BrowserInv'
<1> USE BrowserAssumption DEF BrowserInv
<1>1. /\ B!Unload(t) /\ UNCHANGED <<made, B!storageVars, B!historyVars>>
      /\ at' \in [Tabs -> [page : {"app", "ave", "callback"}, of : B!Maybe]]
      /\ going' \in [Tabs -> B!Maybe]
  <2>1. CASE B!Leave(t)
    <3>1. going[t] \in B!Maybe
      BY DEF B!TypeOK
    <3>2. [page |-> "ave", of |-> going[t]] \in [page : {"app", "ave", "callback"}, of : B!Maybe]
      BY <3>1
    <3> QED BY <2>1, <3>2 DEF B!Leave, B!TypeOK, B!Maybe
  <2>2. ASSUME NEW n \in Starts, B!Revisit(t, n)
        PROVE  /\ B!Unload(t) /\ UNCHANGED <<made, B!storageVars, B!historyVars>>
               /\ at' \in [Tabs -> [page : {"app", "ave", "callback"}, of : B!Maybe]]
               /\ going' \in [Tabs -> B!Maybe]
    <3>1. [page |-> "callback", of |-> n] \in [page : {"app", "ave", "callback"}, of : B!Maybe]
      BY DEF B!Maybe
    <3> QED BY <2>2, <3>1 DEF B!Revisit, B!TypeOK
  <2> QED BY <2>1, <2>2
<1>2. /\ \A n \in Starts : step'[n] = step[n] \/ (step'[n] = "failed" /\ step[n] \in {"hashing", "asking", "asserted"})
      /\ \A n \in Starts : browserCode'[n] = browserCode[n] \/ browserCode'[n] = "spent"
      /\ step' \in [Starts -> {"idle", "hashing", "left", "asking", "asserted", "done", "failed"}]
      /\ browserCode' \in [Starts -> {"none", "issued", "spent"}]
  BY <1>1 DEF B!Unload, B!TypeOK
<1>3. /\ \A x \in Finishes : fin'[x] = fin[x] \/ fin'[x].at = "failed"
      /\ fin' \in [Finishes -> [at : {"idle", "sent", "granted", "done", "failed"},
                                tab : Tabs \cup {None}, of : B!Maybe, verifier : B!Maybe]]
  <2>1. /\ [B!Idle EXCEPT !.at = "failed"].at = "failed"
        /\ [B!Idle EXCEPT !.at = "failed"] \in [at : {"idle", "sent", "granted", "done", "failed"},
                                                tab : Tabs \cup {None}, of : B!Maybe, verifier : B!Maybe]
    BY DEF B!Idle, B!Maybe
  <2> QED BY <1>1, <2>1 DEF B!Unload, B!TypeOK
<1>4. monitor' = [monitor EXCEPT ![t] = [run |-> "off", checks |-> 0]]
  BY <1>1 DEF B!Unload
<1>5. StartsKept
  BY <1>1, <1>2 DEF StartsKept, B!historyVars
<1>6. B!TypeOK'
  <2>1. monitor' \in [Tabs -> [run : {"off", "on", "stopped"}, checks : 0..2]]
    BY <1>4 DEF B!TypeOK
  <2> QED BY <1>1, <1>2, <1>3, <2>1 DEF B!TypeOK, B!storageVars, B!historyVars
<1>7. BundleInv'
  <2>1. ASSUME NEW u \in Tabs, NEW g \in B!Protocols, Bundled(u, g)'
        PROVE  /\ step'[entry'[u][g]] = "left" /\ made'[entry'[u][g]] = [tab |-> u, flow |-> g]
               /\ browserOld'[u][g] => entry'[u][g] \in browserCrossed'
    <3>1. Bundled(u, g) /\ entry[u][g] \in Starts
      BY <1>1, <2>1 DEF Bundled, B!TypeOK, B!Maybe, B!storageVars
    <3>2. step[entry[u][g]] = "left"
      BY <3>1 DEF BundleInv
    <3>3. step'[entry[u][g]] = "left"
      BY <1>2, <3>1, <3>2
    <3> QED BY <3>3, <1>1, <3>1, <3>2 DEF BundleInv, B!storageVars, B!historyVars
  <2>2. ASSUME NEW n \in Starts
        PROVE  /\ step'[n] \in {"hashing", "left", "asking", "asserted", "done"} => made'[n].tab \in Tabs
               /\ step'[n] = "left" => made'[n].flow \in B!Protocols
               /\ made'[n].flow \in B!Protocols /\ n \notin browserCrossed' => \A m \in Starts : made'[m] = made'[n] => m = n
    <3>1. step'[n] \in {"hashing", "left", "asking", "asserted", "done"} => step'[n] = step[n]
      BY <1>2
    <3> QED BY <1>1, <3>1 DEF BundleInv, B!historyVars
  <2>3. B!LoneStartKeepsBundle'
    BY <1>1, <1>2 DEF BundleInv, B!LoneStartKeepsBundle, B!storageVars, B!historyVars
  <2> QED BY <2>1, <2>2, <2>3 DEF BundleInv
<1>8. FinishInv'
  <2> SUFFICES ASSUME NEW x \in Finishes, Redeems(x)'
               PROVE  /\ fin'[x].of \in Starts /\ fin'[x].verifier = fin'[x].of
                      /\ step'[fin'[x].of] = "left" /\ made'[fin'[x].of].tab = fin'[x].tab
                      /\ fin'[x].at = "granted" => browserCode'[fin'[x].of] = "spent"
    BY DEF FinishInv
  <2>1. fin'[x] = fin[x]
    BY <1>3 DEF Redeems
  <2> QED BY <1>1, <1>2, <2>1 DEF FinishInv, Redeems
<1>9. SignedInv'
  BY <1>1, <1>5, BrowserFrame DEF B!historyVars
<1>10. MonitorInv'
  BY <1>1, <1>4 DEF MonitorInv, B!historyVars, B!TypeOK
<1> QED BY <1>6, <1>7, <1>8, <1>9, <1>10

LEMMA ComeBackKeeps ==
  ASSUME BrowserInv, NEW t \in Tabs, B!ComeBack(t)
  PROVE  BrowserInv'
<1> USE BrowserAssumption DEF BrowserInv
<1>1. /\ UNCHANGED <<B!startVars, B!storageVars, going, fin, monitor, B!historyVars>>
      /\ \A n \in Starts : browserCode'[n] = browserCode[n] \/ (browserCode[n] = "none" /\ browserCode'[n] = "issued")
      /\ browserCode' \in [Starts -> {"none", "issued", "spent"}]
      /\ at' \in [Tabs -> [page : {"app", "ave", "callback"}, of : B!Maybe]]
  <2>1. CASE browserCode[at[t].of] = "none" /\ at' = [at EXCEPT ![t].page = "callback"]
             /\ browserCode' = [browserCode EXCEPT ![at[t].of] = "issued"]
    <3>1. browserCode' \in [Starts -> {"none", "issued", "spent"}] /\ \A n \in Starts : browserCode'[n] = browserCode[n] \/ (browserCode[n] = "none" /\ browserCode'[n] = "issued")
      BY <2>1 DEF B!TypeOK
    <3>2. [at[t] EXCEPT !.page = "callback"] \in [page : {"app", "ave", "callback"}, of : B!Maybe]
      <4>1. at[t] \in [page : {"app", "ave", "callback"}, of : B!Maybe]
        BY DEF B!TypeOK
      <4> QED BY <4>1
    <3>3. at' = [at EXCEPT ![t] = [at[t] EXCEPT !.page = "callback"]]
      BY <2>1
    <3> QED BY <3>1, <3>2, <3>3 DEF B!ComeBack, B!TypeOK
  <2>2. CASE at' = [at EXCEPT ![t] = [page |-> "app", of |-> None]] /\ UNCHANGED browserCode
    <3>1. [page |-> "app", of |-> None] \in [page : {"app", "ave", "callback"}, of : B!Maybe]
      BY DEF B!Maybe
    <3> QED BY <2>2, <3>1 DEF B!ComeBack, B!TypeOK
  <2> QED BY <2>1, <2>2 DEF B!ComeBack
<1>2. StartsKept
  BY <1>1 DEF StartsKept, B!startVars, B!historyVars
<1>3. BundleInv' /\ FinishInv' /\ SignedInv' /\ MonitorInv'
  BY <1>1, <1>2, BrowserFrame DEF B!storageVars, B!historyVars
<1> QED BY <1>1, <1>3 DEF B!TypeOK, B!startVars, B!storageVars, B!historyVars

-----------------------------------------------------------------------------
\* The calls that finish: none touches another start's bundle.
LEMMA ReadKeeps ==
  ASSUME BrowserInv, NEW x \in Finishes, NEW t \in Tabs, NEW f \in B!Protocols,
         B!Expired(x, t, f) \/ B!Send(x, t, f) \/ B!Refuse(x, t, f)
  PROVE  BrowserInv'
<1> USE BrowserAssumption DEF BrowserInv
<1> DEFINE Fin == [at : {"idle", "sent", "granted", "done", "failed"},
                   tab : Tabs \cup {None}, of : B!Maybe, verifier : B!Maybe]
<1>1. /\ UNCHANGED <<B!startVars, returnTo, identity, B!tabVars, browserCode, monitor, B!historyVars>>
      /\ fin[x].at = "idle" /\ at[t].page = "callback" /\ fin[x] \in Fin
  BY DEF B!Expired, B!Send, B!Refuse, B!storageVars, B!TypeOK
<1>2. StartsKept
  BY <1>1 DEF StartsKept, B!startVars, B!historyVars
<1>3. SignedInv' /\ MonitorInv'
  BY <1>1, <1>2, BrowserFrame DEF B!historyVars
<1>4. CASE B!Expired(x, t, f) \/ B!Refuse(x, t, f)
  <2>1. fin' = [fin EXCEPT ![x].at = "failed"]
    BY <1>4 DEF B!Expired, B!Refuse
  <2>2. fin' \in [Finishes -> Fin] /\ FinishInv'
    BY <1>1, <2>1 DEF B!TypeOK, FinishInv, Redeems, B!startVars
  <2>3. \/ UNCHANGED <<entry, browserOld>>
        \/ /\ entry[t][f] # None /\ browserOld[t][f]
           /\ entry' = [entry EXCEPT ![t][f] = None] /\ browserOld' = [browserOld EXCEPT ![t][f] = FALSE]
    BY <1>4 DEF B!Expired, B!Refuse, B!storageVars
  <2>4. entry' \in [Tabs -> [B!Protocols -> B!Maybe]] /\ browserOld' \in [Tabs -> [B!Protocols -> BOOLEAN]]
    <3>1. CASE UNCHANGED <<entry, browserOld>>
      BY <3>1 DEF B!TypeOK
    <3>2. CASE entry' = [entry EXCEPT ![t][f] = None] /\ browserOld' = [browserOld EXCEPT ![t][f] = FALSE]
      BY <3>2 DEF B!TypeOK, B!Maybe
    <3> QED BY <2>3, <3>1, <3>2
  <2>5. BundleInv'
    <3>1. CASE UNCHANGED <<entry, browserOld>>
      BY <1>1, <1>2, <3>1, BrowserFrame
    <3>2. CASE /\ entry[t][f] # None /\ browserOld[t][f]
               /\ entry' = [entry EXCEPT ![t][f] = None] /\ browserOld' = [browserOld EXCEPT ![t][f] = FALSE]
      <4>1. \A u \in Tabs, g \in B!Protocols :
              /\ u = t /\ g = f => entry'[u][g] = None
              /\ ~(u = t /\ g = f) => entry'[u][g] = entry[u][g] /\ browserOld'[u][g] = browserOld[u][g]
        <5>1. ASSUME NEW u \in Tabs, NEW g \in B!Protocols, u # t \/ g # f
              PROVE  entry'[u][g] = entry[u][g] /\ browserOld'[u][g] = browserOld[u][g]
          <6>1. CASE u # t
            BY <3>2, <6>1 DEF B!TypeOK
          <6>2. CASE u = t
            <7>1. entry'[t] = [entry[t] EXCEPT ![f] = None] /\ browserOld'[t] = [browserOld[t] EXCEPT ![f] = FALSE]
              BY <3>2 DEF B!TypeOK
            <7>2. entry[t] \in [B!Protocols -> B!Maybe] /\ browserOld[t] \in [B!Protocols -> BOOLEAN]
              BY DEF B!TypeOK
            <7> QED BY <5>1, <6>2, <7>1, <7>2
          <6> QED BY <6>1, <6>2
        <5>2. entry'[t][f] = None
          BY <3>2 DEF B!TypeOK
        <5> QED BY <5>1, <5>2
      <4>2. entry[t][f] \in browserCrossed
        BY <3>2 DEF BundleInv, Bundled
      <4>3. \A u \in Tabs, g \in B!Protocols : Bundled(u, g)' =>
              /\ step'[entry'[u][g]] = "left" /\ made'[entry'[u][g]] = [tab |-> u, flow |-> g]
              /\ browserOld'[u][g] => entry'[u][g] \in browserCrossed'
        BY <1>1, <4>1 DEF BundleInv, Bundled, B!startVars, B!historyVars
      <4>4. B!LoneStartKeepsBundle'
        BY <1>1, <4>1, <4>2 DEF BundleInv, B!LoneStartKeepsBundle, B!startVars, B!historyVars
      <4> QED BY <1>1, <4>3, <4>4 DEF BundleInv, B!startVars, B!historyVars
    <3> QED BY <2>3, <3>1, <3>2
  <2> QED BY <1>1, <1>3, <2>2, <2>4, <2>5 DEF B!TypeOK, B!startVars, B!tabVars, B!historyVars
<1>5. CASE B!Send(x, t, f)
  <2> DEFINE r == [at |-> "sent", tab |-> t, of |-> at[t].of, verifier |-> entry[t][f]]
  <2>1. /\ entry[t][f] # None /\ entry[t][f] = at[t].of /\ fin' = [fin EXCEPT ![x] = r]
        /\ UNCHANGED <<entry, browserOld>>
    BY <1>5 DEF B!Send, B!Belongs, B!storageVars
  <2>2. at[t].of \in Starts /\ step[at[t].of] = "left" /\ made[at[t].of].tab = t /\ r \in Fin
    <3>1. at[t].of \in Starts /\ Bundled(t, f)
      BY <2>1 DEF B!TypeOK, B!Maybe, Bundled
    <3>2. step[entry[t][f]] = "left" /\ made[entry[t][f]] = [tab |-> t, flow |-> f]
      BY <3>1 DEF BundleInv
    <3>3. r \in Fin
      BY <2>1, <3>1 DEF B!Maybe
    <3> QED BY <2>1, <3>1, <3>2, <3>3
  <2>3. r.at = "sent" /\ r.tab = t /\ r.of = at[t].of /\ r.verifier = at[t].of
    BY <2>1
  <2> HIDE DEF r
  <2>4. fin' \in [Finishes -> Fin]
    BY <2>1, <2>2 DEF B!TypeOK
  <2>5. FinishInv'
    BY <1>1, <2>1, <2>2, <2>3 DEF FinishInv, Redeems, B!startVars, B!TypeOK
  <2>6. BundleInv'
    BY <1>1, <1>2, <2>1, BrowserFrame
  <2> QED BY <1>1, <1>3, <2>1, <2>4, <2>5, <2>6 DEF B!TypeOK, B!startVars, B!tabVars, B!historyVars
<1> QED BY <1>4, <1>5

\* The entry a finished call forgets is that of its own start.
LEMMA ForgetsOwn ==
  ASSUME BrowserInv, NEW x \in Finishes, Redeems(x)
  PROVE  LET o == fin[x].of
         IN  /\ o \in Starts /\ made[o] = [tab |-> fin[x].tab, flow |-> B!Flow(x)]
             /\ fin[x].tab \in Tabs /\ B!Flow(x) \in B!Protocols /\ step[o] = "left"
             /\ \A n \in Starts \ browserCrossed : made[n] = made[o] => n = o
             /\ B!Forgotten(x) \in [Tabs -> [B!Protocols -> B!Maybe]]
             /\ \A u \in Tabs, g \in B!Protocols :
                  B!Forgotten(x)[u][g] = IF u = fin[x].tab /\ g = B!Flow(x) THEN None ELSE entry[u][g]
<1> USE DEF BrowserInv
<1> DEFINE o == fin[x].of
<1>1. o \in Starts /\ fin[x].verifier = o /\ step[o] = "left" /\ made[o].tab = fin[x].tab
  BY DEF FinishInv
<1>2. made[o].tab \in Tabs /\ made[o].flow \in B!Protocols /\ made[o] = [tab |-> made[o].tab, flow |-> made[o].flow]
  BY <1>1 DEF BundleInv, B!TypeOK
<1>3. B!Flow(x) = made[o].flow
  BY <1>1 DEF B!Flow
<1>4. \A n \in Starts \ browserCrossed : made[n] = made[o] => n = o
  BY <1>1, <1>2 DEF BundleInv
<1>5. B!Forgotten(x) = [entry EXCEPT ![fin[x].tab][B!Flow(x)] = None]
  BY DEF B!Forgotten
<1>6. /\ B!Forgotten(x) \in [Tabs -> [B!Protocols -> B!Maybe]]
      /\ \A u \in Tabs, g \in B!Protocols :
           B!Forgotten(x)[u][g] = IF u = fin[x].tab /\ g = B!Flow(x) THEN None ELSE entry[u][g]
  <2> HIDE DEF o
  <2> QED BY <1>1, <1>2, <1>3, <1>5 DEF B!TypeOK, B!Maybe
<1> QED BY <1>1, <1>2, <1>3, <1>4, <1>6

\* What forgetting an entry leaves of the others.
LEMMA ForgettingKeeps ==
  ASSUME BrowserInv, NEW x \in Finishes, Redeems(x), StartsKept, UNCHANGED <<B!startVars, browserOld>>,
         entry' = B!Forgotten(x), fin[x].of \in browserCrossed' \/ browserCode'[fin[x].of] = "spent"
  PROVE  BundleInv'
<1> USE BrowserAssumption DEF BrowserInv
<1> DEFINE o == fin[x].of
<1>0. /\ o \in Starts /\ made[o] = [tab |-> fin[x].tab, flow |-> B!Flow(x)]
      /\ \A n \in Starts \ browserCrossed : made[n] = made[o] => n = o
      /\ \A u \in Tabs, g \in B!Protocols :
           entry'[u][g] = IF u = fin[x].tab /\ g = B!Flow(x) THEN None ELSE entry[u][g]
  BY ForgetsOwn
<1> HIDE DEF o
<1>1. \A u \in Tabs, g \in B!Protocols : Bundled(u, g)' =>
        /\ Bundled(u, g) /\ entry'[u][g] = entry[u][g] /\ entry[u][g] \in Starts
  BY <1>0 DEF Bundled, B!TypeOK, B!Maybe
<1>2. \A u \in Tabs, g \in B!Protocols : Bundled(u, g)' =>
        /\ step'[entry'[u][g]] = "left" /\ made'[entry'[u][g]] = [tab |-> u, flow |-> g]
        /\ browserOld'[u][g] => entry'[u][g] \in browserCrossed'
  BY <1>1 DEF BundleInv, B!startVars, StartsKept
<1>3. B!LoneStartKeepsBundle'
  <2> SUFFICES ASSUME NEW n \in Starts \ browserCrossed', step'[n] = "left", browserCode'[n] # "spent"
               PROVE  entry'[made'[n].tab][made'[n].flow] = n
    BY DEF B!LoneStartKeepsBundle
  <2>1. /\ n \notin browserCrossed /\ step[n] = "left" /\ browserCode[n] # "spent" /\ made'[n] = made[n] /\ n # o
        /\ made[n].tab \in Tabs /\ made[n].flow \in B!Protocols
    BY DEF StartsKept, B!startVars, BundleInv, o
  <2>2. entry[made[n].tab][made[n].flow] = n
    BY <2>1 DEF BundleInv, B!LoneStartKeepsBundle
  <2>3. made[n] # made[o] /\ made[n] = [tab |-> made[n].tab, flow |-> made[n].flow]
    BY <1>0, <2>1 DEF B!TypeOK
  <2>4. ~(made[n].tab = fin[x].tab /\ made[n].flow = B!Flow(x))
    BY <1>0, <2>3
  <2> QED BY <1>0, <2>1, <2>2, <2>4
<1>4. \A n \in Starts :
       /\ step'[n] \in {"hashing", "left", "asking", "asserted", "done"} => made'[n].tab \in Tabs
       /\ step'[n] = "left" => made'[n].flow \in B!Protocols
       /\ made'[n].flow \in B!Protocols /\ n \notin browserCrossed' => \A m \in Starts : made'[m] = made'[n] => m = n
  BY DEF BundleInv, B!startVars, StartsKept
<1> QED BY <1>2, <1>3, <1>4 DEF BundleInv

LEMMA EndsIsTyped ==
  ASSUME BrowserInv, NEW x \in Finishes, NEW result \in {"done", "failed"}, B!Ends(x, result)
  PROVE  /\ fin' \in [Finishes -> [at : {"idle", "sent", "granted", "done", "failed"},
                                   tab : Tabs \cup {None}, of : B!Maybe, verifier : B!Maybe]]
         /\ \A y \in Finishes \ {x} : fin'[y] = fin[y]
         /\ ~Redeems(x)'
<1> DEFINE r == [B!Idle EXCEPT !.at = result]
<1>1. /\ r \in [at : {"idle", "sent", "granted", "done", "failed"},
                tab : Tabs \cup {None}, of : B!Maybe, verifier : B!Maybe]
      /\ r.at = result
  BY DEF B!Idle, B!Maybe
<1>2. fin' = [fin EXCEPT ![x] = r]
  BY DEF B!Ends
<1> HIDE DEF r
<1> QED BY <1>1, <1>2 DEF BrowserInv, B!TypeOK, Redeems

LEMMA AnswerKeeps ==
  ASSUME BrowserInv, NEW x \in Finishes, B!Granted(x) \/ B!Failed(x) \/ B!Finish(x)
  PROVE  BrowserInv'
<1> USE BrowserAssumption DEF BrowserInv
<1> DEFINE o == fin[x].of
<1>1. Redeems(x)
  BY DEF B!Granted, B!Failed, B!Finish, Redeems
<1>2. /\ o \in Starts /\ fin[x].verifier = o /\ step[o] = "left" /\ made[o].tab = fin[x].tab
      /\ fin[x].at = "granted" => browserCode[o] = "spent"
      /\ fin[x].tab \in Tabs
      /\ B!Forgotten(x) \in [Tabs -> [B!Protocols -> B!Maybe]]
  BY <1>1, ForgetsOwn DEF FinishInv
<1>3. UNCHANGED <<B!startVars, browserOld, going, monitor, asked>>
  BY DEF B!Granted, B!Failed, B!Finish, B!storageVars, B!tabVars, B!historyVars
<1>4. /\ browserCode' \in [Starts -> {"none", "issued", "spent"}]
      /\ \A n \in Starts : browserCode[n] = "spent" => browserCode'[n] = "spent"
      /\ browserCrossed \subseteq browserCrossed' /\ browserCrossed' \subseteq Starts
  <2>1. CASE B!Granted(x)
    BY <1>2, <2>1 DEF B!Granted, B!TypeOK, B!historyVars
  <2>2. CASE B!Failed(x)
    <3>1. browserCode' = browserCode \/ browserCode' = [browserCode EXCEPT ![o] = "spent"]
      BY <2>2 DEF B!Failed
    <3>2. browserCrossed' = browserCrossed \/ browserCrossed' = browserCrossed \cup {o}
      BY <2>2 DEF B!Failed, B!Crosses
    <3> QED BY <1>2, <3>1, <3>2 DEF B!TypeOK
  <2>3. CASE B!Finish(x)
    BY <2>3 DEF B!Finish, B!TypeOK
  <2> QED BY <2>1, <2>2, <2>3
<1>5. StartsKept
  BY <1>3, <1>4 DEF StartsKept, B!startVars
<1>6. MonitorInv'
  BY <1>3, <1>5, BrowserFrame
<1>7. CASE B!Granted(x)
  <2>1. /\ fin' = [fin EXCEPT ![x].at = "granted"] /\ browserCode'[o] = "spent"
        /\ UNCHANGED <<B!storageVars, B!tabVars, B!historyVars>>
    BY <1>2, <1>7 DEF B!Granted, B!TypeOK
  <2>2. fin' \in [Finishes -> [at : {"idle", "sent", "granted", "done", "failed"},
                               tab : Tabs \cup {None}, of : B!Maybe, verifier : B!Maybe]]
    <3> DEFINE F == [at : {"idle", "sent", "granted", "done", "failed"},
                     tab : Tabs \cup {None}, of : B!Maybe, verifier : B!Maybe]
    <3>1. fin[x] \in F
      BY DEF B!TypeOK
    <3>2. [fin[x] EXCEPT !.at = "granted"] \in F
      BY <3>1
    <3> HIDE DEF F
    <3>3. fin \in [Finishes -> F] /\ fin' = [fin EXCEPT ![x] = [fin[x] EXCEPT !.at = "granted"]]
      BY <2>1 DEF B!TypeOK, F
    <3>4. fin' \in [Finishes -> F]
      BY <3>2, <3>3
    <3> QED BY <3>4 DEF F
  <2>3. FinishInv'
    BY <1>1, <1>2, <1>3, <1>4, <2>1 DEF FinishInv, Redeems, B!TypeOK, B!startVars
  <2>4. BundleInv' /\ SignedInv'
    BY <1>3, <1>5, <2>1, BrowserFrame DEF B!storageVars, B!historyVars
  <2> QED BY <1>3, <1>4, <1>6, <2>1, <2>2, <2>3, <2>4 DEF B!TypeOK, B!startVars, B!storageVars, B!tabVars, B!historyVars
<1>8. CASE B!Failed(x)
  <2>1. PICK answer \in {"refused", "limited", "lost"} :
          /\ answer = "refused" => browserCode'[o] = "spent"
          /\ entry' = IF B!RefusalForgets(B!Flow(x), IF answer = "limited" THEN "refused" ELSE answer)
                      THEN B!Forgotten(x) ELSE entry
          /\ browserCrossed' = browserCrossed \cup (IF answer = "limited" THEN {o} ELSE {})
    BY <1>8 DEF B!Failed, B!Crosses
  <2>2. entry' = entry \/ (entry' = B!Forgotten(x) /\ (o \in browserCrossed' \/ browserCode'[o] = "spent"))
    BY <2>1 DEF B!RefusalForgets
  <2>3. B!Ends(x, "failed") /\ UNCHANGED <<returnTo, identity, B!tabVars, signedIn>>
    BY <1>8 DEF B!Failed
  <2>4. /\ fin' \in [Finishes -> [at : {"idle", "sent", "granted", "done", "failed"},
                                  tab : Tabs \cup {None}, of : B!Maybe, verifier : B!Maybe]]
        /\ FinishInv'
    BY <1>3, <1>4, <2>3, EndsIsTyped DEF FinishInv, Redeems, B!startVars
  <2>5. BundleInv' /\ SignedInv'
    BY <1>1, <1>3, <1>5, <2>2, <2>3, BrowserFrame, ForgettingKeeps
  <2>6. entry' \in [Tabs -> [B!Protocols -> B!Maybe]]
    BY <1>2, <2>2 DEF B!TypeOK
  <2> QED BY <1>3, <1>4, <1>6, <2>3, <2>4, <2>5, <2>6 DEF B!TypeOK, B!startVars, B!tabVars
<1>9. CASE B!Finish(x)
  <2> DEFINE t == fin[x].tab
  <2>1. /\ fin[x].at = "granted" /\ entry' = B!Forgotten(x) /\ B!Ends(x, "done") /\ browserCode' = browserCode
        /\ signedIn' = signedIn \/ signedIn' = [signedIn EXCEPT ![t] = @ \cup {o}]
        /\ identity' \in {identity, o}
        /\ returnTo' = returnTo \/ returnTo' = [returnTo EXCEPT ![t] = None]
        /\ at' = at \/ at' = [at EXCEPT ![t] = [page |-> "app", of |-> None]]
    BY <1>9 DEF B!Finish, B!VerifyReturnedTokens
  <2>2. /\ fin' \in [Finishes -> [at : {"idle", "sent", "granted", "done", "failed"},
                                  tab : Tabs \cup {None}, of : B!Maybe, verifier : B!Maybe]]
        /\ FinishInv'
    BY <1>3, <1>4, <2>1, EndsIsTyped DEF FinishInv, Redeems, B!startVars
  <2>3. BundleInv'
    BY <1>1, <1>2, <1>3, <1>5, <2>1, ForgettingKeeps
  <2>4. SignedInv'
    BY <1>2, <1>3, <2>1 DEF SignedInv, B!TypeOK, B!startVars
  <2>5. signedIn' \in [Tabs -> SUBSET Starts] /\ identity' \in B!Maybe
    <3>1. CASE signedIn' = signedIn
      BY <1>2, <2>1, <3>1 DEF B!TypeOK, B!Maybe
    <3>2. CASE signedIn' = [signedIn EXCEPT ![t] = @ \cup {o}]
      <4>1. signedIn' \in [Tabs -> SUBSET Starts]
        BY <1>2, <3>2 DEF B!TypeOK
      <4>2. identity' \in B!Maybe
        BY <1>2, <2>1 DEF B!TypeOK, B!Maybe
      <4> QED BY <4>1, <4>2
    <3> QED BY <2>1, <3>1, <3>2
  <2>6. returnTo' \in [Tabs -> B!Maybe]
    BY <2>1 DEF B!TypeOK, B!Maybe
  <2>7. at' \in [Tabs -> [page : {"app", "ave", "callback"}, of : B!Maybe]]
    <3>1. [page |-> "app", of |-> None] \in [page : {"app", "ave", "callback"}, of : B!Maybe]
      BY DEF B!Maybe
    <3> QED BY <2>1, <3>1 DEF B!TypeOK
  <2> QED BY <1>2, <1>3, <1>4, <1>6, <2>1, <2>2, <2>3, <2>4, <2>5, <2>6, <2>7 DEF B!TypeOK, B!startVars
<1> QED BY <1>7, <1>8, <1>9

-----------------------------------------------------------------------------
LEMMA FedCmKeeps ==
  ASSUME BrowserInv, NEW n \in Starts,
         B!Asserted(n) \/ B!ExchangeAssertion(n) \/ \E t \in Tabs : B!AskBrowser(n, t)
  PROVE  BrowserInv'
<1> USE BrowserAssumption DEF BrowserInv
<1>1. UNCHANGED <<B!storageVars, B!tabVars, browserCode, fin, monitor, asked, browserCrossed>>
  BY DEF B!Asserted, B!ExchangeAssertion, B!AskBrowser, B!historyVars
<1> DEFINE Steps == {"idle", "hashing", "left", "asking", "asserted", "done", "failed"}
           BrowserMade == [tab : Tabs \cup {None}, flow : B!Protocols \cup {"fedcm", None}]
<1>2. /\ step[n] \in {"idle", "asking", "asserted"} /\ step'[n] \in {"asking", "asserted", "done", "failed"}
      /\ step' \in [Starts -> Steps] /\ made' \in [Starts -> BrowserMade]
      /\ \A m \in Starts \ {n} : step'[m] = step[m] /\ made'[m] = made[m]
      /\ step[n] # "idle" => made' = made
      /\ step[n] = "idle" => made'[n].flow = "fedcm" /\ made'[n].tab \in Tabs
  <2>1. step \in [Starts -> Steps] /\ made \in [Starts -> BrowserMade]
    BY DEF B!TypeOK
  <2>2. CASE B!Asserted(n) \/ B!ExchangeAssertion(n)
    <3>1. PICK r \in {"asserted", "done", "failed"} : step' = [step EXCEPT ![n] = r]
      BY <2>2 DEF B!Asserted, B!ExchangeAssertion
    <3>2. step[n] \in {"asking", "asserted"} /\ made' = made
      BY <2>2 DEF B!Asserted, B!ExchangeAssertion
    <3> QED BY <2>1, <3>1, <3>2
  <2>3. ASSUME NEW t \in Tabs, B!AskBrowser(n, t)
        PROVE  /\ step[n] = "idle" /\ step' = [step EXCEPT ![n] = "asking"]
               /\ made' = [made EXCEPT ![n] = [tab |-> t, flow |-> "fedcm"]]
    BY <2>3 DEF B!AskBrowser
  <2>4. CASE \E t \in Tabs : B!AskBrowser(n, t)
    <3>1. PICK t \in Tabs : B!AskBrowser(n, t)
      BY <2>4
    <3>2. PICK r \in BrowserMade : r = [tab |-> t, flow |-> "fedcm"]
      OBVIOUS
    <3>3. r.tab = t /\ r.flow = "fedcm"
      BY <3>2
    <3> HIDE DEF BrowserMade
    <3>4. step[n] = "idle" /\ step' = [step EXCEPT ![n] = "asking"] /\ made' = [made EXCEPT ![n] = r]
      BY <2>3, <3>1, <3>2
    <3>5. made' \in [Starts -> BrowserMade] /\ made'[n] = r /\ \A m \in Starts \ {n} : made'[m] = made[m]
      BY <2>1, <3>4
    <3>6. step' \in [Starts -> Steps] /\ step'[n] = "asking" /\ \A m \in Starts \ {n} : step'[m] = step[m]
      BY <2>1, <3>4
    <3> QED BY <3>3, <3>4, <3>5, <3>6
  <2> QED BY <2>2, <2>4
<1>3. StartsKept
  BY <1>1, <1>2 DEF StartsKept
<1>4. FinishInv' /\ MonitorInv'
  BY <1>1, <1>3, BrowserFrame
<1>5. /\ signedIn' \in [Tabs -> SUBSET Starts] /\ SignedInv'
  <2>1. CASE signedIn' = signedIn
    BY <1>3, <2>1, BrowserFrame DEF B!TypeOK
  <2>2. CASE /\ step[n] = "asserted" /\ step'[n] = "done"
             /\ signedIn' = [signedIn EXCEPT ![made[n].tab] = @ \cup {n}]
    <3>1. made[n].tab \in Tabs /\ made' = made
      BY <1>2, <2>2 DEF BundleInv
    <3> QED BY <1>2, <2>2, <3>1 DEF SignedInv, B!TypeOK
  <2> QED BY <2>1, <2>2 DEF B!Asserted, B!ExchangeAssertion, B!AskBrowser, B!historyVars, B!TypeOK
<1>6. BundleInv'
  <2>1. \A u \in Tabs, g \in B!Protocols : Bundled(u, g) => entry[u][g] \in Starts \ {n}
    <3> SUFFICES ASSUME NEW u \in Tabs, NEW g \in B!Protocols, Bundled(u, g)
                 PROVE  entry[u][g] \in Starts \ {n}
      OBVIOUS
    <3>1. entry[u][g] \in Starts
      BY DEF Bundled, B!TypeOK, B!Maybe
    <3>2. step[entry[u][g]] = "left"
      BY <3>1 DEF BundleInv
    <3> QED BY <1>2, <3>1, <3>2
  <2>2. \A u \in Tabs, g \in B!Protocols : Bundled(u, g)' =>
          /\ step'[entry'[u][g]] = "left" /\ made'[entry'[u][g]] = [tab |-> u, flow |-> g]
          /\ browserOld'[u][g] => entry'[u][g] \in browserCrossed'
    BY <1>1, <1>2, <2>1 DEF BundleInv, Bundled, B!storageVars
  <2>3. ASSUME NEW m \in Starts
        PROVE  /\ step'[m] \in {"hashing", "left", "asking", "asserted", "done"} => made'[m].tab \in Tabs
               /\ step'[m] = "left" => made'[m].flow \in B!Protocols
    <3>1. CASE m = n
      <4>1. made'[n].tab \in Tabs
        BY <1>2 DEF BundleInv
      <4> QED BY <1>2, <3>1, <4>1
    <3>2. CASE m # n
      BY <1>2, <3>2 DEF BundleInv
    <3> QED BY <3>1, <3>2
  <2>4. ASSUME NEW m \in Starts, NEW k \in Starts, made'[m].flow \in B!Protocols, m \notin browserCrossed', made'[k] = made'[m]
        PROVE  k = m
    <3>1. "fedcm" \notin B!Protocols
      BY DEF B!Protocols
    <3>2. made[m] = made'[m] /\ made[k] = made'[k]
      BY <1>2, <2>4, <3>1
    <3> QED BY <1>1, <2>4, <3>2 DEF BundleInv
  <2>5. B!LoneStartKeepsBundle'
    BY <1>1, <1>2 DEF BundleInv, B!LoneStartKeepsBundle, B!storageVars
  <2> QED BY <2>2, <2>3, <2>4, <2>5 DEF BundleInv
<1> QED BY <1>1, <1>2, <1>4, <1>5, <1>6 DEF B!TypeOK, B!storageVars, B!tabVars

LEMMA AgeKeeps ==
  ASSUME BrowserInv, NEW t \in Tabs, NEW f \in B!Protocols, B!Age(t, f)
  PROVE  BrowserInv'
<1> USE BrowserAssumption DEF BrowserInv
<1>1. /\ entry[t][f] \in Starts /\ browserOld' = [browserOld EXCEPT ![t][f] = TRUE] /\ browserCrossed' = browserCrossed \cup {entry[t][f]}
      /\ UNCHANGED <<B!startVars, entry, returnTo, identity, B!tabVars, browserCode, fin, monitor, signedIn, asked>>
  BY DEF B!Age, B!Crosses, B!TypeOK, B!Maybe
<1>2. StartsKept
  BY <1>1 DEF StartsKept, B!startVars
<1>3. browserOld' \in [Tabs -> [B!Protocols -> BOOLEAN]] /\ browserCrossed' \subseteq Starts
  BY <1>1 DEF B!TypeOK
<1>4. BundleInv'
  <2>1. \A u \in Tabs, g \in B!Protocols : browserOld'[u][g] => browserOld[u][g] \/ (u = t /\ g = f)
    BY <1>1 DEF B!TypeOK
  <2>2. \A u \in Tabs, g \in B!Protocols : Bundled(u, g)' =>
          /\ step'[entry'[u][g]] = "left" /\ made'[entry'[u][g]] = [tab |-> u, flow |-> g]
          /\ browserOld'[u][g] => entry'[u][g] \in browserCrossed'
    BY <1>1, <2>1 DEF BundleInv, Bundled, B!startVars
  <2> QED BY <1>1, <2>2 DEF BundleInv, B!LoneStartKeepsBundle, B!startVars
<1>5. FinishInv' /\ SignedInv' /\ MonitorInv'
  BY <1>1, <1>2, BrowserFrame
<1> QED BY <1>1, <1>3, <1>4, <1>5 DEF B!TypeOK, B!startVars, B!tabVars

LEMMA MonitorKeeps ==
  ASSUME BrowserInv,
         \E t \in Tabs : B!StartMonitor(t) \/ B!RunCheck(t) \/ B!Checked(t) \/ B!StopMonitor(t)
  PROVE  BrowserInv'
<1> USE DEF BrowserInv
<1> PICK t \in Tabs : B!StartMonitor(t) \/ B!RunCheck(t) \/ B!Checked(t) \/ B!StopMonitor(t)
  OBVIOUS
<1>1. UNCHANGED <<B!startVars, B!storageVars, B!tabVars, browserCode, fin, signedIn, browserCrossed>>
  BY DEF B!StartMonitor, B!RunCheck, B!Checked, B!StopMonitor, B!historyVars
<1>2. StartsKept
  BY <1>1 DEF StartsKept, B!startVars
<1>3. BundleInv' /\ FinishInv' /\ SignedInv'
  BY <1>1, <1>2, BrowserFrame DEF B!storageVars
<1>4. PICK m \in [run : {"off", "on", "stopped"}, checks : 0..1] :
        /\ monitor' = [monitor EXCEPT ![t] = m]
        /\ \/ /\ asked' = [asked EXCEPT ![t] = 1] /\ m.run = "stopped" /\ m.checks = 0
           \/ /\ asked' = asked
              /\ m.run = "on" \/ m.checks > 0 => asked[t] = 0
  <2> DEFINE R == [run : {"off", "on", "stopped"}, checks : 0..1]
             on == [monitor[t] EXCEPT !.run = "on"]
             off == [monitor[t] EXCEPT !.run = "stopped"]
             more == [monitor[t] EXCEPT !.checks = @ + 1]
             less == [monitor[t] EXCEPT !.checks = @ - 1]
             gone == [run |-> "stopped", checks |-> monitor[t].checks - 1]
  <2>1. monitor[t] \in R /\ asked[t] \in 0..1 /\ monitor[t].checks \in 0..1
    BY DEF MonitorInv, B!TypeOK
  <2>2. on \in R /\ off \in R /\ on.run = "on" /\ off.checks = monitor[t].checks
    BY <2>1
  <2>3. monitor[t].checks > 0 => gone \in R /\ gone.checks = 0 /\ less \in R /\ less.checks = 0 /\ less.run = monitor[t].run
    BY <2>1
  <2>4. monitor[t].checks = 0 => more \in R
    BY <2>1
  <2>5. monitor[t].run = "on" \/ monitor[t].checks > 0 => asked[t] = 0
    BY DEF MonitorInv
  <2>6. CASE B!StartMonitor(t)
    <3>1. monitor' = [monitor EXCEPT ![t] = on] /\ asked' = asked /\ asked[t] = 0
      BY <2>6 DEF B!StartMonitor, B!historyVars
    <3> QED BY <2>2, <3>1
  <2>7. CASE B!RunCheck(t)
    <3>1. monitor' = [monitor EXCEPT ![t] = more] /\ asked' = asked /\ monitor[t].run = "on" /\ monitor[t].checks = 0
      BY <2>7 DEF B!RunCheck, B!Ticks, B!historyVars
    <3> QED BY <2>4, <2>5, <3>1
  <2>8. CASE B!Checked(t)
    <3>1. monitor[t].checks > 0 /\ asked[t] = 0
      BY <2>5, <2>8 DEF B!Checked
    <3>2. \/ monitor' = [monitor EXCEPT ![t] = gone] /\ asked' = [asked EXCEPT ![t] = 1]
          \/ monitor' = [monitor EXCEPT ![t] = less] /\ asked' = asked
      BY <2>8, <3>1 DEF B!Checked
    <3> QED BY <2>3, <3>1, <3>2
  <2>9. CASE B!StopMonitor(t)
    <3>1. monitor' = [monitor EXCEPT ![t] = off] /\ asked' = asked /\ monitor[t].run = "on"
      BY <2>9 DEF B!StopMonitor, B!historyVars
    <3> QED BY <2>2, <2>5, <3>1
  <2> QED BY <2>6, <2>7, <2>8, <2>9
<1>5. MonitorInv'
  BY <1>4 DEF MonitorInv, B!TypeOK
<1>6. monitor' \in [Tabs -> [run : {"off", "on", "stopped"}, checks : 0..2]] /\ asked' \in [Tabs -> 0..2]
  BY <1>4 DEF B!TypeOK
<1> QED BY <1>1, <1>3, <1>5, <1>6 DEF B!TypeOK, B!startVars, B!storageVars, B!tabVars

-----------------------------------------------------------------------------
LEMMA BrowserNext == BrowserInv /\ [B!Next]_(B!vars) => BrowserInv'
<1> SUFFICES ASSUME BrowserInv, [B!Next]_(B!vars) PROVE BrowserInv'
  OBVIOUS
<1>1. CASE UNCHANGED B!vars \/ B!Forget
  <2>1. /\ UNCHANGED <<B!startVars, entry, browserOld, returnTo, B!tabVars, browserCode, fin, monitor, B!historyVars>>
        /\ identity' \in B!Maybe
    BY <1>1 DEF B!vars, B!storageVars, B!Forget, BrowserInv, B!TypeOK, B!Maybe
  <2>2. StartsKept
    BY <2>1 DEF StartsKept, B!startVars, B!historyVars
  <2>3. BundleInv' /\ FinishInv' /\ SignedInv' /\ MonitorInv'
    BY <2>1, <2>2, BrowserFrame DEF B!historyVars
  <2> QED BY <2>1, <2>3 DEF BrowserInv, B!TypeOK, B!startVars, B!tabVars, B!historyVars
<1>2. CASE B!Next
  BY <1>1, <1>2, StartKeeps, StoreKeeps, UnloadKeeps, ComeBackKeeps, ReadKeeps, AnswerKeeps, FedCmKeeps, AgeKeeps,
     MonitorKeeps DEF B!Next
<1> QED BY <1>1, <1>2

\* A bundle lies where its start was made, what is exchanged was made in its
\* tab, and a monitor has one check in flight: in every interleaving.
THEOREM BrowserInvariance == B!Spec => []BrowserInv
BY BrowserInit, BrowserNext, PTL DEF B!Spec

\* A code goes to the server with its own verifier, and a tab is signed in by
\* its own starts.
THEOREM OwnVerifiers == B!Spec => []B!OwnVerifier
<1>1. BrowserInv => B!OwnVerifier
  BY DEF BrowserInv, FinishInv, Redeems, SignedInv, B!OwnVerifier
<1> QED BY <1>1, BrowserInvariance, PTL

\* A start that is alone in its tab's entry keeps its bundle.
THEOREM LoneStartsKeepBundles == B!Spec => []B!LoneStartKeepsBundle
<1>1. BrowserInv => B!LoneStartKeepsBundle
  BY DEF BrowserInv, BundleInv
<1> QED BY <1>1, BrowserInvariance, PTL

\* A monitor calls the application once.
THEOREM MonitorsAskOnce == B!Spec => []B!MonitorAsksOnce
<1>1. BrowserInv => B!MonitorAsksOnce
  BY DEF BrowserInv, MonitorInv, B!MonitorAsksOnce
<1> QED BY <1>1, BrowserInvariance, PTL

-----------------------------------------------------------------------------
(* The parts side by side (MCAccess).                                      *)

\* A behavior is one of the part that its first state chooses, and the
\* authorizations rest in it when they are not chosen.
LEMMA AuthorizationsRun == MCSpec => Spec
<1>1. MCInit => Init
  BY DEF MCInit
<1>2. [MCNext]_mcVars => [Next]_vars
  BY DEF MCNext, mcVars
<1> QED BY <1>1, <1>2, PTL DEF MCSpec, Spec

LEMMA ConnectorsRun == MCSpec => (C!Spec /\ [](part = "connection")) \/ [](~(part = "connection"))
<1>1. MCInit /\ part = "connection" => C!Init
  BY DEF MCInit
<1>2. part = "connection" /\ [MCNext]_mcVars => (part = "connection")' /\ [C!Next]_(C!vars)
  BY DEF MCNext, mcVars, connectorVars, C!vars, C!gVars, C!connectVars, C!exchangeVars, C!historyVars
<1>3. ~(part = "connection") /\ [MCNext]_mcVars => ~((part = "connection")')
  BY DEF MCNext, mcVars
<1> QED BY <1>1, <1>2, <1>3, PTL DEF MCSpec, C!Spec

LEMMA SsoRun == MCSpec => (S!Spec /\ [](part = "enterprise")) \/ [](~(part = "enterprise"))
<1>1. MCInit /\ part = "enterprise" => S!Init
  BY DEF MCInit
<1>2. part = "enterprise" /\ [MCNext]_mcVars => (part = "enterprise")' /\ [S!Next]_(S!vars)
  BY DEF MCNext, mcVars, ssoVars, S!vars, S!recordVars, S!verifyVars, S!updateVars, S!patchVars, S!loginVars, S!accountVars,
         S!historyVars
<1>3. ~(part = "enterprise") /\ [MCNext]_mcVars => ~((part = "enterprise")')
  BY DEF MCNext, mcVars
<1> QED BY <1>1, <1>2, <1>3, PTL DEF MCSpec, S!Spec

LEMMA HostRun == MCSpec => (H!Spec /\ [](part = "host")) \/ [](~(part = "host"))
<1>1. MCInit /\ part = "host" => H!Init
  BY DEF MCInit
<1>2. part = "host" /\ [MCNext]_mcVars => (part = "host")' /\ [H!Next]_(H!vars)
  BY DEF MCNext, mcVars, hostPageVars, H!vars, H!hostVars, H!pageVars, H!serverVars, H!historyVars
<1>3. ~(part = "host") /\ [MCNext]_mcVars => ~((part = "host")')
  BY DEF MCNext, mcVars
<1> QED BY <1>1, <1>2, <1>3, PTL DEF MCSpec, H!Spec

LEMMA BrowserRun == MCSpec => (B!Spec /\ [](part = "browser")) \/ [](~(part = "browser"))
<1>1. MCInit /\ part = "browser" => B!Init
  BY DEF MCInit
<1>2. part = "browser" /\ [MCNext]_mcVars => (part = "browser")' /\ [B!Next]_(B!vars)
  BY DEF MCNext, mcVars, browserVars, B!vars, B!storageVars, B!tabVars, B!startVars, B!historyVars
<1>3. ~(part = "browser") /\ [MCNext]_mcVars => ~((part = "browser")')
  BY DEF MCNext, mcVars
<1> QED BY <1>1, <1>2, <1>3, PTL DEF MCSpec, B!Spec

\* Every part keeps to the types of its tables, pages and handlers.
THEOREM AccessTypes == MCSpec => []TypesOK
<1>1. MCSpec => []TypeOK
  BY AuthorizationsRun, TypeCorrect, PTL
<1>2. MCSpec => [](part = "connection" => C!TypeOK)
  <2>1. ConnectorInv => C!TypeOK
    BY DEF ConnectorInv
  <2> QED BY <2>1, ConnectorsRun, ConnectorInvariance, PTL
<1>3. MCSpec => [](part = "enterprise" => S!TypeOK)
  <2>1. SsoInv => S!TypeOK
    BY DEF SsoInv
  <2> QED BY <2>1, SsoRun, SsoInvariance, PTL
<1>4. MCSpec => [](part = "host" => H!TypeOK)
  <2>1. HostInv => H!TypeOK
    BY DEF HostInv
  <2> QED BY <2>1, HostRun, HostInvariance, PTL
<1>5. MCSpec => [](part = "browser" => B!TypeOK)
  <2>1. BrowserInv => B!TypeOK
    BY DEF BrowserInv
  <2> QED BY <2>1, BrowserRun, BrowserInvariance, PTL
<1>6. /\ TypeOK
      /\ (part = "connection" => C!TypeOK)
      /\ (part = "enterprise" => S!TypeOK)
      /\ (part = "host" => H!TypeOK)
      /\ (part = "browser" => B!TypeOK)
      => TypesOK
  BY DEF TypesOK
<1> QED BY <1>1, <1>2, <1>3, <1>4, <1>5, <1>6, PTL

\* A delegated token names no scope beyond what was connected on its grant,
\* however connecting, exchanging and revoking overlap (exchangeConnectorToken).
THEOREM DelegatedAlwaysWithinConsent == MCSpec => []DelegatedWithinConsent
<1>1. MCSpec => [](part = "connection" => C!DelegatedWithinConsent)
  BY ConnectorsRun, DelegatedAsConsented, PTL
<1>2. (part = "connection" => C!DelegatedWithinConsent) => DelegatedWithinConsent
  BY DEF DelegatedWithinConsent
<1> QED BY <1>1, <1>2, PTL

\* Who a provider has signed in came by a tested connection, to an account that
\* is there and, by a connection of a domain, from one that was proved: whatever
\* is edited, tested and verified meanwhile (resolveEnterpriseIdentity).
THEOREM SsoLoginsAreGrounded == MCSpec => []SsoLoginGrounded
<1>1. MCSpec => [](part = "enterprise" => S!SsoLoginGrounded)
  BY SsoRun, SsoLoginIsGrounded, PTL
<1>2. (part = "enterprise" => S!SsoLoginGrounded) => SsoLoginGrounded
  BY DEF SsoLoginGrounded
<1> QED BY <1>1, <1>2, PTL

\* An application that opened a surface of Ave hears of it: until it has been
\* told, something that tells it is under way (embed.js).
THEOREM SomebodyIsAlwaysTold == MCSpec => []SomebodyIsTold
<1>1. MCSpec => [](part = "host" => H!SomebodyIsTold)
  BY HostRun, SomebodyIsToldAlways, PTL
<1>2. (part = "host" => H!SomebodyIsTold) => SomebodyIsTold
  BY DEF SomebodyIsTold
<1> QED BY <1>1, <1>2, PTL

\* The SDKs of the browser call the application back once, with its own answer
\* (embed.js, client.ts).
THEOREM CalledBackOnlyOnce == MCSpec => []CalledBackOnce
<1>1. MCSpec => [](part = "host" => H!OneOwnAnswer)
  BY HostRun, OneOwnAnswers, PTL
<1>2. MCSpec => [](part = "browser" => B!MonitorAsksOnce)
  BY BrowserRun, MonitorsAskOnce, PTL
<1>3. MCSpec => [](part = "browser" => B!OwnVerifier)
  BY BrowserRun, OwnVerifiers, PTL
<1>4. /\ (part = "host" => H!OneOwnAnswer)
      /\ (part = "browser" => B!MonitorAsksOnce)
      /\ (part = "browser" => B!OwnVerifier)
      => CalledBackOnce
  BY DEF CalledBackOnce
<1> QED BY <1>1, <1>2, <1>3, <1>4, PTL

\* What nobody overlapped stands: a connection, the domains and accounts of an
\* organization, the bundle of a start in its tab.
THEOREM LoneRequestsAreKept == MCSpec => []LoneRequestsKeep
<1>1. MCSpec => [](part = "connection" => C!LoneConnectionStands)
  BY ConnectorsRun, LoneConnectionsStand, PTL
<1>2. MCSpec => [](part = "enterprise" => S!LoneRequestsKeep)
  BY SsoRun, LoneSsoRequestsKeep, PTL
<1>3. MCSpec => [](part = "browser" => B!LoneStartKeepsBundle)
  BY BrowserRun, LoneStartsKeepBundles, PTL
<1>4. /\ (part = "connection" => C!LoneConnectionStands)
      /\ (part = "enterprise" => S!LoneRequestsKeep)
      /\ (part = "browser" => B!LoneStartKeepsBundle)
      => LoneRequestsKeep
  BY DEF LoneRequestsKeep
<1> QED BY <1>1, <1>2, <1>3, <1>4, PTL
=============================================================================
