---------------------- MODULE SignatureRequestsProofs ----------------------
(***************************************************************************)
(* What SignatureRequests guarantees for every set of requests, keys and   *)
(* handlers.  The invariant says what a handler knows between its read and *)
(* its write: the request it decides on exists, is not being decided by    *)
(* others once it is resolved unless it is contested, and the key of its   *)
(* signature was the identity's while the request was pending.             *)
(***************************************************************************)
EXTENDS SignatureRequests, TLAPS

USE KeyAssumption DEF Open, Verifies, StatusAfter

Terminated(q) == status[q] \in Terminal

DecisionInv ==
  /\ \A h \in Handlers :
       /\ pc[h] \in Deciding => req[h] \in Requests /\ status[req[h]] # "absent"
       /\ pc[h] = "sign" => arg[h] \in current[req[h]]
       /\ pc[h] \notin Deciding \cup {"idle"} => arg[h] \in Keys
  /\ \A q \in Requests :
       /\ status[q] \in {"absent", "pending"} => signature[q] = None
       /\ status[q] = "pending" => {key} \cap Keys \subseteq current[q]
       /\ Terminated(q) /\ DecidingOn(q) # {} => q \in contested
  /\ SignatureMatchesStatus
  /\ SignedWithKeyOfItsTime

IInv == TypeOK /\ DecisionInv

LEMMA InitInv == Init => IInv
BY DEF Init, IInv, TypeOK, DecisionInv, Terminated, Terminal, DecidingOn, Deciding,
       SignatureMatchesStatus, SignedWithKeyOfItsTime, Statuses, PCs

\* What a handler that stops leaves behind.
LEMMA FinishEffect ==
  ASSUME TypeOK, NEW h \in Handlers, Finish(h)
  PROVE  /\ pc' \in [Handlers -> PCs]
         /\ req' \in [Handlers -> Requests \cup {None}]
         /\ arg' \in [Handlers -> Keys \cup {None}]
         /\ pc'[h] = "idle"
         /\ \A g \in Handlers \ {h} :
              pc'[g] = pc[g] /\ req'[g] = req[g] /\ arg'[g] = arg[g]
         /\ \A q \in Requests : DecidingOn(q)' = DecidingOn(q) \ {h}
BY DEF TypeOK, Finish, PCs, DecidingOn, Deciding

\* And one that starts.
LEMMA StartEffect ==
  ASSUME TypeOK, NEW h \in Handlers, NEW op \in PCs, NEW q \in Requests \cup {None},
         NEW k \in Keys \cup {None}, Start(h, op, q, k)
  PROVE  /\ pc' \in [Handlers -> PCs]
         /\ req' \in [Handlers -> Requests \cup {None}]
         /\ arg' \in [Handlers -> Keys \cup {None}]
         /\ pc'[h] = op /\ req'[h] = q /\ arg'[h] = k
         /\ \A g \in Handlers \ {h} :
              pc'[g] = pc[g] /\ req'[g] = req[g] /\ arg'[g] = arg[g]
         /\ \A p \in Requests : p # q \/ op \notin Deciding => DecidingOn(p)' = DecidingOn(p)
BY DEF TypeOK, Start, PCs, DecidingOn, Deciding

LEMMA ResolveStep ==
  ASSUME IInv, NEW h \in Handlers, Sign(h) \/ Deny(h) \/ MarkExpired(h)
  PROVE  IInv'
<1>1. PICK op \in Deciding :
        /\ Resolve(h, op)
        /\ IF op = "sign" THEN signature' = [signature EXCEPT ![req[h]] = arg[h]]
                          ELSE UNCHANGED signature
  BY DEF Sign, Deny, MarkExpired, Deciding
<1>2. /\ pc[h] = op /\ Finish(h) /\ h \in DecidingOn(req[h]) /\ req[h] \in Requests
      /\ status' = [status EXCEPT ![req[h]] = StatusAfter(op)]
      /\ contested' = contested \cup {q \in {req[h]} : DecidingOn(q) # {h}}
      /\ UNCHANGED <<overdue, key, firstRow, generated, current, lostKey>>
  BY <1>1 DEF Resolve, keyVars, IInv, DecisionInv, DecidingOn
<1>3. StatusAfter(op) \in Terminal /\ (StatusAfter(op) = "signed" <=> op = "sign")
  BY <1>1 DEF Deciding, Terminal
<1>4. op = "sign" => arg[h] \in Keys /\ arg[h] \in current[req[h]]
  BY <1>2 DEF IInv, DecisionInv, TypeOK, PCs
<1>5. TypeOK'
  BY <1>1, <1>2, <1>3, <1>4, FinishEffect DEF IInv, TypeOK, Terminal, Statuses
<1>6. \A g \in Handlers :
        /\ pc'[g] \in Deciding => req'[g] \in Requests /\ status'[req'[g]] # "absent"
        /\ pc'[g] = "sign" => arg'[g] \in current'[req'[g]]
        /\ pc'[g] \notin Deciding \cup {"idle"} => arg'[g] \in Keys
  BY <1>2, <1>3, FinishEffect DEF IInv, DecisionInv, TypeOK, Terminal, Deciding
<1>7. \A q \in Requests : Terminated(q)' /\ DecidingOn(q)' # {} => q \in contested'
  BY <1>2, <1>3, FinishEffect DEF IInv, DecisionInv, TypeOK, Terminated, Terminal
<1>8. \A q \in Requests :
        /\ status'[q] \in {"absent", "pending"} => signature'[q] = None
        /\ status'[q] = "pending" => {key'} \cap Keys \subseteq current'[q]
  <2>1. \A q \in Requests : status'[q] \in {"absent", "pending"} =>
          q # req[h] /\ status'[q] = status[q] /\ signature'[q] = signature[q]
    BY <1>1, <1>2, <1>3 DEF IInv, TypeOK, Terminal
  <2> QED BY <2>1, <1>2 DEF IInv, DecisionInv
<1>9. SignatureMatchesStatus'
  <2> SUFFICES ASSUME NEW q \in Requests
               PROVE  /\ status'[q] = "signed" => signature'[q] # None
                      /\ signature'[q] # None /\ status'[q] # "signed" => q \in contested'
    BY DEF SignatureMatchesStatus
  <2>1. CASE q # req[h]
    BY <2>1, <1>1, <1>2 DEF IInv, DecisionInv, SignatureMatchesStatus, TypeOK
  <2>2. CASE q = req[h] /\ op = "sign"
    BY <2>2, <1>1, <1>2, <1>3, <1>4 DEF IInv, TypeOK
  <2>3. CASE q = req[h] /\ op # "sign"
    <3>1. signature'[q] = signature[q] /\ status'[q] # "signed"
      BY <2>3, <1>1, <1>2, <1>3 DEF IInv, TypeOK
    <3>2. signature[q] # None => Terminated(q)
      BY DEF IInv, DecisionInv, TypeOK, Statuses, Terminated, Terminal
    <3>3. signature[q] # None => q \in contested
      BY <2>3, <3>2, <1>2 DEF IInv, DecisionInv
    <3> QED BY <3>1, <3>3, <1>2
  <2> QED BY <2>1, <2>2, <2>3
<1>10. SignedWithKeyOfItsTime'
  BY <1>1, <1>2, <1>4 DEF IInv, DecisionInv, SignedWithKeyOfItsTime, TypeOK
<1> QED
  BY <1>5, <1>6, <1>7, <1>8, <1>9, <1>10 DEF IInv, DecisionInv

\* A step of the key table: the requests stay, and a pending request
\* remembers a key that is registered.
LEMMA KeyStep ==
  ASSUME IInv, NEW h \in Handlers,
         ReplaceKey(h) \/ AddKey(h) \/ DeleteKey(h) \/ InsertKey(h)
  PROVE  IInv'
<1> USE DEF requestVars, keyVars, handlerVars, historyVars
<1>1. /\ UNCHANGED <<status, signature, overdue, generated, lostKey, contested>>
      /\ arg[h] \in Keys /\ pc[h] \notin Deciding
  BY DEF ReplaceKey, AddKey, DeleteKey, InsertKey, IInv, DecisionInv, Deciding
<1>2. \/ key' = None /\ UNCHANGED current
      \/ UNCHANGED <<key, current>>
      \/ key' = arg[h] /\ Remember(arg[h])
  BY DEF ReplaceKey, AddKey, DeleteKey, InsertKey, InsertRow
<1>3. /\ pc' \in [Handlers -> PCs]
      /\ req' \in [Handlers -> Requests \cup {None}]
      /\ arg' \in [Handlers -> Keys \cup {None}]
      /\ pc'[h] \notin Deciding /\ (pc'[h] # "idle" => arg'[h] = arg[h])
      /\ \A g \in Handlers \ {h} : pc'[g] = pc[g] /\ req'[g] = req[g] /\ arg'[g] = arg[g]
      /\ firstRow' \in BOOLEAN
  <2>1. CASE DeleteKey(h)
    BY <2>1 DEF DeleteKey, IInv, TypeOK, PCs, Deciding
  <2>2. CASE ReplaceKey(h) \/ AddKey(h) \/ InsertKey(h)
    BY <2>2, FinishEffect DEF ReplaceKey, AddKey, InsertKey, IInv, TypeOK, Deciding
  <2> QED BY <2>1, <2>2
<1>4. /\ current' \in [Requests -> SUBSET Keys]
      /\ \A q \in Requests : current[q] \subseteq current'[q]
      /\ \A q \in Requests : status[q] = "pending" => {key'} \cap Keys \subseteq current'[q]
      /\ key' \in Keys \cup {LegacyKey, None}
  BY <1>1, <1>2 DEF Remember, IInv, TypeOK, DecisionInv
<1>5. TypeOK'
  BY <1>1, <1>3, <1>4 DEF IInv, TypeOK
<1>6. \A q \in Requests : DecidingOn(q)' = DecidingOn(q)
  BY <1>1, <1>3 DEF DecidingOn
<1>7. \A g \in Handlers :
        /\ pc'[g] \in Deciding => req'[g] \in Requests /\ status'[req'[g]] # "absent"
        /\ pc'[g] = "sign" => arg'[g] \in current'[req'[g]]
        /\ pc'[g] \notin Deciding \cup {"idle"} => arg'[g] \in Keys
  BY <1>1, <1>3, <1>4 DEF IInv, DecisionInv, Deciding
<1> QED
  BY <1>1, <1>4, <1>5, <1>6, <1>7
  DEF IInv, DecisionInv, Terminated, SignatureMatchesStatus, SignedWithKeyOfItsTime

LEMMA NextInv == IInv /\ [Next]_vars => IInv'
<1> SUFFICES ASSUME IInv, [Next]_vars PROVE IInv'
  OBVIOUS
<1> USE DEF requestVars, keyVars, handlerVars, historyVars
<1>1. ASSUME NEW q \in Requests, NEW demo \in BOOLEAN, Create(q, demo)
      PROVE  IInv'
  <2>1. /\ status[q] = "absent" /\ status' = [status EXCEPT ![q] = "pending"]
        /\ current' = [current EXCEPT ![q] = {key} \cap Keys]
        /\ UNCHANGED <<signature, overdue, key, firstRow, pc, req, arg, generated, lostKey, contested>>
    BY <1>1 DEF Create
  <2>2. TypeOK'
    BY <2>1 DEF IInv, TypeOK, Statuses
  <2>3. \A h \in Handlers : pc[h] \in Deciding => req[h] # q
    BY <2>1 DEF IInv, DecisionInv
  <2>4. \A p \in Requests : DecidingOn(p)' = DecidingOn(p)
    BY <2>1 DEF DecidingOn
  <2> QED
    BY <2>1, <2>2, <2>3, <2>4
    DEF IInv, DecisionInv, TypeOK, Terminated, Terminal, Deciding,
        SignatureMatchesStatus, SignedWithKeyOfItsTime
<1>2. ASSUME NEW q \in Requests, PassDeadline(q)
      PROVE  IInv'
  BY <1>2 DEF PassDeadline, IInv, TypeOK, DecisionInv, Terminated, DecidingOn,
              SignatureMatchesStatus, SignedWithKeyOfItsTime
<1>3. ASSUME NEW h \in Handlers, NEW q \in Requests,
             \/ \E k \in Keys : ReadToSign(h, q, k)
             \/ ReadToDeny(h, q) \/ ReadToExpire(h, q)
      PROVE  IInv'
  <2>1. PICK op \in Deciding, a \in Keys \cup {None} :
          /\ Start(h, op, q, a) /\ (op = "sign" => a = key /\ key \in Keys)
    BY <1>3 DEF ReadToSign, ReadToDeny, ReadToExpire, Deciding, HasKey
  <2>2. /\ status[q] = "pending"
        /\ UNCHANGED <<status, signature, overdue, key, firstRow, generated, current, lostKey, contested>>
    BY <1>3 DEF ReadToSign, ReadToDeny, ReadToExpire
  <2>3. op \in PCs
    BY DEF PCs
  <2>4. TypeOK'
    BY <2>1, <2>2, <2>3, StartEffect DEF IInv, TypeOK
  <2>5. op = "sign" => a \in current[q]
    BY <2>1, <2>2 DEF IInv, DecisionInv
  <2>6. \A g \in Handlers :
          /\ pc'[g] \in Deciding => req'[g] \in Requests /\ status'[req'[g]] # "absent"
          /\ pc'[g] = "sign" => arg'[g] \in current'[req'[g]]
          /\ pc'[g] \notin Deciding \cup {"idle"} => arg'[g] \in Keys
    BY <2>1, <2>2, <2>3, <2>5, StartEffect DEF IInv, DecisionInv
  <2>7. \A p \in Requests : Terminated(p)' /\ DecidingOn(p)' # {} => p \in contested'
    BY <2>1, <2>2, <2>3, StartEffect DEF IInv, DecisionInv, Terminated, Terminal
  <2> QED
    BY <2>2, <2>4, <2>6, <2>7
    DEF IInv, DecisionInv, SignatureMatchesStatus, SignedWithKeyOfItsTime
<1>4. ASSUME NEW h \in Handlers, NEW k \in Keys, ReadToAddKey(h, k) \/ StartRotation(h, k)
      PROVE  IInv'
  <2>1. PICK op \in PCs \ (Deciding \cup {"idle"}) : Start(h, op, None, k)
    BY <1>4 DEF ReadToAddKey, StartRotation, PCs, Deciding
  <2>2. /\ UNCHANGED <<status, signature, overdue, key, firstRow, current, lostKey, contested>>
        /\ generated' = generated \cup {k}
    BY <1>4 DEF ReadToAddKey, StartRotation
  <2>3. TypeOK'
    BY <2>1, <2>2, StartEffect DEF IInv, TypeOK
  <2>4. \A p \in Requests : DecidingOn(p)' = DecidingOn(p)
    BY <2>1, StartEffect DEF IInv
  <2>5. \A g \in Handlers :
          /\ pc'[g] \in Deciding => req'[g] \in Requests /\ status'[req'[g]] # "absent"
          /\ pc'[g] = "sign" => arg'[g] \in current'[req'[g]]
          /\ pc'[g] \notin Deciding \cup {"idle"} => arg'[g] \in Keys
    BY <2>1, <2>2, StartEffect DEF IInv, DecisionInv, Deciding
  <2> QED
    BY <2>2, <2>3, <2>4, <2>5
    DEF IInv, DecisionInv, Terminated, SignatureMatchesStatus, SignedWithKeyOfItsTime
<1>5. ASSUME NEW h \in Handlers, Crash(h)
      PROVE  IInv'
  <2>1. /\ Finish(h) /\ lostKey' \in BOOLEAN
        /\ UNCHANGED <<status, signature, overdue, key, firstRow, generated, current, contested>>
    BY <1>5 DEF Crash, IInv, TypeOK
  <2>2. TypeOK'
    BY <2>1, FinishEffect DEF IInv, TypeOK
  <2> QED
    BY <2>1, <2>2, FinishEffect
    DEF IInv, DecisionInv, Terminated, SignatureMatchesStatus, SignedWithKeyOfItsTime,
        Deciding
<1>6. CASE UNCHANGED vars
  BY <1>6 DEF vars, IInv, TypeOK, DecisionInv, Terminated, DecidingOn,
              SignatureMatchesStatus, SignedWithKeyOfItsTime
<1> QED
  BY <1>1, <1>2, <1>3, <1>4, <1>5, <1>6, ResolveStep, KeyStep DEF Next

LEMMA Invariance == Spec => []IInv
BY InitInv, NextInv, PTL DEF Spec

(* Types. *)
THEOREM TypeCorrect == Spec => []TypeOK
<1>1. IInv => TypeOK
  BY DEF IInv
<1> QED BY <1>1, Invariance, PTL

(* A signature beside a status other than signed is the trace of a race    *)
(* between deciding handlers (signing.ts 190-198, 248-255, 388-393).       *)
THEOREM SignaturesMatch == Spec => []SignatureMatchesStatus
<1>1. IInv => SignatureMatchesStatus
  BY DEF IInv, DecisionInv
<1> QED BY <1>1, Invariance, PTL

(* A request is signed with a key the identity had while it was pending,   *)
(* whatever rotations went on meanwhile (signing.ts 171-183).              *)
THEOREM SignedInTime == Spec => []SignedWithKeyOfItsTime
<1>1. IInv => SignedWithKeyOfItsTime
  BY DEF IInv, DecisionInv
<1> QED BY <1>1, Invariance, PTL

----------------------------------------------------------------------------
(* Two facts that hold forever once they hold.                             *)

LEMMA ResolutionStays ==
  ASSUME TypeOK, TypeOK', NEW q \in Requests, NEW s \in Terminal,
         status[q] = s, DecidingOn(q) = {}, [Next]_vars
  PROVE  status'[q] = s /\ DecidingOn(q)' = {}
<1> USE DEF requestVars, keyVars, handlerVars, historyVars
<1>1. status[q] \notin {"absent", "pending"}
  BY DEF Terminal
<1>2. ASSUME NEW h \in Handlers, Sign(h) \/ Deny(h) \/ MarkExpired(h)
      PROVE  status'[q] = s /\ DecidingOn(q)' = {}
  <2>1. PICK op \in Deciding : Resolve(h, op)
    BY <1>2 DEF Sign, Deny, MarkExpired, Deciding
  <2>2. /\ h \notin DecidingOn(q) /\ pc[h] \in Deciding /\ Finish(h)
        /\ status' = [status EXCEPT ![req[h]] = StatusAfter(op)]
    BY <2>1 DEF Resolve
  <2>3. req[h] # q
    BY <2>2 DEF DecidingOn
  <2>4. DecidingOn(q)' = {}
    BY <2>2, FinishEffect
  <2> QED BY <2>2, <2>3, <2>4 DEF TypeOK
<1>3. ASSUME NEW h \in Handlers, NEW p \in Requests,
             \/ \E k \in Keys : ReadToSign(h, p, k)
             \/ ReadToDeny(h, p) \/ ReadToExpire(h, p)
      PROVE  status'[q] = s /\ DecidingOn(q)' = {}
  <2>1. PICK op \in Deciding, a \in Keys \cup {None} : Start(h, op, p, a)
    BY <1>3 DEF ReadToSign, ReadToDeny, ReadToExpire, Deciding
  <2>2. status[p] = "pending" /\ status' = status
    BY <1>3 DEF ReadToSign, ReadToDeny, ReadToExpire
  <2>3. op \in PCs
    BY DEF PCs
  <2>4. DecidingOn(q)' = {}
    BY <2>1, <2>2, <2>3, <1>1, StartEffect
  <2> QED BY <2>2, <2>4
<1>4. ASSUME NEW h \in Handlers, NEW k \in Keys, ReadToAddKey(h, k) \/ StartRotation(h, k)
      PROVE  status'[q] = s /\ DecidingOn(q)' = {}
  <2>1. PICK op \in PCs \ Deciding : Start(h, op, None, k)
    BY <1>4 DEF ReadToAddKey, StartRotation, PCs, Deciding
  <2>2. status' = status
    BY <1>4 DEF ReadToAddKey, StartRotation
  <2> QED BY <2>1, <2>2, StartEffect
<1>5. ASSUME NEW h \in Handlers,
             ReplaceKey(h) \/ AddKey(h) \/ InsertKey(h) \/ Crash(h)
      PROVE  status'[q] = s /\ DecidingOn(q)' = {}
  BY <1>5, FinishEffect DEF ReplaceKey, AddKey, InsertKey, Crash
<1>6. ASSUME NEW h \in Handlers, DeleteKey(h)
      PROVE  status'[q] = s /\ DecidingOn(q)' = {}
  BY <1>6 DEF DeleteKey, DecidingOn, Deciding, TypeOK
<1>7. ASSUME NEW p \in Requests,
             PassDeadline(p) \/ \E demo \in BOOLEAN : Create(p, demo)
      PROVE  status'[q] = s /\ DecidingOn(q)' = {}
  BY <1>7, <1>1 DEF PassDeadline, Create, DecidingOn, TypeOK
<1>8. CASE UNCHANGED vars
  BY <1>8 DEF vars, DecidingOn
<1> QED
  BY <1>2, <1>3, <1>4, <1>5, <1>6, <1>7, <1>8 DEF Next

(* A resolution that nobody was already deciding on is final               *)
(* (signing.ts 166-168, 243-245, 388-393).                                 *)
THEOREM QuietResolutionsStay == Spec => QuietResolutionFinal
<1>1. ASSUME TypeOK, TypeOK', [Next]_vars
      PROVE  [\A q \in Requests, s \in Terminal : Settled(q, s) => Settled(q, s)']_vars
  BY <1>1, ResolutionStays DEF Settled
<1> QED BY <1>1, TypeCorrect, PTL DEF Spec, QuietResolutionFinal

\* A rotation that has deleted the row finds no row or a registered key.
RotationInv == \A h \in Handlers : pc[h] = "insertKey" => key # LegacyKey

LEMMA KeyStays ==
  ASSUME IInv, RotationInv, [Next]_vars
  PROVE  RotationInv' /\ (KeyAccounted => KeyAccounted')
<1> USE DEF requestVars, keyVars, handlerVars, historyVars
<1>1. ASSUME NEW h \in Handlers, ReplaceKey(h) \/ AddKey(h) \/ InsertKey(h)
      PROVE  RotationInv' /\ (KeyAccounted => KeyAccounted')
  <2>1. Finish(h) /\ arg[h] \in Keys /\ lostKey' = lostKey
        /\ (key' = key \/ key' = arg[h])
    BY <1>1 DEF ReplaceKey, AddKey, InsertKey, InsertRow, IInv, DecisionInv, Deciding
  <2>2. pc[h] = "insertKey" => HasKey'
    BY <1>1, <2>1 DEF ReplaceKey, AddKey, InsertKey, InsertRow, RotationInv, HasKey,
                      IInv, TypeOK
  <2>3. \A g \in Handlers \ {h} : pc'[g] = pc[g]
    BY <2>1, FinishEffect DEF IInv
  <2>4. pc'[h] = "idle"
    BY <2>1, FinishEffect DEF IInv
  <2>5. RotationInv'
    BY <2>1, <2>3, <2>4 DEF RotationInv
  <2>6. KeyAccounted => KeyAccounted'
    BY <2>1, <2>2, <2>3 DEF KeyAccounted, HasKey
  <2> QED BY <2>5, <2>6
<1>2. ASSUME NEW h \in Handlers, DeleteKey(h)
      PROVE  RotationInv' /\ (KeyAccounted => KeyAccounted')
  BY <1>2 DEF DeleteKey, RotationInv, KeyAccounted, IInv, TypeOK
<1>3. ASSUME NEW h \in Handlers, Crash(h)
      PROVE  RotationInv' /\ (KeyAccounted => KeyAccounted')
  <2>1. Finish(h) /\ key' = key /\ lostKey' = (lostKey \/ pc[h] = "insertKey")
    BY <1>3 DEF Crash
  <2>2. \A g \in Handlers \ {h} : pc'[g] = pc[g]
    BY <2>1, FinishEffect DEF IInv
  <2>3. pc'[h] = "idle"
    BY <2>1, FinishEffect DEF IInv
  <2> QED BY <2>1, <2>2, <2>3 DEF RotationInv, KeyAccounted, HasKey
<1>4. ASSUME NEW h \in Handlers, Sign(h) \/ Deny(h) \/ MarkExpired(h)
      PROVE  RotationInv' /\ (KeyAccounted => KeyAccounted')
  <2>1. Finish(h) /\ UNCHANGED <<key, lostKey>> /\ pc[h] # "insertKey"
    BY <1>4 DEF Sign, Deny, MarkExpired, Resolve
  <2>2. pc'[h] = "idle" /\ \A g \in Handlers \ {h} : pc'[g] = pc[g]
    BY <2>1, FinishEffect DEF IInv
  <2> QED BY <2>1, <2>2 DEF RotationInv, KeyAccounted, HasKey
<1>5. ASSUME NEW h \in Handlers,
             \/ \E q \in Requests, k \in Keys : ReadToSign(h, q, k)
             \/ \E q \in Requests : ReadToDeny(h, q) \/ ReadToExpire(h, q)
             \/ \E k \in Keys : ReadToAddKey(h, k) \/ StartRotation(h, k)
      PROVE  RotationInv' /\ (KeyAccounted => KeyAccounted')
  <2>1. PICK op \in PCs \ {"insertKey"}, q \in Requests \cup {None}, k \in Keys \cup {None} :
          Start(h, op, q, k)
    BY <1>5 DEF ReadToSign, ReadToDeny, ReadToExpire, ReadToAddKey, StartRotation,
                PCs, Deciding
  <2>2. UNCHANGED <<key, lostKey>>
    BY <1>5 DEF ReadToSign, ReadToDeny, ReadToExpire, ReadToAddKey, StartRotation
  <2>3. pc'[h] # "insertKey" /\ pc[h] = "idle" /\ \A g \in Handlers \ {h} : pc'[g] = pc[g]
    BY <2>1, StartEffect DEF IInv, Start
  <2> QED BY <2>2, <2>3 DEF RotationInv, KeyAccounted, HasKey
<1>6. CASE \/ UNCHANGED vars
           \/ \E q \in Requests : PassDeadline(q) \/ \E demo \in BOOLEAN : Create(q, demo)
  BY <1>6 DEF vars, PassDeadline, Create, RotationInv, KeyAccounted, HasKey
<1> QED
  BY <1>1, <1>2, <1>3, <1>4, <1>5, <1>6 DEF Next

(* Once an identity has a key it is without one only while a rotation is   *)
(* between its two statements, or after one died there                     *)
(* (signing-keys.ts 82-87, 117-118).                                       *)
THEOREM KeysAreKept == Spec => KeyKept
<1>1. Init => RotationInv
  BY DEF Init, RotationInv
<1>2. IInv /\ RotationInv /\ [Next]_vars => RotationInv'
  BY KeyStays
<1>3. IInv /\ RotationInv /\ [Next]_vars => [KeyAccounted => KeyAccounted']_vars
  BY KeyStays
<1> QED BY <1>1, <1>2, <1>3, Invariance, PTL DEF Spec, KeyKept

=============================================================================
