--------------------------- MODULE SotpCallProofs ---------------------------
(***************************************************************************)
(* Theorems about SotpCall for every number of calls, ring size, resend    *)
(* count and timing, proved with TLAPS.                                    *)
(***************************************************************************)
EXTENDS SotpCall, FiniteSetTheorems, TLAPS

-----------------------------------------------------------------------------
(* Type correctness *)

LEMMA InitType == Init => TypeOK
BY ConstAssumption DEF Init, TypeOK, Call, Seq16, Slot, Empty, Never, Outcome, Entry, CallMsg, AckMsg

LEMMA ModRange == ASSUME NEW n \in Nat \ {0}, NEW x \in Nat PROVE x % n \in 0 .. n - 1
OBVIOUS

LEMMA NextSeqType == ASSUME TypeOK PROVE NextSeq \in Seq16
<1>1. curSeq + 1 \in Nat /\ SeqMod \in Nat \ {0}
  BY ConstAssumption DEF TypeOK, Seq16
<1> QED BY <1>1, ModRange DEF NextSeq, Seq16

LEMMA NextSlotType == ASSUME TypeOK PROVE NextSlot \in Slot
<1>1. cursor + 1 \in Nat /\ MaskSize \in Nat \ {0}
  BY ConstAssumption DEF TypeOK, Slot
<1> QED BY <1>1, ModRange DEF NextSlot, Slot

LEMMA SendCallType == ASSUME TypeOK, SendCall PROVE TypeOK'
<1> DEFINE c == issued + 1
           new == [seq |-> NextSeq, cid |-> c, call |-> c, resends |-> 0, sent |-> now]
<1>1. c \in Call /\ issued' = c /\ now \in 1 .. MaxTime /\ NextSeq \in Seq16
  BY NextSeqType DEF SendCall, TypeOK
<1>2. new \in Entry
  BY <1>1, ConstAssumption DEF Entry
<1>3. \A p \in pending : [p EXCEPT !.call = c, !.sent = now] \in Entry
  BY <1>1 DEF Entry, TypeOK
<1>4. pending' \subseteq Entry
  BY <1>2, <1>3 DEF SendCall, AddSeqInfo, TypeOK
<1>5. calls' \subseteq CallMsg
  BY <1>1 DEF SendCall, CallMsg, TypeOK
<1>6. outcome' \in [Call -> Outcome] /\ issuedAt' \in [Call -> 0 .. MaxTime]
  BY <1>1 DEF SendCall, TypeOK, Outcome
<1> QED
  BY <1>1, <1>4, <1>5, <1>6 DEF SendCall, TypeOK, sessionVars, Call

LEMMA CheckSeqTimeoutType == ASSUME TypeOK, CheckSeqTimeout PROVE TypeOK'
<1>1. \A p \in Resent : p \in Entry /\ p.resends < MaxResends
  <2> SUFFICES ASSUME NEW p \in Resent PROVE p \in Entry /\ p.resends < MaxResends
    OBVIOUS
  <2>1. p \in Due /\ p \notin Spent /\ p \in Entry
    BY DEF Resent, Due, TypeOK
  <2>2. p.resends \in 0 .. MaxResends
    BY <2>1 DEF Entry
  <2> QED BY <2>1, <2>2, ConstAssumption DEF Spent
<1>2. \A p \in Resent : [p EXCEPT !.resends = @ + 1, !.sent = now] \in Entry
  <2> SUFFICES ASSUME NEW p \in Resent PROVE [p EXCEPT !.resends = @ + 1, !.sent = now] \in Entry
    OBVIOUS
  <2>1. p \in Entry /\ p.resends + 1 \in 0 .. MaxResends /\ now \in 1 .. MaxTime
    BY <1>1, ConstAssumption DEF Entry, TypeOK
  <2> QED BY <2>1 DEF Entry
<1>3. pending' \subseteq Entry
  BY <1>2 DEF CheckSeqTimeout, TypeOK
<1>4. calls' \subseteq CallMsg
  <2>1. \A p \in Resent : [seq |-> p.seq, call |-> p.call, at |-> now] \in CallMsg
    BY <1>1 DEF Entry, CallMsg, TypeOK
  <2> QED BY <2>1 DEF CheckSeqTimeout, TypeOK
<1>5. outcome' \in [Call -> Outcome]
  BY DEF CheckSeqTimeout, TypeOK, Outcome
<1> QED
  BY <1>3, <1>4, <1>5 DEF CheckSeqTimeout, TypeOK, sessionVars

LEMMA RecvNewCallType == ASSUME TypeOK, NEW m \in calls, RecvNewCall(m) PROVE TypeOK'
<1>1. m.seq \in Seq16 /\ m.call \in Call
  BY DEF TypeOK, CallMsg
<1>2. masks' \in [Slot -> Seq16 \cup {Empty}] /\ cursor' \in Slot
  BY <1>1, NextSlotType DEF RecvNewCall, TypeOK
<1>3. acks' \subseteq AckMsg
  BY <1>1 DEF RecvNewCall, Acknowledge, AckMsg, TypeOK
<1>4. accepted' \in [Call -> Nat] /\ acceptedAt' \in [Call -> 0 .. MaxTime]
  BY <1>1 DEF RecvNewCall, TypeOK
<1> QED
  BY <1>2, <1>3, <1>4 DEF RecvNewCall, TypeOK, clientVars

LEMMA RecvDuplicateType == ASSUME TypeOK, NEW m \in calls, RecvDuplicate(m) PROVE TypeOK'
<1>1. acks' \subseteq AckMsg
  BY DEF RecvDuplicate, Acknowledge, AckMsg, CallMsg, TypeOK
<1> QED
  BY <1>1 DEF RecvDuplicate, TypeOK, clientVars

LEMMA RecvAckType == ASSUME TypeOK, NEW a \in acks, RecvAck(a) PROVE TypeOK'
BY DEF RecvAck, TypeOK, netVars, sessionVars, Outcome

LEMMA RecvStopNoticeType == ASSUME TypeOK, RecvStopNotice PROVE TypeOK'
BY DEF RecvStopNotice, TypeOK, netVars, sessionVars, Outcome

LEMMA ExecuteType == ASSUME TypeOK, NEW c \in Call, Execute(c) PROVE TypeOK'
BY DEF Execute, TypeOK, clientVars, netVars, sessionVars

LEMMA AppStopType == ASSUME TypeOK, AppStop PROVE TypeOK'
BY DEF AppStop, TypeOK, clientVars, netVars, sessionVars

LEMMA TickType == ASSUME TypeOK, Tick PROVE TypeOK'
BY ConstAssumption DEF Tick, TypeOK, clientVars, sessionVars

\* Type correctness of the client, the network and the session, for every
\* value of the constants.
THEOREM TypeCorrect == Spec => []TypeOK
<1>1. ASSUME TypeOK, [Next]_vars PROVE TypeOK'
  <2>1. CASE UNCHANGED vars
    BY <1>1, <2>1 DEF vars, clientVars, netVars, sessionVars, TypeOK
  <2>2. CASE Next
    BY <1>1, <2>2, SendCallType, CheckSeqTimeoutType, RecvAckType, RecvStopNoticeType, RecvNewCallType,
       RecvDuplicateType, ExecuteType, AppStopType, TickType DEF Next
  <2> QED BY <1>1, <2>1, <2>2
<1> QED BY InitType, <1>1, PTL DEF Spec

-----------------------------------------------------------------------------
(* The inductive invariant *)

\* No sequence number is used twice: 65536 calls are not made here.
NoReuse == MaxCalls < SeqMod

\* The ring of recent numbers has room for every call.
RingFits == MaxCalls <= MaskSize

\* A call is known everywhere by one number, its own.
Numbers ==
  /\ curSeq = issued
  /\ \A p \in pending : p.seq = p.call /\ p.cid = p.call /\ p.call <= issued
  /\ \A p, q \in pending : p.seq = q.seq => p = q
  /\ \A m \in calls : m.seq = m.call /\ m.call <= issued
  /\ \A s \in Slot : masks[s] # Empty => masks[s] \in Call

\* The application waits for exactly the calls that were made and not
\* settled, and an entry belongs to one of them.
Waiting ==
  /\ \A c \in Call : outcome[c] = "idle" <=> c > issued
  /\ \A p \in pending : outcome[p.call] = "open"

\* What was acknowledged, or is in the ring, was accepted.
Taken ==
  /\ \A a \in acks : a.seq \in Call /\ accepted[a.seq] > 0
  /\ \A s \in Slot : masks[s] # Empty => accepted[masks[s]] > 0
  /\ \A c \in Call : accepted[c] > 0 => c <= issued
  /\ \A c \in Call : runs[c] <= accepted[c]

\* The numbers in the ring are distinct and fill an arc that ends at cursor.
InArc(b, e, s) == IF b <= e THEN b <= s /\ s <= e ELSE b <= s \/ s <= e

Ring ==
  /\ \A s, t \in Slot : masks[s] # Empty /\ masks[s] = masks[t] => s = t
  /\ \/ \A s \in Slot : masks[s] = Empty
     \/ \E b \in Slot : \A s \in Slot : masks[s] # Empty <=> InArc(b, cursor, s)

\* A call that was accepted is in the ring unless more than Window passed.
Covered ==
  \A c \in Call : accepted[c] > 0 =>
    /\ acceptedAt[c] <= lastSeq /\ acceptedAt[c] > 0 /\ lastSeq <= now
    /\ (\E s \in Slot : masks[s] = c) \/ now - acceptedAt[c] > Window

\* How far resending reaches after the call was made.
Gap == RTO + PollLag

Timing ==
  /\ \A p \in pending :
       /\ p.sent <= now /\ now - p.sent <= Gap
       /\ p.sent - issuedAt[p.call] <= p.resends * Gap
       /\ p.sent - issuedAt[p.call] >= p.resends * RTO
  /\ \A m \in calls :
       /\ m.at <= now /\ now - m.at <= MaxDelay
       /\ m.at - issuedAt[m.call] <= MaxResends * Gap
  /\ \A c \in Call : c <= issued => issuedAt[c] <= now
  /\ \A c \in Call : accepted[c] > 0 => issuedAt[c] <= acceptedAt[c]

IndInv == TypeOK /\ Numbers /\ Waiting /\ Taken /\ Ring /\ Covered /\ Timing

LEMMA InitInd == Init => IndInv
BY InitType, ConstAssumption DEF Init, IndInv, Numbers, Waiting, Taken, Ring, Covered, Timing, Call, Empty

\* Without reuse the next number is the next call.
LEMMA NextSeqFresh ==
  ASSUME NoReuse, TypeOK, Numbers, issued + 1 \in Call PROVE NextSeq = issued + 1
<1>1. \A x \in Nat, n \in Nat \ {0} : x < n => x % n = x
  OBVIOUS
<1>2. issued + 1 \in Nat /\ issued + 1 < SeqMod /\ SeqMod \in Nat \ {0}
  BY ConstAssumption DEF NoReuse, TypeOK, Call
<1> QED BY <1>1, <1>2 DEF NextSeq, Numbers

LEMMA SendCallInd == ASSUME NoReuse, IndInv, SendCall PROVE IndInv'
<1> DEFINE c == issued + 1
           new == [seq |-> c, cid |-> c, call |-> c, resends |-> 0, sent |-> now]
<1>1. TypeOK'
  BY SendCallType DEF IndInv
<1>2. c \in Call /\ issued' = c /\ issued \in Nat /\ NextSeq = c
  BY NextSeqFresh DEF IndInv, SendCall, TypeOK
<1>3. \A p \in pending : p.seq # c
  BY <1>2 DEF IndInv, Numbers, TypeOK, Entry, Call
<1>4. pending' = pending \cup {new}
  BY <1>2, <1>3 DEF SendCall, AddSeqInfo
<1>5. calls' = calls \cup {[seq |-> c, call |-> c, at |-> now]}
  BY <1>2 DEF SendCall
<1>6. \A p \in pending : p.call \in Call /\ p.call <= issued /\ p.call # c
  BY <1>2 DEF IndInv, Numbers, TypeOK, Entry, Call
<1>7. \A m \in calls : m.call \in Call /\ m.call <= issued /\ m.call # c
  BY <1>2 DEF IndInv, Numbers, TypeOK, CallMsg, Call
<1>8. Numbers'
  <2>1. curSeq' = issued'
    BY <1>2 DEF SendCall
  <2>2. \A p \in pending' : p.seq = p.call /\ p.cid = p.call /\ p.call <= issued'
    BY <1>2, <1>4, <1>6 DEF IndInv, Numbers, TypeOK, Entry, Call
  <2>3. \A p, q \in pending' : p.seq = q.seq => p = q
    BY <1>3, <1>4 DEF IndInv, Numbers
  <2>4. \A m \in calls' : m.seq = m.call /\ m.call <= issued'
    BY <1>2, <1>5, <1>7 DEF IndInv, Numbers, TypeOK, CallMsg, Call
  <2>5. \A s \in Slot : masks'[s] # Empty => masks'[s] \in Call
    BY DEF SendCall, sessionVars, IndInv, Numbers
  <2> QED BY <2>1, <2>2, <2>3, <2>4, <2>5 DEF Numbers
<1>9. Waiting'
  BY <1>2, <1>4, <1>6 DEF SendCall, IndInv, Waiting, TypeOK, Call
<1>10. Taken'
  BY <1>2 DEF SendCall, IndInv, Taken, sessionVars, Call
<1>11. Ring' /\ Covered'
  BY DEF SendCall, IndInv, Ring, Covered, sessionVars
<1>12. issuedAt' = [issuedAt EXCEPT ![c] = now] /\ issuedAt'[c] = now
       /\ \A d \in Call : d # c => issuedAt'[d] = issuedAt[d]
  BY <1>2 DEF SendCall, IndInv, TypeOK
<1>13. now \in Nat /\ now' = now /\ Gap \in Nat /\ 0 * Gap = 0 /\ 0 * RTO = 0 /\ MaxResends * Gap >= 0
       /\ MaxDelay \in Nat
  BY ConstAssumption DEF SendCall, IndInv, TypeOK, Gap
<1>14. Timing'
  <2>1. \A p \in pending' :
          /\ p.sent <= now /\ now - p.sent <= Gap
          /\ p.sent - issuedAt'[p.call] <= p.resends * Gap
          /\ p.sent - issuedAt'[p.call] >= p.resends * RTO
    BY <1>4, <1>6, <1>12, <1>13 DEF IndInv, Timing
  <2>2. \A m \in calls' : /\ m.at <= now /\ now - m.at <= MaxDelay
                          /\ m.at - issuedAt'[m.call] <= MaxResends * Gap
    BY <1>5, <1>7, <1>12, <1>13 DEF IndInv, Timing
  <2>3. \A d \in Call : d <= issued' => issuedAt'[d] <= now
    BY <1>2, <1>12, <1>13 DEF IndInv, Timing, Call
  <2>4. \A d \in Call : accepted[d] > 0 => issuedAt'[d] <= acceptedAt[d]
    BY <1>2, <1>12 DEF IndInv, Timing, Taken, Call
  <2> QED BY <2>1, <2>2, <2>3, <2>4, <1>13 DEF Timing, SendCall, sessionVars, Gap
<1> QED BY <1>1, <1>8, <1>9, <1>10, <1>11, <1>14 DEF IndInv

\* An acknowledgement, a stop notice and an expiry only shrink the table.
LEMMA ShrinkInd ==
  ASSUME IndInv, TypeOK', pending' \subseteq pending, calls' = calls, Waiting',
         UNCHANGED <<now, curSeq, issued, issuedAt, acks, sessionVars, runs>>
  PROVE  IndInv'
<1>1. Numbers'
  BY DEF IndInv, Numbers, sessionVars
<1>2. Taken' /\ Ring' /\ Covered'
  BY DEF IndInv, Taken, Ring, Covered, sessionVars
<1>3. Timing'
  BY DEF IndInv, Timing, Gap, sessionVars
<1> QED BY <1>1, <1>2, <1>3 DEF IndInv

LEMMA RecvAckInd == ASSUME IndInv, NEW a \in acks, RecvAck(a) PROVE IndInv'
<1>1. TypeOK'
  BY RecvAckType DEF IndInv
<1>2. Waiting'
  <2>1. \A p \in pending' : \A q \in pending : q.seq = a.seq => p.call # q.call
    BY DEF IndInv, Numbers, RecvAck
  <2>2. \A p \in pending' : outcome'[p.call] = outcome[p.call] /\ outcome[p.call] = "open"
    BY <2>1 DEF RecvAck, IndInv, Waiting, TypeOK, Entry
  <2>3. \A c \in Call : outcome'[c] = "idle" <=> c > issued
    BY DEF RecvAck, IndInv, Waiting, TypeOK, Entry
  <2> QED BY <2>2, <2>3 DEF Waiting, RecvAck
<1> QED BY <1>1, <1>2, ShrinkInd DEF RecvAck, netVars

LEMMA RecvStopNoticeInd == ASSUME IndInv, RecvStopNotice PROVE IndInv'
<1>1. TypeOK'
  BY RecvStopNoticeType DEF IndInv
<1>2. Waiting'
  BY DEF RecvStopNotice, IndInv, Waiting, TypeOK, Entry
<1> QED BY <1>1, <1>2, ShrinkInd DEF RecvStopNotice, netVars

LEMMA RecvDuplicateInd == ASSUME IndInv, NEW m \in calls, RecvDuplicate(m) PROVE IndInv'
<1>1. TypeOK'
  BY RecvDuplicateType DEF IndInv
<1>2. Taken'
  <2>1. PICK s \in Slot : masks[s] = m.seq
    BY DEF RecvDuplicate, Duplicate
  <2>2. masks[s] # Empty
    BY <2>1, ConstAssumption DEF IndInv, TypeOK, CallMsg, Seq16, Empty
  <2> QED BY <2>1, <2>2 DEF RecvDuplicate, Acknowledge, IndInv, Taken, Numbers, clientVars
<1>3. Covered'
  BY DEF RecvDuplicate, IndInv, Covered, TypeOK
<1>4. Numbers' /\ Waiting' /\ Ring' /\ Timing'
  BY DEF RecvDuplicate, clientVars, IndInv, Numbers, Waiting, Ring, Timing, Gap
<1> QED BY <1>1, <1>2, <1>3, <1>4 DEF IndInv

LEMMA ExecuteInd == ASSUME IndInv, NEW c \in Call, Execute(c) PROVE IndInv'
<1>1. TypeOK'
  BY ExecuteType DEF IndInv
<1>2. Taken'
  BY DEF Execute, IndInv, Taken, TypeOK, clientVars, netVars, sessionVars
<1>3. Numbers' /\ Waiting' /\ Ring' /\ Covered' /\ Timing'
  BY DEF Execute, IndInv, Numbers, Waiting, Ring, Covered, Timing, Gap, clientVars, netVars, sessionVars
<1> QED BY <1>1, <1>2, <1>3 DEF IndInv

LEMMA AppStopInd == ASSUME IndInv, AppStop PROVE IndInv'
BY AppStopType DEF AppStop, IndInv, Numbers, Waiting, Taken, Ring, Covered, Timing, Gap, clientVars, netVars,
   sessionVars

LEMMA TickInd == ASSUME IndInv, Tick PROVE IndInv'
<1>1. TypeOK'
  BY TickType DEF IndInv
<1>2. calls' \subseteq calls /\ acks' \subseteq acks /\ now' = now + 1 /\ now \in Nat
  BY DEF Tick, IndInv, TypeOK
<1>3. Numbers' /\ Waiting' /\ Taken' /\ Ring'
  BY <1>2 DEF Tick, IndInv, Numbers, Waiting, Taken, Ring, clientVars, sessionVars
<1>4. Covered'
  BY <1>2, ConstAssumption DEF Tick, IndInv, Covered, TypeOK, sessionVars
<1>5. Timing'
  <2>1. \A p \in pending' : p.sent \in Int /\ p.sent <= now' /\ now' - p.sent <= Gap
    BY <1>2, ConstAssumption DEF Tick, IndInv, Timing, TypeOK, Entry, Gap, clientVars
  <2>2. \A m \in calls' : m.at <= now' /\ now' - m.at <= MaxDelay
    BY <1>2 DEF Tick, Alive, IndInv, Timing, TypeOK, CallMsg
  <2>3. \A c \in Call : issuedAt[c] \in Int
    BY DEF IndInv, TypeOK
  <2> QED BY <1>2, <2>1, <2>2, <2>3 DEF Tick, IndInv, Timing, Gap, clientVars, sessionVars
<1> QED BY <1>1, <1>3, <1>4, <1>5 DEF IndInv

\* A pass of checkSeqTimeout resends some entries, erases others and keeps
\* the rest; no entry is counted twice.
LEMMA CheckSeqTimeoutInd == ASSUME IndInv, CheckSeqTimeout PROVE IndInv'
<1> DEFINE up(p) == [p EXCEPT !.resends = @ + 1, !.sent = now]
<1>1. TypeOK'
  BY CheckSeqTimeoutType DEF IndInv
<1>2. \A p \in Resent : p \in pending /\ p \in Due /\ p \notin Spent
  BY DEF Resent, Due
<1>3. \A p \in Expired : p \in pending /\ p \in Due
  BY DEF Expired, Spent, Due
<1>4. \A p \in pending' : \/ p \in pending /\ p \notin Resent /\ p \notin Expired
                          \/ \E q \in Resent : p = up(q)
  BY DEF CheckSeqTimeout
<1>5. \A q \in pending : /\ up(q).seq = q.seq /\ up(q).cid = q.cid /\ up(q).call = q.call
                         /\ up(q).resends = q.resends + 1 /\ up(q).sent = now
  BY DEF IndInv, TypeOK, Entry
<1> HIDE DEF up
<1>16. \A m \in calls' : \/ m \in calls
                         \/ \E q \in Resent : m.seq = q.seq /\ m.call = q.call /\ m.at = now
  <2>1. \A m \in calls' : m \in calls \/ \E q \in Resent : m = [seq |-> q.seq, call |-> q.call, at |-> now]
    BY DEF CheckSeqTimeout
  <2> QED BY <2>1
<1>6. Resent \cap Expired = {}
  BY DEF Resent, Expired, Spent
<1>7. \A p \in pending' : \E q \in pending : q \notin Expired /\ p.seq = q.seq /\ p.cid = q.cid /\ p.call = q.call
  BY <1>2, <1>4, <1>5, <1>6
<1>8. Numbers'
  <2>1. \A p, q \in pending' : p.seq = q.seq => p = q
    <3> SUFFICES ASSUME NEW p \in pending', NEW q \in pending', p.seq = q.seq PROVE p = q
      OBVIOUS
    <3>1. \A x \in Resent, y \in pending : x.seq = y.seq => x = y
      BY <1>2 DEF IndInv, Numbers
    <3>2. CASE p \in pending /\ p \notin Resent
      BY <1>2, <1>4, <1>5, <3>1, <3>2 DEF IndInv, Numbers
    <3>3. CASE \E x \in Resent : p = up(x)
      BY <1>2, <1>4, <1>5, <3>1, <3>3
    <3> QED BY <1>4, <3>2, <3>3
  <2>2. \A m \in calls' : m.seq = m.call /\ m.call <= issued
    BY <1>2, <1>16 DEF IndInv, Numbers
  <2>3. \A p \in pending' : p.seq = p.call /\ p.cid = p.call /\ p.call <= issued
    BY <1>7 DEF IndInv, Numbers
  <2>4. UNCHANGED <<curSeq, issued, masks>>
    BY DEF CheckSeqTimeout, sessionVars
  <2> QED BY <2>1, <2>2, <2>3, <2>4 DEF IndInv, Numbers
<1>9. Waiting'
  <2>1. \A p \in pending' : outcome'[p.call] = "open"
    <3> SUFFICES ASSUME NEW p \in pending' PROVE outcome'[p.call] = "open"
      OBVIOUS
    <3>1. PICK q \in pending : q \notin Expired /\ p.seq = q.seq /\ p.call = q.call
      BY <1>7
    <3>2. \A e \in Expired : e.cid # p.call
      BY <3>1, <1>3 DEF IndInv, Numbers
    <3>3. p.call \in Call /\ outcome[p.call] = "open"
      BY <3>1 DEF IndInv, Waiting, TypeOK, Entry
    <3> QED BY <3>2, <3>3 DEF CheckSeqTimeout
  <2>2. \A e \in Expired : outcome[e.cid] = "open"
    BY <1>3 DEF IndInv, Numbers, Waiting
  <2>3. \A c \in Call : outcome'[c] = "idle" <=> c > issued
    BY <2>2 DEF CheckSeqTimeout, IndInv, Waiting
  <2> QED BY <2>1, <2>3 DEF Waiting, CheckSeqTimeout
<1>10. Taken' /\ Ring' /\ Covered'
  BY DEF CheckSeqTimeout, IndInv, Taken, Ring, Covered, sessionVars
<1>11. Gap \in Nat /\ RTO \in Nat /\ now \in Nat /\ MaxResends \in Nat /\ MaxDelay \in Nat
  BY ConstAssumption DEF Gap, IndInv, TypeOK
<1>12. \A r, g \in Nat : (r + 1) * g = r * g + g
  OBVIOUS
<1>13. \A r, k, g \in Nat : r <= k => r * g <= k * g
  OBVIOUS
<1>14. \A q \in Resent :
         /\ q.resends \in Nat /\ q.resends + 1 <= MaxResends
         /\ issuedAt[q.call] \in Nat /\ q.sent \in Nat
         /\ now - issuedAt[q.call] <= (q.resends + 1) * Gap
         /\ now - issuedAt[q.call] >= (q.resends + 1) * RTO
  <2> SUFFICES ASSUME NEW q \in Resent
               PROVE  /\ q.resends \in Nat /\ q.resends + 1 <= MaxResends
                      /\ issuedAt[q.call] \in Nat /\ q.sent \in Nat
                      /\ now - issuedAt[q.call] <= (q.resends + 1) * Gap
                      /\ now - issuedAt[q.call] >= (q.resends + 1) * RTO
    OBVIOUS
  <2>1. q.resends \in Nat /\ issuedAt[q.call] \in Nat /\ q.sent \in Nat /\ now - q.sent >= RTO
    BY <1>2 DEF IndInv, TypeOK, Entry, Due
  <2>2. q.resends + 1 <= MaxResends
    BY <1>2, <1>11, <2>1 DEF Spent
  <2>3. /\ now - q.sent <= Gap
        /\ q.sent - issuedAt[q.call] <= q.resends * Gap
        /\ q.sent - issuedAt[q.call] >= q.resends * RTO
    BY <1>2 DEF IndInv, Timing
  <2>4. q.resends * Gap \in Nat /\ q.resends * RTO \in Nat
    BY <1>11, <2>1
  <2>5. (q.resends + 1) * Gap = q.resends * Gap + Gap /\ (q.resends + 1) * RTO = q.resends * RTO + RTO
    BY <1>11, <1>12, <2>1
  <2> DEFINE x == q.resends * Gap
             y == q.resends * RTO
  <2>6. x \in Nat /\ y \in Nat /\ q.sent - issuedAt[q.call] <= x /\ q.sent - issuedAt[q.call] >= y
    BY <2>3, <2>4
  <2> HIDE DEF x, y
  <2>7. now - issuedAt[q.call] <= x + Gap /\ now - issuedAt[q.call] >= y + RTO
    BY <1>11, <2>1, <2>3, <2>6
  <2> QED BY <2>1, <2>2, <2>5, <2>7 DEF x, y
<1>15. Timing'
  <2>1. \A p \in pending' :
          /\ p.sent <= now /\ now - p.sent <= Gap
          /\ p.sent - issuedAt[p.call] <= p.resends * Gap
          /\ p.sent - issuedAt[p.call] >= p.resends * RTO
    BY <1>2, <1>4, <1>5, <1>11, <1>14 DEF IndInv, Timing
  <2>2. \A q \in Resent : now - issuedAt[q.call] <= MaxResends * Gap
    <3> SUFFICES ASSUME NEW q \in Resent PROVE now - issuedAt[q.call] <= MaxResends * Gap
      OBVIOUS
    <3>1. (q.resends + 1) * Gap <= MaxResends * Gap /\ (q.resends + 1) * Gap \in Nat /\ MaxResends * Gap \in Nat
      BY <1>11, <1>13, <1>14
    <3> QED BY <1>11, <1>14, <3>1
  <2>3. \A m \in calls' : /\ m.at <= now /\ now - m.at <= MaxDelay
                          /\ m.at - issuedAt[m.call] <= MaxResends * Gap
    BY <2>2, <1>11, <1>16 DEF IndInv, Timing
  <2> QED BY <2>1, <2>3 DEF CheckSeqTimeout, sessionVars, IndInv, Timing, Gap
<1> QED BY <1>1, <1>8, <1>9, <1>10, <1>15 DEF IndInv

LEMMA NextSlotValue ==
  ASSUME TypeOK PROVE NextSlot = IF cursor = MaskSize - 1 THEN 0 ELSE cursor + 1
<1>1. \A x \in Nat, n \in Nat \ {0} : x < n => x % n = x
  OBVIOUS
<1>2. \A n \in Nat \ {0} : n % n = 0
  OBVIOUS
<1>3. cursor \in 0 .. MaskSize - 1 /\ MaskSize \in Nat \ {0}
  BY ConstAssumption DEF TypeOK, Slot
<1>4. CASE cursor = MaskSize - 1
  <2>1. cursor + 1 = MaskSize
    BY <1>3, <1>4
  <2> QED BY <1>2, <1>3, <1>4, <2>1 DEF NextSlot
<1>5. CASE cursor # MaskSize - 1
  <2>1. cursor + 1 \in Nat /\ cursor + 1 < MaskSize
    BY <1>3, <1>5
  <2> QED BY <1>1, <1>3, <1>5, <2>1 DEF NextSlot
<1> QED BY <1>4, <1>5

\* When the ring has room for every call, recording a number that is not in
\* it overwrites no other: were the next slot taken, the arc would be the
\* whole ring, which would hold as many distinct calls as it has slots.
LEMMA NoEviction ==
  ASSUME RingFits, IndInv, NEW n \in Call, \A s \in Slot : masks[s] # n
  PROVE  masks[NextSlot] = Empty
<1> SUFFICES ASSUME masks[NextSlot] # Empty PROVE FALSE
  OBVIOUS
<1>1. NextSlot \in Slot /\ cursor \in Slot
  BY NextSlotType DEF IndInv, TypeOK
<1>2. PICK b \in Slot : \A s \in Slot : masks[s] # Empty <=> InArc(b, cursor, s)
  BY <1>1 DEF IndInv, Ring
<1>3. InArc(b, cursor, NextSlot)
  BY <1>1, <1>2
<1>4. \A s \in Slot : InArc(b, cursor, s)
  BY <1>1, <1>3, NextSlotValue, ConstAssumption DEF InArc, Slot, IndInv
<1>5. \A s \in Slot : masks[s] \in Call \ {n}
  BY <1>2, <1>4 DEF IndInv, Numbers
<1>6. masks \in [Slot -> Call \ {n}]
  BY <1>5 DEF IndInv, TypeOK
<1>7. IsFiniteSet(Slot) /\ Cardinality(Slot) = MaskSize
  <2>1. 0 \in Int /\ MaskSize - 1 \in Int /\ ~(0 > MaskSize - 1) /\ (MaskSize - 1) - 0 + 1 = MaskSize
    BY ConstAssumption
  <2> QED BY <2>1, FS_Interval DEF Slot
<1>8. IsFiniteSet(Call) /\ Cardinality(Call) = MaxCalls
  BY FS_Interval, ConstAssumption DEF Call
<1>9. IsFiniteSet(Call \ {n}) /\ Cardinality(Call \ {n}) = MaxCalls - 1
  BY <1>8, FS_RemoveElement
<1>10. Cardinality(Call \ {n}) < Cardinality(Slot)
  BY <1>7, <1>9, ConstAssumption DEF RingFits
<1>11. \E s, t \in Slot : s # t /\ masks[s] = masks[t]
  BY <1>6, <1>7, <1>9, <1>10, FS_PigeonHole
<1> QED BY <1>2, <1>4, <1>11 DEF IndInv, Ring

LEMMA RecvNewCallInd == ASSUME RingFits, IndInv, NEW m \in calls, RecvNewCall(m) PROVE IndInv'
<1> DEFINE n == m.seq
           old == [s \in Slot |-> IF Quiet THEN Empty ELSE masks[s]]
<1>1. TypeOK'
  BY RecvNewCallType DEF IndInv
<1>2. n \in Call /\ m.call = n /\ n <= issued /\ n # Empty
  <2>1. m.call \in Call /\ m.call = n /\ n <= issued
    BY DEF IndInv, Numbers, TypeOK, CallMsg
  <2>2. \A c \in Call : c # Empty
    BY ConstAssumption DEF Call, Empty
  <2> QED BY <2>1, <2>2
<1>3. NextSlot \in Slot /\ cursor' = NextSlot /\ cursor \in Slot
  BY NextSlotType DEF IndInv, TypeOK, RecvNewCall
<1>4. masks' = [old EXCEPT ![NextSlot] = n]
  BY DEF RecvNewCall
<1>5. masks'[NextSlot] = n /\ \A s \in Slot : s # NextSlot => masks'[s] = old[s]
  BY <1>3, <1>4
<1>6. \A s \in Slot : old[s] # n
  <2>1. ~Quiet => \A s \in Slot : masks[s] # n
    BY DEF RecvNewCall, Duplicate
  <2> QED BY <2>1, <1>2
<1>7. old[NextSlot] = Empty
  <2>1. ~Quiet => masks[NextSlot] = Empty
    BY <1>2, NoEviction DEF RecvNewCall, Duplicate
  <2> QED BY <2>1, <1>3
<1>8. \A s \in Slot : old[s] # Empty => ~Quiet /\ old[s] = masks[s]
  OBVIOUS
<1>9. (\A s \in Slot : old[s] = Empty) \/ old = masks
  BY DEF IndInv, TypeOK
<1> HIDE DEF old
<1>10. Numbers'
  BY <1>2, <1>3, <1>5, <1>8 DEF RecvNewCall, clientVars, IndInv, Numbers
<1>11. Waiting'
  BY DEF RecvNewCall, clientVars, IndInv, Waiting
<1>12. accepted' = [accepted EXCEPT ![n] = @ + 1] /\ acceptedAt' = [acceptedAt EXCEPT ![n] = now]
  BY <1>2 DEF RecvNewCall
<1>13. /\ accepted'[n] = accepted[n] + 1 /\ acceptedAt'[n] = now /\ accepted[n] \in Nat
       /\ \A c \in Call : c # n => accepted'[c] = accepted[c] /\ acceptedAt'[c] = acceptedAt[c]
  BY <1>2, <1>12 DEF IndInv, TypeOK
<1>14. \A c \in Call : accepted[c] > 0 => accepted'[c] > 0
  BY <1>13
<1>15. Taken'
  <2>1. \A a \in acks' : a.seq \in Call /\ accepted'[a.seq] > 0
    BY <1>2, <1>13, <1>14 DEF RecvNewCall, Acknowledge, IndInv, Taken
  <2>2. \A s \in Slot : masks'[s] # Empty => accepted'[masks'[s]] > 0
    BY <1>2, <1>3, <1>5, <1>8, <1>13, <1>14 DEF IndInv, Taken, Numbers
  <2>3. \A c \in Call : accepted'[c] > 0 => c <= issued
    BY <1>2, <1>13 DEF IndInv, Taken
  <2>4. \A c \in Call : runs[c] <= accepted'[c]
    BY <1>13 DEF IndInv, Taken, TypeOK
  <2> QED BY <2>1, <2>2, <2>3, <2>4 DEF Taken, RecvNewCall, clientVars
<1>16. Ring'
  <2>1. \A s, t \in Slot : masks'[s] # Empty /\ masks'[s] = masks'[t] => s = t
    BY <1>3, <1>5, <1>6, <1>8 DEF IndInv, Ring
  <2>2. CASE \A s \in Slot : old[s] = Empty
    <3>1. \A s \in Slot : masks'[s] # Empty <=> InArc(NextSlot, NextSlot, s)
      BY <1>2, <1>3, <1>5, <2>2 DEF InArc, Slot
    <3> QED BY <1>3, <2>1, <3>1 DEF Ring
  <2>3. CASE old = masks /\ \E s \in Slot : old[s] # Empty
    <3>1. PICK b \in Slot : \A s \in Slot : masks[s] # Empty <=> InArc(b, cursor, s)
      BY <2>3 DEF IndInv, Ring
    <3>2. ~InArc(b, cursor, NextSlot)
      BY <1>3, <1>7, <2>3, <3>1
    <3>3. \A s \in Slot : InArc(b, NextSlot, s) <=> s = NextSlot \/ InArc(b, cursor, s)
      BY <1>3, <3>2, NextSlotValue, ConstAssumption DEF InArc, Slot, IndInv
    <3>4. \A s \in Slot : masks'[s] # Empty <=> InArc(b, cursor', s)
      BY <1>2, <1>3, <1>5, <2>3, <3>1, <3>3
    <3> QED BY <2>1, <3>4 DEF Ring
  <2> QED BY <1>9, <2>2, <2>3
<1>17. Covered'
  <2>1. lastSeq' = now /\ now' = now /\ now \in Nat /\ now > 0
    BY DEF RecvNewCall, IndInv, TypeOK
  <2>2. \A s \in Slot : old[s] # Empty => masks'[s] = old[s]
    BY <1>5, <1>7
  <2>3. ASSUME NEW c \in Call, accepted'[c] > 0, c # n
        PROVE  /\ acceptedAt'[c] <= lastSeq' /\ acceptedAt'[c] > 0 /\ lastSeq' <= now'
               /\ (\E s \in Slot : masks'[s] = c) \/ now' - acceptedAt'[c] > Window
    <3>1. accepted[c] > 0 /\ acceptedAt'[c] = acceptedAt[c] /\ acceptedAt[c] \in Nat /\ lastSeq \in Nat
      BY <1>13, <2>3 DEF IndInv, TypeOK
    <3>2. /\ acceptedAt[c] <= lastSeq /\ acceptedAt[c] > 0 /\ lastSeq <= now
          /\ (\E s \in Slot : masks[s] = c) \/ now - acceptedAt[c] > Window
      BY <3>1 DEF IndInv, Covered
    <3>3. CASE Quiet
      BY <2>1, <3>1, <3>2, <3>3, ConstAssumption DEF Quiet
    <3>4. CASE ~Quiet
      <4>1. \A s \in Slot : old[s] = masks[s]
        BY <3>4 DEF old
      <4>2. c # Empty
        BY DEF Call, Empty
      <4> QED BY <2>1, <2>2, <3>1, <3>2, <4>1, <4>2
    <3> QED BY <3>3, <3>4
  <2> QED BY <1>3, <1>5, <1>13, <2>1, <2>3 DEF Covered
<1>18. Timing'
  <2>1. now \in Nat /\ issuedAt[n] <= now
    BY <1>2 DEF IndInv, Timing, TypeOK
  <2>2. \A c \in Call : accepted'[c] > 0 => issuedAt[c] <= acceptedAt'[c]
    BY <1>13, <2>1 DEF IndInv, Timing
  <2> QED BY <2>2 DEF RecvNewCall, clientVars, IndInv, Timing, Gap
<1> QED BY <1>1, <1>10, <1>11, <1>15, <1>16, <1>17, <1>18 DEF IndInv

\* No step of client, network or session breaks the invariant.
LEMMA StepInd == ASSUME NoReuse, RingFits, IndInv, [Next]_vars PROVE IndInv'
<1>1. CASE UNCHANGED vars
  BY <1>1 DEF vars, clientVars, netVars, sessionVars, IndInv, TypeOK, Numbers, Waiting, Taken, Ring, Covered, Timing, Gap
<1>2. CASE Next
  BY <1>2, SendCallInd, CheckSeqTimeoutInd, RecvAckInd, RecvStopNoticeInd, RecvNewCallInd, RecvDuplicateInd,
     ExecuteInd, AppStopInd, TickInd DEF Next
<1> QED BY <1>1, <1>2

\* The invariant holds of every behaviour.
THEOREM Inductive == ASSUME NoReuse, RingFits PROVE Spec => []IndInv
<1>1. IndInv /\ [Next]_vars => IndInv'
  BY StepInd
<1> QED BY InitInd, <1>1, PTL DEF Spec

-----------------------------------------------------------------------------
(* What the invariant gives *)

AckedInv == IndInv /\ AckedWasAccepted

\* The client stops resending only calls that the session accepted
\* (parseData's m_mapSeqInfo.remove against ProcCgcData's early ack).
THEOREM AckedSound == ASSUME NoReuse, RingFits PROVE Spec => []AckedWasAccepted
<1>1. Init => AckedInv
  BY InitInd DEF Init, AckedInv, AckedWasAccepted
<1>2. ASSUME AckedInv, [Next]_vars PROVE AckedInv'
  <2>1. IndInv'
    BY <1>2, StepInd DEF AckedInv
  <2>2. CASE \E a \in acks : RecvAck(a)
    <3>1. PICK a \in acks : RecvAck(a)
      BY <2>2
    <3>2. \A p \in pending : p.seq = a.seq => accepted[p.call] > 0
      BY <1>2 DEF AckedInv, IndInv, Numbers, Taken
    <3> QED BY <1>2, <2>1, <3>1, <3>2 DEF AckedInv, AckedWasAccepted, RecvAck, sessionVars
  <2>3. CASE \E m \in calls : RecvNewCall(m)
    BY <1>2, <2>1, <2>3 DEF AckedInv, AckedWasAccepted, RecvNewCall, clientVars, IndInv, TypeOK, CallMsg
  <2>4. CASE SendCall
    BY <1>2, <2>1, <2>4 DEF AckedInv, AckedWasAccepted, SendCall, sessionVars, IndInv, TypeOK
  <2>5. CASE CheckSeqTimeout
    BY <1>2, <2>1, <2>5 DEF AckedInv, AckedWasAccepted, CheckSeqTimeout, sessionVars
  <2>6. CASE RecvStopNotice
    BY <1>2, <2>1, <2>6 DEF AckedInv, AckedWasAccepted, RecvStopNotice, sessionVars
  <2>7. CASE UNCHANGED <<outcome, accepted>>
    BY <1>2, <2>1, <2>7 DEF AckedInv, AckedWasAccepted
  <2> QED BY <1>2, <2>2, <2>3, <2>4, <2>5, <2>6, <2>7
        DEF Next, vars, clientVars, netVars, sessionVars, RecvDuplicate, Execute, AppStop, Tick
<1> QED BY <1>1, <1>2, PTL DEF Spec, AckedInv

\* Two copies of a call are never both taken within Window, for any resend
\* count, delay and polling lag (ProcessDuplationSeq).
THEOREM SpacedDuplicates == ASSUME NoReuse, RingFits PROVE Spec => DuplicateSpacing
<1> DEFINE A == \A c \in Call : accepted[c] > 0 /\ accepted'[c] > accepted[c] => now - acceptedAt[c] > Window
<1>1. ASSUME IndInv, [Next]_vars PROVE [A]_vars
  <2> SUFFICES ASSUME Next, NEW c \in Call, accepted[c] > 0, accepted'[c] > accepted[c]
               PROVE  now - acceptedAt[c] > Window
    BY <1>1
  <2>1. accepted[c] \in Nat /\ accepted' # accepted
    BY <1>1 DEF IndInv, TypeOK
  <2>2. PICK m \in calls : RecvNewCall(m)
    BY <2>1 DEF Next, SendCall, CheckSeqTimeout, RecvAck, RecvStopNotice, RecvDuplicate, Execute, AppStop, Tick,
         sessionVars
  <2>3. m.call = c /\ m.seq = c
    <3>1. m.call \in Call /\ m.seq = m.call /\ accepted \in [Call -> Nat]
      BY <1>1 DEF IndInv, Numbers, TypeOK, CallMsg
    <3>2. accepted' = [accepted EXCEPT ![m.call] = @ + 1]
      BY <2>2 DEF RecvNewCall
    <3> QED BY <2>1, <3>1, <3>2
  <2>4. /\ acceptedAt[c] <= lastSeq
        /\ (\E s \in Slot : masks[s] = c) \/ now - acceptedAt[c] > Window
    BY <1>1 DEF IndInv, Covered
  <2>5. Quiet \/ ~\E s \in Slot : masks[s] = c
    BY <2>2, <2>3 DEF RecvNewCall, Duplicate
  <2>6. acceptedAt[c] \in Nat /\ lastSeq \in Nat /\ now \in Nat
    BY <1>1 DEF IndInv, TypeOK
  <2> QED BY <2>4, <2>5, <2>6, ConstAssumption DEF Quiet
<1>2. Spec => []IndInv
  BY Inductive
<1> QED BY <1>1, <1>2, PTL DEF Spec, DuplicateSpacing

OnceInv == IndInv /\ AtMostOnce

\* While the resends fit the window, each step is one of CallOnce or stutters.
LEMMA OnceStep ==
  ASSUME NoReuse, RingFits, ResendsFitWindow, OnceInv, [Next]_vars PROVE OnceInv'
<1>1. IndInv'
  BY StepInd DEF OnceInv
<1>2. ASSUME NEW m \in calls, RecvNewCall(m) PROVE accepted[m.call] = 0
  <2> DEFINE c == m.call
  <2>1. c \in Call /\ m.seq = c /\ accepted[c] \in Nat /\ m.at \in Nat
    BY DEF OnceInv, IndInv, Numbers, TypeOK, CallMsg
  <2> SUFFICES ASSUME accepted[c] > 0 PROVE FALSE
    BY <2>1
  <2>2. now - acceptedAt[c] > Window
    <3>1. /\ acceptedAt[c] <= lastSeq
          /\ (\E s \in Slot : masks[s] = c) \/ now - acceptedAt[c] > Window
      BY <2>1 DEF OnceInv, IndInv, Covered
    <3>2. Quiet \/ ~\E s \in Slot : masks[s] = c
      BY <1>2, <2>1 DEF RecvNewCall, Duplicate
    <3> QED BY <2>1, <3>1, <3>2, ConstAssumption DEF Quiet, OnceInv, IndInv, TypeOK
  <2>3. /\ now - m.at <= MaxDelay /\ m.at - issuedAt[c] <= MaxResends * Gap
        /\ issuedAt[c] <= acceptedAt[c]
    BY <2>1 DEF OnceInv, IndInv, Timing
  <2>4. MaxResends * Gap + MaxDelay <= Window
    BY DEF ResendsFitWindow, Gap
  <2>5. acceptedAt[c] \in Nat /\ issuedAt[c] \in Nat /\ now \in Nat /\ Window \in Nat /\ MaxDelay \in Nat
    BY <2>1, ConstAssumption DEF OnceInv, IndInv, TypeOK
  <2>6. MaxResends * Gap \in Nat
    BY ConstAssumption DEF Gap
  <2> DEFINE reach == MaxResends * Gap
  <2>7. reach \in Nat /\ m.at - issuedAt[c] <= reach /\ reach + MaxDelay <= Window
    BY <2>3, <2>4, <2>6
  <2> HIDE DEF reach
  <2> QED BY <2>1, <2>2, <2>3, <2>5, <2>7
<1>3. CASE \E m \in calls : RecvNewCall(m)
  <2>1. PICK m \in calls : RecvNewCall(m)
    BY <1>3
  <2>2. accepted' = [accepted EXCEPT ![m.call] = @ + 1] /\ accepted[m.call] = 0
    BY <1>2, <2>1 DEF RecvNewCall
  <2>3. accepted \in [Call -> Nat] /\ \A c \in Call : accepted[c] <= 1
    BY DEF OnceInv, AtMostOnce, IndInv, TypeOK
  <2> QED BY <1>1, <2>2, <2>3 DEF OnceInv, AtMostOnce
<1>4. CASE UNCHANGED accepted
  BY <1>1, <1>4 DEF OnceInv, AtMostOnce
<1> QED BY <1>3, <1>4 DEF Next, vars, sessionVars, SendCall, CheckSeqTimeout, RecvAck, RecvStopNotice, RecvDuplicate,
        Execute, AppStop, Tick

\* With resend settings that fit the ring's window a call is accepted at
\* most once, whatever the network repeats, delays or loses.
THEOREM ExactlyBounded == ASSUME NoReuse, RingFits, ResendsFitWindow PROVE Spec => []AtMostOnce
<1>1. Init => OnceInv
  BY InitInd DEF Init, OnceInv, AtMostOnce
<1>2. OnceInv /\ [Next]_vars => OnceInv'
  BY OnceStep
<1> QED BY <1>1, <1>2, PTL DEF Spec, OnceInv

\* OnCidTimeout comes only after all the resends and their waiting times
\* (checkSeqTimeout, isTimeout, canResendAgain).
THEOREM PatientTimeout == ASSUME NoReuse, RingFits PROVE Spec => GiveUpPatience
<1> DEFINE A == \A c \in Call : outcome[c] # "timeout" /\ outcome'[c] = "timeout" =>
                              now - issuedAt[c] >= (MaxResends + 1) * RTO
<1>1. ASSUME IndInv, [Next]_vars PROVE [A]_vars
  <2> SUFFICES ASSUME Next, NEW c \in Call, outcome[c] # "timeout", outcome'[c] = "timeout"
               PROVE  now - issuedAt[c] >= (MaxResends + 1) * RTO
    BY <1>1
  <2>1. CheckSeqTimeout
    <3>1. ~SendCall
      BY <1>1 DEF SendCall, IndInv, TypeOK
    <3>2. ~RecvStopNotice /\ ~\E a \in acks : RecvAck(a)
      BY DEF RecvStopNotice, RecvAck
    <3> QED BY <3>1, <3>2 DEF Next, RecvNewCall, RecvDuplicate, Execute, AppStop, Tick, clientVars
  <2>2. PICK p \in Expired : p.cid = c
    BY <2>1 DEF CheckSeqTimeout
  <2>3. p \in pending /\ p.call = c /\ p.resends >= MaxResends /\ now - p.sent >= RTO
    BY <1>1, <2>2 DEF Expired, Spent, Due, IndInv, Numbers
  <2>4. p.resends = MaxResends /\ p.sent \in Nat /\ now \in Nat /\ issuedAt[c] \in Nat
    BY <1>1, <2>3, ConstAssumption DEF IndInv, TypeOK, Entry
  <2>5. p.sent - issuedAt[c] >= MaxResends * RTO
    BY <1>1, <2>3, <2>4 DEF IndInv, Timing
  <2>6. MaxResends * RTO \in Nat /\ (MaxResends + 1) * RTO = MaxResends * RTO + RTO /\ RTO \in Nat
    BY ConstAssumption
  <2> DEFINE wait == MaxResends * RTO
  <2>7. wait \in Nat /\ p.sent - issuedAt[c] >= wait /\ (MaxResends + 1) * RTO = wait + RTO
    BY <2>5, <2>6
  <2> HIDE DEF wait
  <2> QED BY <2>3, <2>4, <2>6, <2>7
<1>2. Spec => []IndInv
  BY Inductive
<1> QED BY <1>1, <1>2, PTL DEF Spec, GiveUpPatience

-----------------------------------------------------------------------------
(* Refinement *)

\* Every step of the client, the network and the session is a step of the
\* abstract call or leaves it unchanged.
LEMMA StepRefines ==
  ASSUME NoReuse, RingFits, ResendsFitWindow, OnceInv, OnceInv', [Next]_vars
  PROVE  [Abs!Next]_(Abs!vars)
<1> DEFINE st == [c \in Call |-> AbsStatus(c)]
           sv == [c \in Call |-> AbsService(c)]
<1>0. TypeOK /\ AtMostOnce /\ TypeOK'
  BY DEF OnceInv, IndInv
<1>1. CASE SendCall
  <2> DEFINE c == issued + 1
  <2>1. c \in Call /\ outcome[c] = "idle"
    BY <1>0, <1>1 DEF SendCall, OnceInv, IndInv, Waiting, TypeOK
  <2>2. st[c] = "idle" /\ st' = [st EXCEPT ![c] = "open"]
    BY <1>0, <1>1, <2>1 DEF SendCall, AbsStatus, TypeOK
  <2>3. sv' = sv
    BY <1>1 DEF SendCall, sessionVars, AbsService
  <2> QED BY <2>1, <2>2, <2>3 DEF Abs!Next, Abs!Issue
<1>2. CASE CheckSeqTimeout
  <2> DEFINE S == {c \in Call : \E p \in Expired : p.cid = c}
  <2>1. \A c \in S : outcome[c] = "open"
    BY DEF Expired, Spent, Due, OnceInv, IndInv, Numbers, Waiting
  <2>2. (\A c \in S : st[c] = "open") /\ st' = [c \in Call |-> IF c \in S THEN "failed" ELSE st[c]]
    BY <1>2, <2>1 DEF CheckSeqTimeout, AbsStatus
  <2>3. sv' = sv
    <3>1. UNCHANGED <<accepted, runs, stoppedAt>>
      BY <1>2 DEF CheckSeqTimeout, sessionVars
    <3> QED BY <3>1 DEF AbsService
  <2>4. S \in SUBSET Call
    OBVIOUS
  <2> HIDE DEF S
  <2> QED BY <2>2, <2>3, <2>4 DEF Abs!Next, Abs!Fail
<1>3. ASSUME NEW a \in acks, RecvAck(a) PROVE [Abs!Next]_(Abs!vars)
  <2>1. sv' = sv
    <3>1. UNCHANGED <<accepted, runs, stoppedAt>>
      BY <1>3 DEF RecvAck, sessionVars
    <3> QED BY <3>1 DEF AbsService
  <2>2. CASE ~\E p \in pending : p.seq = a.seq
    <3>1. outcome' = outcome
      BY <1>0, <1>3, <2>2 DEF RecvAck, TypeOK
    <3>2. st' = st
      BY <3>1 DEF AbsStatus
    <3> QED BY <2>1, <3>2 DEF Abs!vars
  <2>3. CASE \E p \in pending : p.seq = a.seq
    <3>1. PICK p \in pending : p.seq = a.seq
      BY <2>3
    <3> DEFINE c == p.call
    <3>2. c \in Call /\ c = a.seq /\ outcome[c] = "open" /\ accepted[c] > 0
      BY <1>0, <3>1 DEF OnceInv, IndInv, Numbers, Waiting, Taken, TypeOK, Entry
    <3>3. \A q \in pending : q.seq = a.seq => q.call = c
      BY <3>1, <3>2 DEF OnceInv, IndInv, Numbers
    <3>4. outcome' = [outcome EXCEPT ![c] = "acked"]
      BY <1>0, <1>3, <3>1, <3>2, <3>3 DEF RecvAck, TypeOK
    <3>5. st[c] = "open" /\ st' = [st EXCEPT ![c] = "confirmed"]
      BY <1>0, <3>2, <3>4 DEF AbsStatus, TypeOK
    <3>6. sv[c] # "none"
      BY <1>0, <3>2 DEF AbsService, TypeOK
    <3> QED BY <2>1, <3>2, <3>5, <3>6 DEF Abs!Next, Abs!Confirm
  <2> QED BY <2>2, <2>3
<1>4. CASE RecvStopNotice
  <2> DEFINE S == {c \in Call : \E p \in pending : p.call = c}
  <2>1. \A c \in S : outcome[c] = "open"
    BY DEF OnceInv, IndInv, Waiting
  <2>2. (\A c \in S : st[c] = "open") /\ st' = [c \in Call |-> IF c \in S THEN "failed" ELSE st[c]]
    BY <1>4, <2>1 DEF RecvStopNotice, AbsStatus
  <2>3. sv' = sv
    BY <1>4 DEF RecvStopNotice, sessionVars, AbsService
  <2>4. S \in SUBSET Call
    OBVIOUS
  <2> HIDE DEF S
  <2> QED BY <2>2, <2>3, <2>4 DEF Abs!Next, Abs!Fail
<1>5. ASSUME NEW m \in calls, RecvNewCall(m) PROVE [Abs!Next]_(Abs!vars)
  <2> DEFINE c == m.call
  <2>1. c \in Call /\ c <= issued /\ outcome[c] # "idle"
    BY <1>0 DEF OnceInv, IndInv, Numbers, Waiting, TypeOK, CallMsg, Call
  <2>2. accepted' = [accepted EXCEPT ![c] = @ + 1] /\ accepted \in [Call -> Nat]
    BY <1>0, <1>5 DEF RecvNewCall, TypeOK
  <2>3. accepted[c] = 0 /\ accepted'[c] = 1
    BY <2>1, <2>2 DEF OnceInv, AtMostOnce
  <2>4. runs' = runs /\ stoppedAt' = stoppedAt /\ stoppedAt = Never /\ runs[c] = 0
    BY <1>0, <1>5, <2>1, <2>3 DEF RecvNewCall, OnceInv, IndInv, Taken, TypeOK
  <2>5. sv[c] = "none" /\ sv' = [sv EXCEPT ![c] = "taken"]
    BY <1>0, <2>1, <2>2, <2>3, <2>4 DEF AbsService, TypeOK
  <2>6. st' = st /\ st[c] # "idle"
    BY <1>5, <2>1 DEF RecvNewCall, clientVars, AbsStatus
  <2> QED BY <2>1, <2>5, <2>6 DEF Abs!Next, Abs!Take
<1>6. ASSUME NEW c \in Call, Execute(c) PROVE [Abs!Next]_(Abs!vars)
  <2>1. accepted[c] = 1 /\ runs[c] = 0 /\ stoppedAt = Never /\ runs' = [runs EXCEPT ![c] = 1]
    <3>1. accepted[c] \in Nat /\ accepted[c] <= 1 /\ runs[c] \in Nat /\ runs[c] < accepted[c]
      BY <1>0, <1>6 DEF Execute, AtMostOnce, TypeOK
    <3>2. accepted[c] = 1 /\ runs[c] = 0
      BY <3>1
    <3> QED BY <1>6, <3>2 DEF Execute
  <2>2. accepted' = accepted /\ stoppedAt' = stoppedAt /\ st' = st
    BY <1>6 DEF Execute, clientVars, sessionVars, AbsStatus
  <2>3. runs'[c] = 1 /\ \A d \in Call : d # c => runs'[d] = runs[d]
    BY <1>0, <2>1 DEF TypeOK
  <2>4. AbsService(c) = "taken" /\ AbsService(c)' = "done"
    BY <2>1, <2>2, <2>3 DEF AbsService
  <2>5. \A d \in Call : d # c => AbsService(d)' = AbsService(d)
    BY <2>2, <2>3 DEF AbsService
  <2>6. sv[c] = "taken" /\ sv' = [sv EXCEPT ![c] = "done"]
    BY <2>4, <2>5
  <2> QED BY <2>2, <2>6 DEF Abs!Next, Abs!Perform
<1>7. CASE AppStop
  <2>1. st' = st /\ accepted' = accepted /\ runs' = runs /\ stoppedAt = Never /\ stoppedAt' # Never
    BY <1>0, <1>7 DEF AppStop, clientVars, sessionVars, AbsStatus, TypeOK, Never
  <2>2. sv' = [c \in Call |-> IF sv[c] = "taken" THEN "lost" ELSE sv[c]]
    <3>1. \A c \in Call : AbsService(c)' = IF AbsService(c) = "taken" THEN "lost" ELSE AbsService(c)
      BY <2>1 DEF AbsService
    <3> QED BY <3>1
  <2> QED BY <2>1, <2>2 DEF Abs!Next, Abs!Shutdown
<1>8. CASE UNCHANGED <<outcome, accepted, runs, stoppedAt>>
  BY <1>8 DEF Abs!vars, AbsStatus, AbsService
<1> QED BY <1>1, <1>2, <1>3, <1>4, <1>5, <1>6, <1>7, <1>8
      DEF Next, vars, clientVars, sessionVars, RecvDuplicate, Tick

\* The client and the session implement the abstract call (CallOnce).
THEOREM ImplementsCallOnce == ASSUME NoReuse, RingFits, ResendsFitWindow PROVE Spec => CallOnceSafety
<1>1. Init => Abs!Init
  BY DEF Init, Abs!Init, AbsStatus, AbsService
<1>2. Init => OnceInv
  BY InitInd DEF Init, OnceInv, AtMostOnce
<1>3. OnceInv /\ [Next]_vars => OnceInv'
  BY OnceStep
<1>4. OnceInv /\ OnceInv' /\ [Next]_vars => [Abs!Next]_(Abs!vars)
  BY StepRefines
<1> QED BY <1>1, <1>2, <1>3, <1>4, PTL DEF Spec, CallOnceSafety, Abs!Spec
=============================================================================
