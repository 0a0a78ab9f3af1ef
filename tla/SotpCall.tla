------------------------------ MODULE SotpCall ------------------------------
(***************************************************************************)
(* Acknowledged calls of a SOTP client to a server session, over datagrams *)
(* that may be lost, repeated, delayed and reordered.                      *)
(*                                                                         *)
(* The client (CGCLib/CgcBaseClient.cpp) gives each call the next 16-bit   *)
(* sequence number, keeps it in m_mapSeqInfo until an acknowledgement of   *)
(* that number arrives, sends it again every three seconds and gives it up *)
(* after m_timeoutResends repetitions.  The server (CGCApp::ProcCgcData)   *)
(* acknowledges every copy it reads, then drops the copies whose number is *)
(* in the session's ring of recent numbers (CSessionImpl::                 *)
(* ProcessDuplationSeq) and runs the others.  The ring is forgotten when   *)
(* no numbered message arrived for more than twelve seconds.               *)
(*                                                                         *)
(* One session is established before the model starts and stays            *)
(* registered; opening, closing and the results the server sends back are  *)
(* the subject of SotpSession.  Handling one datagram is one step because  *)
(* ProcessDuplationSeq runs under m_recvSeq; the call itself runs in a     *)
(* later step, Execute, on whichever thread holds the datagram.            *)
(***************************************************************************)
EXTENDS Integers, FiniteSets

CONSTANTS
  MaxCalls,      \* bound: calls the application makes
  SeqMod,        \* sequence numbers are 0 .. SeqMod-1 (2^16 in the code)
  RTO,           \* time an entry waits before it is due (3 s in the code)
  MaxResends,    \* m_timeoutResends (5 by default, setCIDTResends changes it)
  ResendBatch,   \* entries one pass of checkSeqTimeout resends (11 in the code)
  Window,        \* quiet time after which the ring is forgotten (12 s)
  MaskSize,      \* MAX_SEQ_MASKS_SIZE (500)
  MaxDelay,      \* environment: a datagram older than this is lost
  PollLag,       \* scheduling: how late checkSeqTimeout may see a due entry
  LastIssue,     \* bound: no call is made after this time
  MaxTime        \* bound: the clock stops here

ASSUME ConstAssumption ==
  /\ {MaxCalls, SeqMod, RTO, ResendBatch, MaskSize, MaxTime} \subseteq Nat \ {0}
  /\ {MaxResends, Window, MaxDelay, PollLag, LastIssue} \subseteq Nat

Call   == 1 .. MaxCalls
Seq16  == 0 .. SeqMod - 1
Slot   == 0 .. MaskSize - 1
Empty  == -1                  \* memset(m_pReceiveSeqMasks, -1, ...)
Never  == -1

VARIABLES
  now,           \* time(0), on both sides
  curSeq,        \* m_nCurrentSeq of the client's call table
  issued,        \* calls made so far; call c is the c-th (getNextCallId)
  pending,       \* m_mapSeqInfo: [seq, cid, call, resends, sent], one per seq
  outcome,       \* what the application learnt of each call
  calls,         \* call datagrams in flight: [seq, call, at]
  acks,          \* acknowledgements in flight: [seq, at]
  masks,         \* m_pReceiveSeqMasks
  cursor,        \* m_nDataIndex % MAX_SEQ_MASKS_SIZE
  lastSeq,       \* m_tLastSeq
  stoppedAt,     \* time m_bStopedApp became true, or Never
  accepted,      \* copies of each call that passed the duplicate check
  runs,          \* times each call was performed
  issuedAt,      \* history: when each call was made
  acceptedAt     \* history: when a copy was last accepted

clientVars  == <<curSeq, issued, pending, outcome, issuedAt>>
netVars     == <<calls, acks>>
sessionVars == <<masks, cursor, lastSeq, accepted, acceptedAt>>
vars == <<now, clientVars, netVars, sessionVars, stoppedAt, runs>>

Outcome == {"idle", "open", "acked", "timeout", "dropped"}
Entry   == [seq : Seq16, cid : Call, call : Call, resends : 0 .. MaxResends, sent : 1 .. MaxTime]
CallMsg == [seq : Seq16, call : Call, at : 1 .. MaxTime]
AckMsg  == [seq : Seq16, at : 1 .. MaxTime]

Init ==
  /\ now = 1
  /\ curSeq = 0 /\ issued = 0
  /\ pending = {}
  /\ outcome = [c \in Call |-> "idle"]
  /\ calls = {} /\ acks = {}
  /\ masks = [s \in Slot |-> Empty] /\ cursor = 0 /\ lastSeq = 0
  /\ stoppedAt = Never
  /\ accepted = [c \in Call |-> 0] /\ runs = [c \in Call |-> 0]
  /\ issuedAt = [c \in Call |-> 0] /\ acceptedAt = [c \in Call |-> 0]

-----------------------------------------------------------------------------
(* The client *)

NextSeq == (curSeq + 1) % SeqMod

\* Faulty variant: the call is sent without being registered for resending.
AddSeqInfoForgets(seq, c) == pending

\* addSeqInfo: an entry that still holds this number keeps its cid and its
\* resend count and gets the new data and send time.
AddSeqInfo(seq, c) ==
  LET old == {p \in pending : p.seq = seq}
      new == [seq |-> seq, cid |-> c, call |-> c, resends |-> 0, sent |-> now]
  IN  (pending \ old) \cup
        (IF old = {} THEN {new} ELSE {[p EXCEPT !.call = c, !.sent = now] : p \in old})

\* sendAppCall2 with bNeedAck: number the call, register it, send it.
SendCall ==
  LET c == issued + 1 IN
  /\ c \in Call /\ now <= LastIssue
  /\ issued' = c
  /\ curSeq' = NextSeq
  /\ pending' = AddSeqInfo(NextSeq, c)
  /\ calls' = calls \cup {[seq |-> NextSeq, call |-> c, at |-> now]}
  /\ outcome' = [outcome EXCEPT ![c] = "open"]
  /\ issuedAt' = [issuedAt EXCEPT ![c] = now]
  /\ UNCHANGED <<now, acks, sessionVars, stoppedAt, runs>>

\* Faulty variant: one resend too few.
SpentEarly == {p \in pending : now - p.sent >= RTO /\ p.resends >= MaxResends - 1}

Due    == {p \in pending : now - p.sent >= RTO}
Spent  == {p \in Due : p.resends >= MaxResends}
Before(p) == {q \in Due \ Spent : q.seq < p.seq}

\* The loop of checkSeqTimeout walks the entries by number: it resends the
\* due ones until it has sent ResendBatch of them or meets a spent one.
Resent ==
  {p \in Due \ Spent : /\ Cardinality(Before(p)) < ResendBatch
                       /\ \A q \in Spent : p.seq < q.seq}
\* The first spent entry it reaches is erased and ends the pass.
Expired ==
  {p \in Spent : /\ Cardinality(Before(p)) < ResendBatch
                 /\ \A q \in Spent : p.seq <= q.seq}

CheckSeqTimeout ==
  /\ Due # {}
  /\ pending' = (pending \ (Resent \cup Expired)) \cup
                  {[p EXCEPT !.resends = @ + 1, !.sent = now] : p \in Resent}
  /\ calls' = calls \cup {[seq |-> p.seq, call |-> p.call, at |-> now] : p \in Resent}
  /\ outcome' = [c \in Call |-> IF \E p \in Expired : p.cid = c THEN "timeout" ELSE outcome[c]]
  /\ UNCHANGED <<now, curSeq, issued, issuedAt, acks, sessionVars, stoppedAt, runs>>

\* parseData of an acknowledgement: m_mapSeqInfo.remove(seq).
RecvAck(a) ==
  LET done == {p \in pending : p.seq = a.seq} IN
  /\ pending' = pending \ done
  /\ outcome' = [c \in Call |-> IF \E p \in done : p.call = c THEN "acked" ELSE outcome[c]]
  /\ UNCHANGED <<now, curSeq, issued, issuedAt, netVars, sessionVars, stoppedAt, runs>>

\* parseData of result -117 (the server is stopping): m_mapSeqInfo.clear().
RecvStopNotice ==
  /\ stoppedAt # Never /\ now - stoppedAt <= MaxDelay
  /\ pending' = {}
  /\ outcome' = [c \in Call |-> IF \E p \in pending : p.call = c THEN "dropped" ELSE outcome[c]]
  /\ UNCHANGED <<now, curSeq, issued, issuedAt, netVars, sessionVars, stoppedAt, runs>>

-----------------------------------------------------------------------------
(* The server session *)

\* Faulty variants: the ring index is not reduced; only the newest number is
\* compared.
NextSlotUnbounded == cursor + 1
DuplicateOfNewest(seq) == masks[cursor] = seq

NextSlot == (cursor + 1) % MaskSize

Quiet == lastSeq > 0 /\ now - lastSeq > Window

Duplicate(seq) == ~Quiet /\ \E s \in Slot : masks[s] = seq

\* ProcCgcData acknowledges before it looks for a duplicate.
Acknowledge(seq) == acks' = acks \cup {[seq |-> seq, at |-> now]}

RecvNewCall(m) ==
  /\ stoppedAt = Never
  /\ ~Duplicate(m.seq)
  /\ Acknowledge(m.seq)
  /\ lastSeq' = now
  /\ cursor' = NextSlot
  /\ masks' = [[s \in Slot |-> IF Quiet THEN Empty ELSE masks[s]] EXCEPT ![NextSlot] = m.seq]
  /\ accepted' = [accepted EXCEPT ![m.call] = @ + 1]
  /\ acceptedAt' = [acceptedAt EXCEPT ![m.call] = now]
  /\ UNCHANGED <<now, clientVars, calls, stoppedAt, runs>>

RecvDuplicate(m) ==
  /\ stoppedAt = Never
  /\ Duplicate(m.seq)
  /\ Acknowledge(m.seq)
  /\ lastSeq' = now
  /\ UNCHANGED <<now, clientVars, calls, masks, cursor, accepted, acceptedAt, stoppedAt, runs>>

\* Faulty variant: m_bStopedApp is not looked at again before the call.
ExecuteAfterStop(c) ==
  /\ runs[c] < accepted[c]
  /\ runs' = [runs EXCEPT ![c] = @ + 1]
  /\ UNCHANGED <<now, clientVars, netVars, sessionVars, stoppedAt>>

\* ProcAppProto returns at once when m_bStopedApp is set.
Execute(c) ==
  /\ stoppedAt = Never
  /\ runs[c] < accepted[c]
  /\ runs' = [runs EXCEPT ![c] = @ + 1]
  /\ UNCHANGED <<now, clientVars, netVars, sessionVars, stoppedAt>>

\* AppStop: no datagram is read any more and the clients are sent -117.
AppStop ==
  /\ stoppedAt = Never
  /\ stoppedAt' = now
  /\ UNCHANGED <<now, clientVars, netVars, sessionVars, runs>>

-----------------------------------------------------------------------------
(* Time: old datagrams are lost, and the polling thread is never later than *)
(* PollLag with an entry that is due.                                       *)

Alive(m, t) == t - m.at <= MaxDelay

Tick ==
  /\ now < MaxTime
  /\ \A p \in pending : now - p.sent < RTO + PollLag
  /\ now' = now + 1
  /\ calls' = {m \in calls : Alive(m, now')}
  /\ acks' = {a \in acks : Alive(a, now')}
  /\ UNCHANGED <<clientVars, sessionVars, stoppedAt, runs>>

Next ==
  \/ SendCall
  \/ CheckSeqTimeout
  \/ \E a \in acks : RecvAck(a)
  \/ RecvStopNotice
  \/ \E m \in calls : RecvNewCall(m) \/ RecvDuplicate(m)
  \/ \E c \in Call : Execute(c)
  \/ AppStop
  \/ Tick

Spec == Init /\ [][Next]_vars

\* The polling thread, the server's worker and the clock go on; the network
\* owes nothing, the application need not call and the server need not stop.
FairSpec ==
  /\ Spec
  /\ WF_vars(CheckSeqTimeout)
  /\ WF_vars(Tick)
  /\ \A c \in Call : WF_vars(Execute(c))

-----------------------------------------------------------------------------
(* Properties *)

TypeOK ==
  /\ now \in 1 .. MaxTime
  /\ curSeq \in Seq16 /\ issued \in 0 .. MaxCalls
  /\ pending \subseteq Entry
  /\ outcome \in [Call -> Outcome]
  /\ calls \subseteq CallMsg /\ acks \subseteq AckMsg
  /\ masks \in [Slot -> Seq16 \cup {Empty}] /\ cursor \in Slot
  /\ lastSeq \in 0 .. MaxTime
  /\ stoppedAt \in 1 .. MaxTime \cup {Never}
  /\ accepted \in [Call -> Nat] /\ runs \in [Call -> Nat]
  /\ issuedAt \in [Call -> 0 .. MaxTime] /\ acceptedAt \in [Call -> 0 .. MaxTime]

\* A call passes the session's duplicate check at most once, however many
\* copies of it arrive ("Receive duplation message", SessionMgr.cpp:900).
AtMostOnce == \A c \in Call : accepted[c] <= 1

\* The last copy of a call can reach the server no later than Window after
\* the first: the condition on the code's constants that AtMostOnce needs.
ResendsFitWindow == MaxResends * (RTO + PollLag) + MaxDelay <= Window

\* Whatever the resend settings, a call accepted twice is accepted again
\* only after more than Window: the session never takes two copies of one
\* call inside the time its ring covers.
DuplicateSpacing ==
  [][\A c \in Call :
       accepted[c] > 0 /\ accepted'[c] > accepted[c] => now - acceptedAt[c] > Window]_vars

\* A call whose acknowledgement removed it from m_mapSeqInfo was accepted by
\* the session: the client never stops resending a call that no one took.
AckedWasAccepted == \A c \in Call : outcome[c] = "acked" => accepted[c] > 0

\* OnCidTimeout is reported only after every resend was made and had its
\* full waiting time: no call is given up early.
GiveUpPatience ==
  [][\A c \in Call :
       outcome[c] # "timeout" /\ outcome'[c] = "timeout" =>
         now - issuedAt[c] >= (MaxResends + 1) * RTO]_vars

\* Every call is in the end acknowledged, reported as timed out or dropped
\* by the server's stop notice, whatever the network loses.
Resolved == \A c \in Call : outcome[c] = "open" ~> outcome[c] # "open"

-----------------------------------------------------------------------------
(* Refinement of the abstract specification *)

AbsStatus(c) ==
  CASE outcome[c] = "idle"  -> "idle"
    [] outcome[c] = "open"  -> "open"
    [] outcome[c] = "acked" -> "confirmed"
    [] OTHER                -> "failed"

AbsService(c) ==
  IF accepted[c] = 0 THEN "none"
  ELSE IF runs[c] > 0 THEN "done"
  ELSE IF stoppedAt = Never THEN "taken" ELSE "lost"

Abs == INSTANCE CallOnce WITH
         status  <- [c \in Call |-> AbsStatus(c)],
         service <- [c \in Call |-> AbsService(c)]

\* Under ResendsFitWindow the client and the session together keep the
\* promise of an acknowledged call: taken at most once, confirmed only when
\* taken, settled in the end.
CallOnceSafety == Abs!Spec
CallOnceFair   == Abs!FairSpec
=============================================================================
