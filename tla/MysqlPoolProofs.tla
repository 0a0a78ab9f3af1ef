-------------------------- MODULE MysqlPoolProofs --------------------------
(***************************************************************************)
(* The pool of MySQL connections keeps its books for any number of         *)
(* threads, sinks, walks and failed additions.                             *)
(*                                                                         *)
(* NoLostSink, Exclusive, ClosedBeyondSize and LentConnected each need the *)
(* others, and Held: what a client owns is among the sinks in use, so that *)
(* SinkAdd takes nobody's sink and SinkDel, which spares a busy one,       *)
(* closes nobody's.                                                        *)
(***************************************************************************)
EXTENDS MysqlPool, TLAPS

Held == \A c \in Client : Owns(c) => at[c] \in 1 .. size

Books == Held /\ Exclusive /\ NoLostSink /\ ClosedBeyondSize /\ LentConnected

IInv == TypeOK /\ Books

Owning == {"reconnect", "got", "trim", "query", "rows", "trans"}
Away   == {"idle", "enter", "walk", "add"}

SinkType == [busy : BOOLEAN, conn : BOOLEAN, aged : BOOLEAN]

-----------------------------------------------------------------------------
(* Four ways in which a step of one client touches the books *)

\* A client that has no sink does something that gives it none.
LEMMA Elsewhere ==
  ASSUME IInv, NEW c \in Client, NEW l \in Away,
         ~Owns(c), pc' = [pc EXCEPT ![c] = l],
         \A d \in Client \ {c} : at'[d] = at[d],
         UNCHANGED <<size, sink>>
  PROVE  Books'
PROOF
<1>1. \A d \in Client : Owns(d)' => Owns(d) /\ d # c
  BY DEF IInv, TypeOK, Owns, Away
<1>2. \A d \in Client : Owns(d) => Owns(d)' /\ d # c
  BY DEF IInv, TypeOK, Owns, Away
<1>3. LentConnected'
  BY <1>1 DEF IInv, TypeOK, Books, LentConnected, Away
<1> QED
  BY <1>1, <1>2, <1>3 DEF IInv, Books, Held, Exclusive, NoLostSink, ClosedBeyondSize

\* A client that has a sink goes on with it.
LEMMA GoesOn ==
  ASSUME IInv, NEW c \in Client, NEW l \in Owning,
         Owns(c), pc' = [pc EXCEPT ![c] = l],
         \A s \in Sink \ {at[c]} : sink'[s] = sink[s],
         sink'[at[c]].busy,
         l \in {"got", "trim", "query"} => sink'[at[c]].conn,
         UNCHANGED <<size, at>>
  PROVE  Books'
PROOF
<1>1. \A d \in Client : Owns(d)' <=> Owns(d)
  BY DEF IInv, TypeOK, Owns, Owning
<1>2. at[c] \in 1 .. size /\ \A d \in Client : Owns(d) => at[d] \in 1 .. size
  BY DEF IInv, Books, Held
<1>3. 1 .. size \subseteq Sink
  BY SizeAssumption DEF IInv, TypeOK, Sink
<1>4. Held' /\ Exclusive'
  BY <1>1 DEF IInv, Books, Held, Exclusive
<1>5. NoLostSink'
  BY <1>1, <1>2, <1>3 DEF IInv, Books, NoLostSink
<1>6. ClosedBeyondSize'
  <2>1. size \in Nat
    BY SizeAssumption DEF IInv, TypeOK
  <2>2. \A s \in Sink : s > size => s # at[c]
    BY <1>2, <2>1, SizeAssumption DEF Sink
  <2> QED
    BY <2>2 DEF IInv, Books, ClosedBeyondSize
<1>7. LentConnected'
  <2> SUFFICES ASSUME NEW d \in Client, pc'[d] \in {"got", "trim", "query"}
               PROVE  sink'[at[d]].conn
    BY DEF LentConnected
  <2>1. CASE d = c
    BY <2>1 DEF IInv, TypeOK
  <2>2. CASE d # c
    <3>1. pc[d] = pc'[d] /\ Owns(d)
      BY <2>2 DEF IInv, TypeOK, Owns
    <3>2. at[d] # at[c] /\ at[d] \in Sink
      BY <2>2, <3>1, <1>2, <1>3 DEF IInv, Books, Exclusive
    <3> QED
      BY <3>1, <3>2 DEF IInv, Books, LentConnected
  <2> QED BY <2>1, <2>2
<1> QED
  BY <1>4, <1>5, <1>6, <1>7 DEF Books

\* A client gives its sink back.
LEMMA GivesBack ==
  ASSUME IInv, NEW c \in Client, NEW l \in Away,
         Owns(c), pc' = [pc EXCEPT ![c] = l],
         \A d \in Client \ {c} : at'[d] = at[d],
         \A s \in Sink \ {at[c]} : sink'[s] = sink[s],
         ~sink'[at[c]].busy,
         UNCHANGED size
  PROVE  Books'
PROOF
<1>1. \A d \in Client : Owns(d)' <=> Owns(d) /\ d # c
  BY DEF IInv, TypeOK, Owns, Away
<1>2. at[c] \in 1 .. size /\ \A d \in Client : Owns(d) => at[d] \in 1 .. size
  BY DEF IInv, Books, Held
<1>3. 1 .. size \subseteq Sink
  BY SizeAssumption DEF IInv, TypeOK, Sink
<1>4. \A d \in Client \ {c} : Owns(d) => at[d] # at[c] /\ at'[d] = at[d] /\ at[d] \in Sink
  BY <1>2, <1>3 DEF IInv, Books, Exclusive
<1>5. Held' /\ Exclusive'
  BY <1>1, <1>2, <1>4 DEF IInv, Books, Held, Exclusive
<1>6. NoLostSink'
  <2>1. ASSUME NEW s \in Sink, sink'[s].busy
        PROVE  \E d \in Client : Owns(d)' /\ at'[d] = s
    <3>1. s # at[c] /\ sink[s].busy
      BY <2>1
    <3>2. PICK d \in Client : Owns(d) /\ at[d] = s
      BY <3>1 DEF IInv, Books, NoLostSink
    <3> QED BY <1>1, <3>1, <3>2
  <2>2. ASSUME NEW d \in Client, Owns(d)'
        PROVE  sink'[at'[d]].busy
    BY <2>2, <1>1, <1>4 DEF IInv, Books, NoLostSink
  <2> QED BY <2>1, <2>2 DEF NoLostSink
<1>7. ClosedBeyondSize'
  <2>1. size \in Nat
    BY SizeAssumption DEF IInv, TypeOK
  <2>2. \A s \in Sink : s > size => s # at[c]
    BY <1>2, <2>1, SizeAssumption DEF Sink
  <2> QED
    BY <2>2 DEF IInv, Books, ClosedBeyondSize
<1>8. LentConnected'
  <2> SUFFICES ASSUME NEW d \in Client, pc'[d] \in {"got", "trim", "query"}
               PROVE  sink'[at'[d]].conn
    BY DEF LentConnected
  <2>1. d # c /\ pc[d] = pc'[d] /\ Owns(d)
    BY DEF IInv, TypeOK, Owns, Away
  <2> QED
    BY <2>1, <1>4 DEF IInv, Books, LentConnected
<1> QED
  BY <1>5, <1>6, <1>7, <1>8 DEF Books

\* A client that has no sink takes an idle one, which may be a new one.
LEMMA Takes ==
  ASSUME IInv, NEW c \in Client, NEW l \in {"reconnect", "got", "query"},
         ~Owns(c), pc' = [pc EXCEPT ![c] = l],
         \A d \in Client \ {c} : at'[d] = at[d],
         size' \in {size, size + 1},
         at'[c] \in Sink, at'[c] <= size',
         size' # size => at'[c] = size',
         ~sink[at'[c]].busy, sink'[at'[c]].busy,
         \A s \in Sink \ {at'[c]} : sink'[s] = sink[s],
         l # "reconnect" => sink'[at'[c]].conn
  PROVE  Books'
PROOF
<1>1. \A d \in Client : Owns(d)' <=> Owns(d) \/ d = c
  BY DEF IInv, TypeOK, Owns
<1>2. \A d \in Client : Owns(d) => at[d] \in 1 .. size
  BY DEF IInv, Books, Held
<1>3. 1 .. size \subseteq Sink /\ size \in Nat
  BY SizeAssumption DEF IInv, TypeOK, Sink
<1>4. \A d \in Client : Owns(d) => d # c /\ at[d] # at'[c] /\ at'[d] = at[d] /\ at[d] \in Sink
  BY <1>2, <1>3 DEF IInv, Books, NoLostSink
<1>5. Held'
  BY <1>1, <1>2, <1>3, <1>4 DEF Held, Sink
<1>6. Exclusive'
  BY <1>1, <1>4 DEF IInv, Books, Exclusive
<1>7. NoLostSink'
  <2>1. ASSUME NEW s \in Sink, sink'[s].busy
        PROVE  \E d \in Client : Owns(d)' /\ at'[d] = s
    <3>1. CASE s = at'[c]
      BY <3>1, <1>1
    <3>2. CASE s # at'[c]
      <4>1. sink[s].busy
        BY <2>1, <3>2
      <4>2. PICK d \in Client : Owns(d) /\ at[d] = s
        BY <4>1 DEF IInv, Books, NoLostSink
      <4> QED BY <1>1, <1>4, <4>2
    <3> QED BY <3>1, <3>2
  <2>2. ASSUME NEW d \in Client, Owns(d)'
        PROVE  sink'[at'[d]].busy
    BY <2>2, <1>1, <1>4 DEF IInv, Books, NoLostSink
  <2> QED BY <2>1, <2>2 DEF NoLostSink
<1>8. ClosedBeyondSize'
  BY <1>3 DEF IInv, Books, ClosedBeyondSize, Sink
<1>9. LentConnected'
  <2> SUFFICES ASSUME NEW d \in Client, pc'[d] \in {"got", "trim", "query"}
               PROVE  sink'[at'[d]].conn
    BY DEF LentConnected
  <2>1. CASE d = c
    BY <2>1 DEF IInv, TypeOK
  <2>2. CASE d # c
    <3>1. pc[d] = pc'[d] /\ Owns(d)
      BY <2>2 DEF IInv, TypeOK, Owns
    <3> QED
      BY <2>2, <3>1, <1>4 DEF IInv, Books, LentConnected
  <2> QED BY <2>1, <2>2
<1> QED
  BY <1>5, <1>6, <1>7, <1>8, <1>9 DEF Books

-----------------------------------------------------------------------------
(* Types *)

LEMMA TypeInit == Init => TypeOK
PROOF
  BY SizeAssumption, CountAssumption DEF Init, TypeOK, Sink, Outcome

LEMMA SinkTypes ==
  ASSUME NEW S, NEW f \in [S -> SinkType], NEW i, NEW b \in BOOLEAN
  PROVE  /\ [f EXCEPT ![i].busy = b] \in [S -> SinkType]
         /\ [f EXCEPT ![i].conn = b] \in [S -> SinkType]
         /\ [f EXCEPT ![i].aged = b] \in [S -> SinkType]
         /\ \A r \in SinkType : [f EXCEPT ![i] = r] \in [S -> SinkType]
PROOF
  BY DEF SinkType
Places == {"idle", "enter", "walk", "reconnect", "add", "got", "trim", "query", "rows",
           "trans"}
Fates  == {"none", "begun", "done", "lost", "torn"}

\* The two halves of TypeOK: what belongs to the pool and what to a client.
PoolTypes ==
  /\ size \in MinSize .. MaxSize
  /\ sink \in [Sink -> SinkType]
  /\ lastError \in Outcome

CallTypes ==
  /\ pc \in [Client -> Places]
  /\ at \in [Client -> 1 .. MaxSize + 1]
  /\ tries \in [Client -> 0 .. Patience + 1]
  /\ errors \in [Client -> 0 .. ErrorLimit]
  /\ work \in [Client -> Fates]

LEMMA Halves ==
  (TypeOK <=> PoolTypes /\ CallTypes) /\ (TypeOK' <=> PoolTypes' /\ CallTypes')
PROOF
  BY DEF TypeOK, PoolTypes, CallTypes, SinkType, Places, Fates

\* What a call leaves behind when it returns.
LEMMA ReturnTypes ==
  ASSUME CallTypes, NEW c \in Client, Return(c), work' \in [Client -> Fates]
  PROVE  CallTypes'
PROOF
<1>1. pc' \in [Client -> Places]
  BY DEF CallTypes, Return, Goto, Places
<1>2. at' \in [Client -> 1 .. MaxSize + 1]
  BY SizeAssumption DEF CallTypes, Return
<1>3. tries' \in [Client -> 0 .. Patience + 1] /\ errors' \in [Client -> 0 .. ErrorLimit]
  BY CountAssumption DEF CallTypes, Return, Forget
<1> QED
  BY <1>1, <1>2, <1>3 DEF CallTypes

\* The step to the next sink needs Held: no walk leaves the sinks in use.
LEMMA WalkTypes ==
  ASSUME TypeOK, Held, NEW c \in Client, Walk(c)
  PROVE  TypeOK'
PROOF
<1> PoolTypes /\ CallTypes
  BY Halves
<1> SUFFICES PoolTypes' /\ CallTypes'
  BY Halves
<1> USE SizeAssumption, CountAssumption
<1>1. CASE Enter(c)
  BY <1>1 DEF Enter, Goto, PoolTypes, CallTypes, Places
<1>2. CASE PassOver(c)
  BY <1>2 DEF PassOver, PoolTypes, CallTypes
<1>3. CASE Claim(c)
  <2>1. PoolTypes'
    BY <1>3, SinkTypes DEF Claim, PoolTypes
  <2>2. CallTypes'
    BY <1>3 DEF Claim, Goto, CallTypes, Places
  <2> QED BY <2>1, <2>2
<1>4. CASE Reconnected(c)
  <2>1. PoolTypes'
    BY <1>4, SinkTypes DEF Reconnected, PoolTypes
  <2>2. CallTypes'
    BY <1>4 DEF Reconnected, Goto, CallTypes, Places
  <2> QED BY <2>1, <2>2
<1>5. CASE WalkOver(c)
  <2>1. PoolTypes'
    BY <1>5 DEF WalkOver, PoolTypes
  <2>2. pc' \in [Client -> Places] /\ tries' \in [Client -> 0 .. Patience + 1]
    BY <1>5 DEF WalkOver, Goto, CallTypes, Places
  <2> QED BY <1>5, <2>1, <2>2 DEF WalkOver, CallTypes
<1>6. ASSUME NEW r \in Outcome, ReconnectFails(c, r)
      PROVE  PoolTypes' /\ CallTypes'
  <2>1. PoolTypes'
    <3>1. [busy |-> FALSE, conn |-> FALSE, aged |-> FALSE] \in SinkType
      BY DEF SinkType
    <3> QED BY <1>6, <3>1, SinkTypes DEF ReconnectFails, PoolTypes
  <2>2. CASE r = "server"
    BY <1>6, <2>1, <2>2, ReturnTypes DEF ReconnectFails, CallTypes
  <2>3. CASE r = "other"
    <3>1. at[c] \in 1 .. MaxSize
      BY <1>6 DEF ReconnectFails, Held, Owns, PoolTypes
    <3>2. at' = [at EXCEPT ![c] = @ + 1] /\ pc' = [pc EXCEPT ![c] = "walk"]
      BY <1>6, <2>3 DEF ReconnectFails, Goto
    <3> QED
      BY <1>6, <2>1, <2>3, <3>1, <3>2 DEF ReconnectFails, CallTypes, Places
  <2> QED BY <1>6, <2>2, <2>3 DEF ReconnectFails
<1> QED
  BY <1>1, <1>2, <1>3, <1>4, <1>5, <1>6 DEF Walk

LEMMA GetTypes ==
  ASSUME TypeOK, Held, NEW c \in Client, Get(c)
  PROVE  TypeOK'
PROOF
<1> PoolTypes /\ CallTypes
  BY Halves
<1> SUFFICES PoolTypes' /\ CallTypes'
  BY Halves
<1> USE SizeAssumption, CountAssumption
<1>1. CASE Walk(c)
  BY <1>1, WalkTypes, Halves
<1>2. CASE Trim(c)
  BY <1>2 DEF Trim, Goto, Forget, PoolTypes, CallTypes, Places
<1>3. CASE Keep(c)
  BY <1>3 DEF Keep, Goto, Forget, PoolTypes, CallTypes, Places
<1>4. CASE SinkAdd(c)
  <2>1. Added \in MinSize .. MaxSize /\ Added \in 1 .. MaxSize + 1
    BY <1>4 DEF SinkAdd, Full, Added, PoolTypes
  <2>2. sink' \in [Sink -> SinkType]
    BY <1>4 DEF SinkAdd, PoolTypes, SinkType
  <2>3. PoolTypes'
    BY <1>4, <2>1, <2>2 DEF SinkAdd, PoolTypes
  <2>4. CallTypes'
    BY <1>4, <2>1 DEF SinkAdd, Goto, Forget, CallTypes, Places
  <2> QED BY <2>3, <2>4
<1>5. ASSUME NEW r \in Outcome, SinkAddFails(c, r)
      PROVE  PoolTypes' /\ CallTypes'
  <2>1. PoolTypes'
    BY <1>5 DEF SinkAddFails, PoolTypes
  <2>2. CASE GivesUp(c, r)
    BY <1>5, <2>1, <2>2, ReturnTypes DEF SinkAddFails, CallTypes
  <2>3. CASE ~GivesUp(c, r)
    <3>1. errors[c] + 1 \in 0 .. ErrorLimit
      BY <2>3 DEF GivesUp, CallTypes
    <3> QED
      BY <1>5, <2>1, <2>3, <3>1 DEF SinkAddFails, Goto, CallTypes, Places
  <2> QED BY <2>2, <2>3
<1>6. CASE SinkDel(c)
  <2>1. PoolTypes'
    <3>1. [busy |-> FALSE, conn |-> FALSE, aged |-> FALSE] \in SinkType
      BY DEF SinkType
    <3>2. sink' \in [Sink -> SinkType]
      <4>1. sink \in [Sink -> SinkType]
        BY DEF PoolTypes
      <4>2. CASE UNCHANGED sink
        BY <4>1, <4>2
      <4>3. CASE sink' = [sink EXCEPT ![size] = [busy |-> FALSE, conn |-> FALSE, aged |-> FALSE]]
        BY <3>1, <4>1, <4>3, SinkTypes
      <4> QED BY <1>6, <4>2, <4>3 DEF SinkDel
    <3> QED BY <1>6, <3>2 DEF SinkDel, PoolTypes
  <2>2. CallTypes'
    BY <1>6 DEF SinkDel, Goto, CallTypes, Places
  <2> QED BY <2>1, <2>2
<1> QED
  BY <1>1, <1>2, <1>3, <1>4, <1>5, <1>6 DEF Get, Add

\* Every way for a query to end that keeps the types of the transactions.
LEMMA GiveBackTypes ==
  ASSUME TypeOK, NEW c \in Client, GiveBack(c), UNCHANGED size,
         lastError' \in Outcome, work' \in [Client -> Fates]
  PROVE  TypeOK'
PROOF
<1>1. PoolTypes'
  BY SinkTypes, Halves DEF GiveBack, PoolTypes
<1>2. CallTypes'
  BY ReturnTypes, Halves DEF GiveBack
<1> QED BY <1>1, <1>2, Halves

LEMMA KeepTypes ==
  ASSUME TypeOK, NEW c \in Client, NEW l \in {"rows", "trans"}, KeepFor(c, l),
         UNCHANGED size, lastError' \in Outcome, work' \in [Client -> Fates]
  PROVE  TypeOK'
PROOF
<1>1. PoolTypes'
  BY Halves DEF KeepFor, PoolTypes
<1>2. CallTypes'
  BY Halves DEF KeepFor, Goto, CallTypes, Places
<1> QED BY <1>1, <1>2, Halves

LEMMA FateTypes ==
  ASSUME NEW w \in Fates, NEW o \in Borrow \cup InTrans
  PROVE  Dropped(w) \in Fates /\ Worked(o, w) \in Fates
PROOF
  BY DEF Dropped, Worked, Fates

LEMMA SucceedTypes ==
  ASSUME TypeOK, NEW c \in Client, NEW o \in Borrow \cup InTrans, NEW w \in Fates,
         Succeed(c, o, w)
  PROVE  TypeOK'
PROOF
<1>1. work' \in [Client -> Fates] /\ lastError' \in Outcome
  BY FateTypes, Halves DEF Succeed, CallTypes, Outcome
<1> QED
  BY <1>1, GiveBackTypes, KeepTypes DEF Succeed

LEMMA FailTypes ==
  ASSUME TypeOK, NEW c \in Client, NEW o \in Borrow \cup InTrans, NEW w \in Fates,
         Fail(c, o, w), lastError' \in Outcome
  PROVE  TypeOK'
PROOF
<1>1. work' \in [Client -> Fates]
  BY Halves DEF Fail, CallTypes, Fates
<1> QED
  BY <1>1, GiveBackTypes, KeepTypes DEF Fail

LEMMA LostTypes ==
  ASSUME TypeOK, NEW c \in Client, NEW o \in Borrow \cup InTrans, RetryLost(c, o)
  PROVE  TypeOK'
PROOF
<1>1. work' \in [Client -> Fates] /\ lastError' \in Outcome
  BY FateTypes, Halves DEF RetryLost, CallTypes, Outcome, Fates
<1>2. PoolTypes'
  <2>1. [busy |-> o = "statement", conn |-> FALSE, aged |-> FALSE] \in SinkType
    BY DEF SinkType
  <2> QED BY <1>1, <2>1, SinkTypes, Halves DEF RetryLost, PoolTypes
<1>3. CallTypes'
  <2>1. CASE o # "statement"
    BY <1>1, <2>1, ReturnTypes, Halves DEF RetryLost
  <2>2. CASE o = "statement"
    BY <1>1, <2>2, Halves DEF RetryLost, Goto, CallTypes, Places
  <2> QED BY <2>1, <2>2
<1> QED BY <1>2, <1>3, Halves

LEMMA UseTypes ==
  ASSUME TypeOK, NEW c \in Client, Use(c)
  PROVE  TypeOK'
PROOF
<1>1. CASE Ask(c)
  BY <1>1, Halves DEF Ask, Goto, PoolTypes, CallTypes, Places
<1>2. CASE Reset(c)
  BY <1>2, GiveBackTypes, Halves DEF Reset, PoolTypes, CallTypes
<1>3. ASSUME NEW o \in Borrow \cup InTrans, Query(c, o)
      PROVE  TypeOK'
  <2>1. work[c] \in Fates /\ Dropped(work[c]) \in Fates
    BY FateTypes, Halves DEF CallTypes, Borrow
  <2>2. "other" \in Outcome /\ "server" \in Outcome
    BY DEF Outcome
  <2> QED
    BY <1>3, <2>1, <2>2, SucceedTypes, FailTypes, LostTypes
       DEF Query, QuerySucceeds, QueryFails, RetrySucceeds, RetryFails
<1> QED
  BY <1>1, <1>2, <1>3 DEF Use

LEMMA AgeTypes ==
  ASSUME TypeOK, NEW s \in Sink, Age(s)
  PROVE  TypeOK'
PROOF
<1>1. PoolTypes'
  BY SinkTypes, Halves DEF Age, PoolTypes
<1>2. CallTypes'
  BY Halves DEF Age, CallTypes
<1> QED BY <1>1, <1>2, Halves
-----------------------------------------------------------------------------
(* The books *)

LEMMA WalkBooks ==
  ASSUME IInv, NEW c \in Client, Walk(c)
  PROVE  Books'
PROOF
<1>1. CASE Enter(c)
  <2>1. ~Owns(c) /\ pc' = [pc EXCEPT ![c] = "walk"] /\ UNCHANGED <<size, sink>>
    BY <1>1 DEF Enter, Goto, Owns
  <2>2. \A d \in Client \ {c} : at'[d] = at[d]
    BY <1>1 DEF Enter, IInv, TypeOK
  <2> QED BY <2>1, <2>2, Elsewhere DEF Away
<1>2. CASE PassOver(c)
  <2>1. pc' = [pc EXCEPT ![c] = "walk"]
    BY <1>2 DEF PassOver, IInv, TypeOK
  <2> QED
    BY <1>2, <2>1, Elsewhere DEF PassOver, Owns, Away, IInv, TypeOK
<1>3. CASE Claim(c)
  <2>1. at[c] \in Sink
    BY <1>3, SizeAssumption DEF Claim, IInv, TypeOK, Sink
  <2>2. sink'[at[c]] = [sink[at[c]] EXCEPT !.busy = TRUE]
        /\ \A s \in Sink \ {at[c]} : sink'[s] = sink[s]
    BY <1>3, <2>1 DEF Claim, IInv, TypeOK
  <2>3. sink'[at[c]].busy /\ (sink[at[c]].conn => sink'[at[c]].conn)
    BY <2>1, <2>2 DEF IInv, TypeOK
  <2>4. at[c] <= size /\ ~sink[at[c]].busy /\ UNCHANGED <<size, at>> /\ ~Owns(c)
    BY <1>3 DEF Claim, My, Owns
  <2>5. CASE sink[at[c]].conn
    BY <1>3, <2>1, <2>2, <2>3, <2>4, <2>5, Takes DEF Claim, Goto, My
  <2>6. CASE ~sink[at[c]].conn
    BY <1>3, <2>1, <2>2, <2>3, <2>4, <2>6, Takes DEF Claim, Goto, My
  <2> QED BY <2>5, <2>6
<1>4. CASE Reconnected(c)
  <2>1. Owns(c) /\ at[c] \in Sink /\ sink[at[c]].busy
    BY <1>4, SizeAssumption
       DEF Reconnected, Owns, IInv, TypeOK, Books, Held, NoLostSink, Sink
  <2>2. sink'[at[c]].busy /\ sink'[at[c]].conn /\ \A s \in Sink \ {at[c]} : sink'[s] = sink[s]
    BY <1>4, <2>1 DEF Reconnected, IInv, TypeOK
  <2> QED
    BY <1>4, <2>1, <2>2, GoesOn DEF Reconnected, Goto, Owning
<1>5. CASE WalkOver(c)
  <2>1. ~Owns(c) /\ UNCHANGED <<size, sink, at>>
    BY <1>5 DEF WalkOver, Owns
  <2>2. PICK l \in Away : pc' = [pc EXCEPT ![c] = l]
    BY <1>5 DEF WalkOver, Goto, Away
  <2> QED BY <2>1, <2>2, Elsewhere
<1>6. ASSUME NEW r \in Outcome, ReconnectFails(c, r)
      PROVE  Books'
  <2>1. Owns(c) /\ at[c] \in Sink /\ UNCHANGED size
    BY <1>6, SizeAssumption DEF ReconnectFails, Owns, IInv, TypeOK, Books, Held, Sink
  <2>2. sink'[at[c]].busy = FALSE /\ \A s \in Sink \ {at[c]} : sink'[s] = sink[s]
    BY <1>6, <2>1 DEF ReconnectFails, IInv, TypeOK
  <2>3. \A d \in Client \ {c} : at'[d] = at[d]
    BY <1>6 DEF ReconnectFails, Return, IInv, TypeOK
  <2>4. PICK l \in Away : pc' = [pc EXCEPT ![c] = l]
    BY <1>6 DEF ReconnectFails, Return, Goto, Away
  <2> QED BY <2>1, <2>2, <2>3, <2>4, GivesBack
<1> QED
  BY <1>1, <1>2, <1>3, <1>4, <1>5, <1>6 DEF Walk

\* SinkDel is the one step that shrinks the pool: the sink it closes is not
\* busy, hence nobody's.
LEMMA DelBooks ==
  ASSUME IInv, NEW c \in Client, SinkDel(c)
  PROVE  Books'
PROOF
<1>1. Owns(c) /\ pc' = [pc EXCEPT ![c] = "query"] /\ UNCHANGED at
  BY DEF SinkDel, Owns, Goto
<1>2. at[c] \in 1 .. size /\ sink[at[c]].busy /\ sink[at[c]].conn
  BY <1>1 DEF SinkDel, IInv, Books, Held, NoLostSink, LentConnected
<1>3. CASE size > MinSize /\ ~sink[size].busy
  <2> DEFINE closed == [busy |-> FALSE, conn |-> FALSE, aged |-> FALSE]
  <2>1. size' = size - 1 /\ sink' = [sink EXCEPT ![size] = closed]
    BY <1>3 DEF SinkDel
  <2>2. size \in Sink /\ size \in Nat
    BY SizeAssumption DEF IInv, TypeOK, Sink
  <2>3. sink'[size] = closed /\ \A s \in Sink \ {size} : sink'[s] = sink[s]
    BY <2>1, <2>2 DEF IInv, TypeOK
  <2>4. \A d \in Client : Owns(d) => at[d] \in 1 .. size /\ at[d] # size
    BY <1>3 DEF IInv, Books, Held, NoLostSink
  <2>5. \A d \in Client : Owns(d)' <=> Owns(d)
    BY <1>1 DEF Owns, IInv, TypeOK
  <2>6. Held'
    BY <1>1, <2>1, <2>2, <2>4, <2>5 DEF Held
  <2>7. Exclusive'
    BY <1>1, <2>5 DEF IInv, Books, Exclusive
  <2>8. 1 .. size \subseteq Sink
    BY SizeAssumption DEF IInv, TypeOK, Sink
  <2>9. NoLostSink'
    BY <1>1, <2>3, <2>4, <2>5, <2>8 DEF IInv, Books, NoLostSink
  <2>10. ClosedBeyondSize'
    <3>1. \A s \in Sink : s > size' => s = size \/ s > size
      BY <2>1, <2>2, SizeAssumption DEF Sink
    <3> QED BY <2>3, <3>1 DEF IInv, Books, ClosedBeyondSize
  <2>11. LentConnected'
    <3> SUFFICES ASSUME NEW d \in Client, pc'[d] \in {"got", "trim", "query"}
                 PROVE  sink'[at[d]].conn
      BY <1>1 DEF LentConnected
    <3>1. Owns(d) /\ sink[at[d]].conn
      BY <1>1, <1>2 DEF Owns, IInv, TypeOK, Books, LentConnected
    <3> QED BY <2>3, <2>4, <2>8, <3>1
  <2> QED BY <2>6, <2>7, <2>9, <2>10, <2>11 DEF Books
<1>4. CASE ~(size > MinSize /\ ~sink[size].busy)
  BY <1>1, <1>2, <1>4, GoesOn DEF SinkDel, Owning
<1> QED BY <1>3, <1>4

LEMMA GetBooks ==
  ASSUME IInv, NEW c \in Client, Get(c)
  PROVE  Books'
PROOF
<1>1. CASE Walk(c)
  BY <1>1, WalkBooks
<1>2. CASE Trim(c) \/ Keep(c)
  <2>1. Owns(c) /\ sink[at[c]].busy /\ sink[at[c]].conn /\ UNCHANGED <<size, sink, at>>
    BY <1>2 DEF Trim, Keep, Owns, IInv, Books, NoLostSink, LentConnected
  <2>2. PICK l \in Owning : pc' = [pc EXCEPT ![c] = l]
    BY <1>2 DEF Trim, Keep, Goto, Owning
  <2> QED BY <2>1, <2>2, GoesOn
<1>3. CASE SinkAdd(c)
  <2>1. size < MaxSize /\ size \in Nat /\ Added = size + 1 /\ Added \in Sink
    BY <1>3, SizeAssumption DEF SinkAdd, Full, Added, IInv, TypeOK, Sink
  <2>2. ~sink[Added].busy /\ ~Owns(c) /\ size' = size + 1
    BY <1>3 DEF SinkAdd, Full, Added, Owns
  <2>3. at'[c] = Added /\ \A d \in Client \ {c} : at'[d] = at[d]
    BY <1>3 DEF SinkAdd, IInv, TypeOK
  <2>4. sink'[Added].busy /\ sink'[Added].conn /\ \A s \in Sink \ {Added} : sink'[s] = sink[s]
    BY <1>3, <2>1 DEF SinkAdd, IInv, TypeOK
  <2>5. pc' = [pc EXCEPT ![c] = "query"]
    BY <1>3 DEF SinkAdd, Goto
  <2>6. at'[c] \in Sink /\ at'[c] <= size' /\ at'[c] = size' /\ size' \in {size, size + 1}
    BY <2>1, <2>2, <2>3
  <2>7. ~sink[at'[c]].busy /\ sink'[at'[c]].busy /\ sink'[at'[c]].conn
        /\ \A s \in Sink \ {at'[c]} : sink'[s] = sink[s]
    BY <2>2, <2>3, <2>4
  <2> QED BY <2>2, <2>3, <2>5, <2>6, <2>7, Takes
<1>4. ASSUME NEW r \in Outcome, SinkAddFails(c, r)
      PROVE  Books'
  <2>1. ~Owns(c) /\ UNCHANGED <<size, sink>>
    BY <1>4 DEF SinkAddFails, Owns
  <2>2. \A d \in Client \ {c} : at'[d] = at[d]
    BY <1>4 DEF SinkAddFails, Return, IInv, TypeOK
  <2>3. PICK l \in Away : pc' = [pc EXCEPT ![c] = l]
    BY <1>4 DEF SinkAddFails, Return, Goto, Away
  <2> QED BY <2>1, <2>2, <2>3, Elsewhere
<1>5. CASE SinkDel(c)
  BY <1>5, DelBooks
<1> QED
  BY <1>1, <1>2, <1>3, <1>4, <1>5 DEF Get, Add

\* A client's own sink is among the pool's, and busy.
LEMMA OwnSink ==
  ASSUME IInv, NEW c \in Client, Owns(c)
  PROVE  at[c] \in Sink /\ sink[at[c]].busy
PROOF
  BY SizeAssumption DEF IInv, TypeOK, Books, Held, NoLostSink, Sink

LEMMA GiveBackBooks ==
  ASSUME IInv, NEW c \in Client, Owns(c), GiveBack(c), UNCHANGED size
  PROVE  Books'
PROOF
<1>1. sink'[at[c]].busy = FALSE /\ \A s \in Sink \ {at[c]} : sink'[s] = sink[s]
  BY OwnSink DEF GiveBack, IInv, TypeOK
<1>2. pc' = [pc EXCEPT ![c] = "idle"] /\ \A d \in Client \ {c} : at'[d] = at[d]
  BY DEF GiveBack, Return, Goto, IInv, TypeOK
<1> QED
  BY <1>1, <1>2, GivesBack DEF Away

LEMMA KeepBooks ==
  ASSUME IInv, NEW c \in Client, Owns(c), NEW l \in {"rows", "trans"}, KeepFor(c, l),
         UNCHANGED size
  PROVE  Books'
PROOF
  BY OwnSink, GoesOn DEF KeepFor, Goto, Owning

LEMMA UseBooks ==
  ASSUME IInv, NEW c \in Client, Use(c)
  PROVE  Books'
PROOF
<1>1. CASE Ask(c)
  BY <1>1, Elsewhere DEF Ask, Goto, Owns, Away
<1>2. CASE Reset(c)
  BY <1>2, GiveBackBooks DEF Reset, Owns
<1>3. ASSUME NEW o \in Borrow \cup InTrans, Query(c, o)
      PROVE  Books'
  <2>1. Owns(c)
    BY <1>3 DEF Query, QuerySucceeds, QueryFails, RetrySucceeds, RetryFails, RetryLost,
                Queries, Owns
  <2>2. ASSUME NEW w, Succeed(c, o, w)
        PROVE  Books'
    BY <2>1, <2>2, GiveBackBooks, KeepBooks DEF Succeed
  <2>3. ASSUME NEW w, Fail(c, o, w)
        PROVE  Books'
    BY <2>1, <2>3, GiveBackBooks, KeepBooks DEF Fail
  <2>4. CASE RetryLost(c, o)
    <3> DEFINE kept == [busy |-> o = "statement", conn |-> FALSE, aged |-> FALSE]
    <3>1. sink'[at[c]] = kept /\ \A s \in Sink \ {at[c]} : sink'[s] = sink[s]
      BY <2>1, <2>4, OwnSink DEF RetryLost, IInv, TypeOK
    <3>2. CASE o = "statement"
      <4>1. sink'[at[c]].busy
        <5>1. (o = "statement") = TRUE
          BY <3>2
        <5>2. sink'[at[c]] = [busy |-> TRUE, conn |-> FALSE, aged |-> FALSE]
          BY <3>1, <5>1, Zenon
        <5> QED BY <5>2
      <4>2. pc' = [pc EXCEPT ![c] = "trans"] /\ UNCHANGED <<size, at>>
        BY <2>4, <3>2 DEF RetryLost, Goto
      <4> QED
        BY <2>1, <3>1, <4>1, <4>2, GoesOn DEF Owning
    <3>3. CASE o # "statement"
      <4>1. pc' = [pc EXCEPT ![c] = "idle"] /\ \A d \in Client \ {c} : at'[d] = at[d]
        BY <2>4, <3>3 DEF RetryLost, Return, Goto, IInv, TypeOK
      <4>2. UNCHANGED size
        BY <2>4 DEF RetryLost
      <4>3. ~sink'[at[c]].busy
        <5>1. (o = "statement") = FALSE
          BY <3>3
        <5>2. sink'[at[c]] = [busy |-> FALSE, conn |-> FALSE, aged |-> FALSE]
          BY <3>1, <5>1, Zenon
        <5> QED BY <5>2
      <4> QED
        BY <2>1, <3>1, <4>1, <4>2, <4>3, GivesBack DEF Away
    <3> QED BY <3>2, <3>3
  <2> QED
    BY <1>3, <2>2, <2>3, <2>4
       DEF Query, QuerySucceeds, QueryFails, RetrySucceeds, RetryFails
<1> QED
  BY <1>1, <1>2, <1>3 DEF Use

LEMMA AgeBooks ==
  ASSUME IInv, NEW s \in Sink, Age(s)
  PROVE  Books'
PROOF
<1>1. \A i \in Sink : sink'[i].busy = sink[i].busy /\ sink'[i].conn = sink[i].conn
  BY DEF Age, IInv, TypeOK
<1>2. UNCHANGED <<size, pc, at>> /\ \A c \in Client : Owns(c)' <=> Owns(c)
  BY DEF Age, Owns
<1>3. \A c \in Client : Owns(c) => at[c] \in Sink
  BY OwnSink
<1>4. Held' /\ Exclusive'
  BY <1>2 DEF IInv, Books, Held, Exclusive
<1>5. NoLostSink' /\ ClosedBeyondSize'
  BY <1>1, <1>2, <1>3 DEF IInv, Books, NoLostSink, ClosedBeyondSize
<1>6. LentConnected'
  <2>1. \A c \in Client : pc[c] \in {"got", "trim", "query"} => Owns(c)
    BY DEF Owns
  <2> QED BY <1>1, <1>2, <1>3, <2>1 DEF IInv, Books, LentConnected
<1> QED
  BY <1>4, <1>5, <1>6 DEF Books

-----------------------------------------------------------------------------
(* The theorems *)

\* PoolInit establishes the invariant.
LEMMA InvInit == Init => IInv
PROOF
<1> SUFFICES ASSUME Init PROVE Books
  BY TypeInit DEF IInv
<1>1. \A c \in Client : ~Owns(c) /\ pc[c] = "idle"
  BY DEF Init, Owns
<1>2. \A s \in Sink : ~sink[s].busy /\ (sink[s].conn => s \in 1 .. size)
  <2>1. PICK up \in SUBSET (1 .. MinSize) :
          sink = [s \in Sink |-> [busy |-> FALSE, conn |-> s \in up, aged |-> TRUE]]
    BY DEF Init
  <2>2. \A s \in Sink : sink[s].busy = FALSE /\ sink[s].conn = (s \in up)
    BY <2>1
  <2> QED BY <2>2 DEF Init
<1>3. \A s \in Sink : s \in 1 .. size => ~(s > size)
  BY SizeAssumption DEF Init, Sink
<1> QED
  BY <1>1, <1>2, <1>3 DEF Books, Held, Exclusive, NoLostSink, ClosedBeyondSize, LentConnected

\* No step of a client, of the pool or of time breaks it.
LEMMA InvNext == IInv /\ [Next]_vars => IInv'
PROOF
<1> SUFFICES ASSUME IInv, [Next]_vars PROVE IInv'
  OBVIOUS
<1>1. ASSUME NEW c \in Client, Get(c) \/ Use(c)
      PROVE  IInv'
  BY <1>1, GetTypes, GetBooks, UseTypes, UseBooks DEF IInv, Books
<1>2. ASSUME NEW s \in Sink, Age(s)
      PROVE  IInv'
  BY <1>2, AgeTypes, AgeBooks DEF IInv
<1>3. CASE UNCHANGED vars
  <2>1. TypeOK'
    BY <1>3 DEF vars, IInv, TypeOK
  <2>2. Books'
    BY <1>3 DEF vars, IInv, Books, Held, Exclusive, NoLostSink, ClosedBeyondSize,
                LentConnected, Owns
  <2> QED BY <2>1, <2>2 DEF IInv
<1> QED
  BY <1>1, <1>2, <1>3 DEF Next

\* The state of the pool keeps its types; the retries and errors of SinkGet
\* stay within Patience and ErrorLimit.
THEOREM PoolTypeCorrect == Spec => []TypeOK
PROOF
<1>1. IInv => TypeOK
  BY DEF IInv
<1> QED
  BY <1>1, InvInit, InvNext, PTL DEF Spec

\* However the walks, additions, deletions and reconnections of any number of
\* clients overlap, a connection is used by one client at a time.
THEOREM PoolIsExclusive == Spec => []Exclusive
PROOF
<1>1. IInv => Exclusive
  BY DEF IInv, Books
<1> QED
  BY <1>1, InvInit, InvNext, PTL DEF Spec

\* No error path of SinkGet or of a call loses a sink.
THEOREM PoolLosesNoSink == Spec => []NoLostSink
PROOF
<1>1. IInv => NoLostSink
  BY DEF IInv, Books
<1> QED
  BY <1>1, InvInit, InvNext, PTL DEF Spec

\* A connection beyond the pool's size is neither open nor lent, though SinkDel
\* asks for the size before it has the lock; and what SinkGet lends is
\* connected until its first query.
THEOREM PoolConnects == Spec => []Connected
PROOF
<1>1. IInv => Connected
  BY DEF IInv, Books, Connected
<1> QED
  BY <1>1, InvInit, InvNext, PTL DEF Spec
=============================================================================
