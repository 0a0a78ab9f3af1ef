-------------------------- MODULE RtpStreamProofs --------------------------
(***************************************************************************)
(* Theorems about RtpStream: its type invariant, that a server broadcasts  *)
(* every packet once, that a client hands the frames over in order, whole, *)
(* decodable and, when nothing is lost, all of them, and that a receiver   *)
(* asks for what is missing and for nothing else.                          *)
(***************************************************************************)
EXTENDS RtpStream, TLAPS, FiniteSetTheorems, WellFoundedInduction
-----------------------------------------------------------------------------
(* The inductive invariants. *)

\* Packets and frames are spoken of after they were sent, and a packet is
\* handled after it came.
Known ==
  /\ Len(frames) <= use.frames
  /\ net \cup arrived \subseteq Sent /\ hand \subseteq arrived
  /\ \A s \in 0 .. Ring - 1 : ring[s] \in Sent \cup {NoPacket} /\ kept[s] \in Sent \cup {NoPacket}
  /\ \A i \in DOMAIN relayed : relayed[i] \in Sent
  /\ \A w \in waiting : w.f \in DOMAIN frames
  /\ \A i \in DOMAIN shown : shown[i] \in DOMAIN frames
  /\ dropped \subseteq DOMAIN frames

\* What is expected waits no longer than the receiver's patience.
Patient == \A k \in 1 .. 2 : expect[k].count <= Patience

\* The numbered packets up to the end of frame fr.
EndOf(fr) == IF fr.ts = 0 THEN fr.base ELSE fr.base + fr.n

\* The frames fs of a sender used as u follow each other: in the clock, and
\* in the numbers of their packets.
Untouched(fs, f, g) == \A h \in DOMAIN fs : f < h /\ h < g => fs[h].ts = 0

Described(fr, u) ==
  /\ fr.kind \in u.kinds /\ (fr.kind = "untimed" <=> fr.ts = 0)
  /\ fr.n \in (IF fr.ts = 0 THEN u.messages ELSE u.sizes)
  /\ (fr.exact => u.exact)
  /\ (fr.ts # 0 => fr.ts = fr.at /\ fr.ts > 1)

Follows(fs, f, g) ==
  /\ fs[f].at <= fs[g].at /\ (fs[g].ts # 0 => fs[f].at < fs[g].ts)
  /\ EndOf(fs[f]) <= fs[g].base
  /\ Untouched(fs, f, g) => fs[g].base = EndOf(fs[f])

Successor(fs, f) ==
  \/ \A g \in DOMAIN fs : f < g => fs[g].ts = 0
  \/ \E g \in DOMAIN fs : f < g /\ fs[g].ts # 0 /\ Untouched(fs, f, g)

InLine(fs, u) ==
  /\ \A f \in DOMAIN fs : Described(fs[f], u) /\ Successor(fs, f)
  /\ \A f, g \in DOMAIN fs : f < g => Follows(fs, f, g)

\* A sender that stays has numbered its packets without a break.
NoBreak ==
  use.reenter = {} =>
    /\ cur = (use.start + Total) % NumSeq
    /\ \A f \in DOMAIN frames : frames[f].ts # 0 =>
         frames[f].first = (use.start + 1 + frames[f].base) % NumSeq

IInv == TypeOK /\ Known /\ Patient /\ InLine(frames, use) /\ NoBreak

\* The server.  A packet that may still come is among the last Ring packets
\* of the sender, so no two of them share a slot.
On(d, c, k) == d = (c + k) % NumSeq    \* number d is k further on than c
Pending == (net \cup hand \cup {ring[s] : s \in 0 .. Ring - 1}) \ {NoPacket}
Age(p)  == Total - 1 - SentUpTo(p)

Broadcast(p) == \E i \in DOMAIN relayed : relayed[i] = p

ServerInv ==
  /\ \A p \in Pending : Age(p) \in 0 .. Ring - 1 /\ On(cur, SeqNo(p), Age(p))
  /\ \A s \in 0 .. Ring - 1 :
       /\ ring[s] # NoPacket => SeqNo(ring[s]) % Ring = s
       /\ kept[s] # NoPacket => Broadcast(kept[s])
  /\ \A p \in Pending : Broadcast(p) => kept[SeqNo(p) % Ring] = p
  /\ \A p \in arrived \ hand : Broadcast(p)
  /\ RelayedOnce

\* The client.
HandedOver(f) == \E i \in DOMAIN shown : shown[i] = f

OneAtATime ==
  /\ \A p, q \in hand : p = q
  /\ hand # {} => ~taking
  /\ ~taking => \A w \in waiting :
       frames[w.f].ts # 0 /\ (First(w) => ~InTurn(w) /\ ~w.late)

\* What waits for its packets.
Collected ==
  /\ \A w \in waiting :
       /\ \A i \in w.filled : <<w.f, i>> \in arrived
       /\ frames[w.f].ts = 0 => w.filled = {0}
       /\ frames[w.f].ts # 0 => /\ w.first = frames[w.f].first
                               /\ play.ts > 0 /\ frames[w.f].ts >= play.ts
  /\ \A v, w \in waiting : frames[v.f].ts = frames[w.f].ts => v = w

\* What was handed over or given up.
Done ==
  /\ play.ts > 0 => play.wait # None
  /\ \A f \in dropped : frames[f].ts # 0
  /\ \A f \in DOMAIN frames : (f \in dropped \/ HandedOver(f)) /\ frames[f].ts # 0 =>
       /\ frames[f].ts <= play.ts
       /\ frames[f].ts = play.ts => play.wait = (frames[f].first + frames[f].n) % NumSeq
  /\ "audio" \notin use.kinds /\ ~play.key => \A f \in dropped :
       \E i \in DOMAIN shown : frames[shown[i]].kind = "key" /\ shown[i] > f

ClientInv == OneAtATime /\ Collected /\ Done /\ InOrder /\ OnlyWhole /\ Decodable

\* A client that misses nothing.
Smooth == use.reenter = {} /\ trouble.losses = 0 /\ ~trouble.late /\ ~trouble.again

\* Every packet is under way or has come, once, and within the bound.
Arriving ==
  /\ Sent \subseteq net \cup arrived /\ net \cap arrived = {}
  /\ \A p \in net \cup hand : Timed(p) => \A g \in DOMAIN frames :
       p[1] < g /\ frames[g].ts # 0 => frames[g].base + frames[g].n - 1 - SentUpTo(p) <= use.late

\* What came and was not shown waits.
Collecting ==
  /\ \A w \in waiting :
       /\ w.late => frames[w.f].ts = 0
       /\ ~HandedOver(w.f)
       /\ \A i \in w.filled : <<w.f, i>> \notin hand
  /\ \A p \in arrived \ hand : IF Timed(p)
       THEN frames[p[1]].ts > play.ts => \E w \in waiting : w.f = p[1] /\ p[2] \in w.filled
       ELSE HandedOver(p[1]) \/ \E w \in waiting : w.f = p[1]

\* What was shown was shown once, and no frame was passed over.
InARow ==
  /\ dropped = {} /\ ~play.key
  /\ \A i \in DOMAIN shown : PacketsOf(shown[i]) \cap hand = {}
  /\ \A i, j \in DOMAIN shown : shown[i] = shown[j] => i = j
  /\ \A i \in DOMAIN shown : frames[shown[i]].ts # 0 =>
       /\ \E g \in DOMAIN frames : HandedOver(g) /\ frames[g].ts = play.ts
       /\ \A f \in DOMAIN frames :
            shown[i] <= f /\ frames[f].ts # 0 /\ frames[f].ts <= play.ts => HandedOver(f)

SmoothInv == Arriving /\ Collecting /\ InARow
-----------------------------------------------------------------------------
(* Numbers that come round. *)

\* Division with remainder.
LEMMA Division ==
  ASSUME NEW n \in Nat \ {0}, NEW x \in Int
  PROVE  x % n \in 0 .. n - 1 /\ \E q \in Int : x = n * q + (x % n)
<1>1. x = n * (x \div n) + (x % n) /\ x % n \in 0 .. n - 1
  BY Z3
<1> QED BY <1>1, x \div n \in Int

LEMMA Remainder ==
  ASSUME NEW n \in Nat \ {0}, NEW q \in Int, NEW r \in 0 .. n - 1
  PROVE  (n * q + r) % n = r /\ r % n = r
BY Z3

\* A multiple of n may be left out.
LEMMA Multiple ==
  ASSUME NEW n \in Nat \ {0}, NEW x \in Int, NEW q \in Int
  PROVE  (x + n * q) % n = x % n
<1>1. PICK r \in Int : x = n * r + (x % n)
  BY Division
<1>2. x % n \in 0 .. n - 1
  BY Division
<1>3. x + n * q = n * (r + q) + (x % n)
  BY <1>1, <1>2, Z3
<1> QED BY <1>2, <1>3, Remainder, r + q \in Int

\* The remainder may be taken before a sum is formed.
LEMMA SumMod ==
  ASSUME NEW n \in Nat \ {0}, NEW x \in Int, NEW y \in Int
  PROVE  ((x % n) + y) % n = (x + y) % n
<1>1. PICK q \in Int : x = n * q + (x % n)
  BY Division
<1>2. x % n \in Int /\ n * q \in Int
  BY Division
<1> DEFINE z == (x % n) + y
<1>3. x + y = z + n * q /\ z \in Int
  BY <1>1, <1>2
<1> HIDE DEF z
<1>4. (z + n * q) % n = z % n
  BY <1>3, Multiple
<1> QED BY <1>3, <1>4 DEF z

\* Two numbers less than n apart have different remainders.
LEMMA Apart ==
  ASSUME NEW n \in Nat \ {0}, NEW x \in Int, NEW y \in Int, x < y, y < x + n
  PROVE  x % n # y % n
<1>1. ASSUME NEW d \in 1 .. n - 1, NEW k \in Int
      PROVE  n * k # d
  <2>1. CASE k <= 0
    <3>1. n * k <= 0
      BY <2>1, Z3
    <3> QED BY <3>1
  <2>2. CASE k >= 1
    <3>1. n * k >= n
      BY <2>2, Z3
    <3> QED BY <3>1
  <2> QED BY <2>1, <2>2
<1>2. PICK q \in Int : x = n * q + (x % n)
  BY Division
<1>3. PICK r \in Int : y = n * r + (y % n)
  BY Division
<1>4. ASSUME x % n = y % n PROVE FALSE
  <2>1. y - x = n * r - n * q
    BY <1>2, <1>3, <1>4, (x % n) \in Int, Z3
  <2>2. y - x = n * (r - q)
    BY <2>1, Z3
  <2> QED BY <1>1, <2>2, y - x \in 1 .. n - 1, r - q \in Int
<1> QED BY <1>4

\* The number of slots divides the number of numbers.
LEMMA ModMod ==
  ASSUME NEW n \in Nat \ {0}, NEW m \in Nat \ {0}, n % m = 0, NEW x \in Int
  PROVE  (x % n) % m = x % m
<1>1. PICK r \in Int : x = n * r + (x % n)
  BY Division
<1>2. PICK k \in Int : n = m * k
  <2>1. PICK k \in Int : n = m * k + (n % m)
    BY Division, n \in Int
  <2>2. n = m * k
    BY <2>1, m * k \in Int, n % m = 0
  <2> QED BY <2>2
<1>3. x % n \in Int
  BY Division
<1>4. n * r = m * (k * r) /\ k * r \in Int
  BY <1>2, Z3
<1> DEFINE y == x % n
           j == n * r
<1>5. j = m * (k * r) /\ j \in Int /\ y \in Int /\ x = j + y
  BY <1>1, <1>3, <1>4, j \in Int
<1> HIDE DEF y, j
<1>6. x = y + m * (k * r) /\ y \in Int
  BY <1>5
<1>7. (y + m * (k * r)) % m = y % m
  BY <1>4, <1>6, Multiple
<1> QED BY <1>6, <1>7 DEF y

\* A set of natural numbers that is not empty and has a bound has a greatest
\* element.
LEMMA Greatest ==
  ASSUME NEW n \in Nat, NEW S, S \subseteq 0 .. n, S # {}
  PROVE  \E x \in S : \A y \in S : y <= x
<1> DEFINE T == {k \in 0 .. n : n - k \in S}
<1>1. T \subseteq Nat /\ T # {}
  <2>1. PICK x \in S : TRUE
    OBVIOUS
  <2>2. n - x \in T
    BY <2>1
  <2>3. T \subseteq Nat
    OBVIOUS
  <2> HIDE DEF T
  <2> QED BY <2>2, <2>3
<1>2. IsWellFoundedOn(OpToRel(<, Nat), Nat)
  BY NatLessThanWellFounded
<1> HIDE DEF T
<1>3. PICK k \in T : \A j \in T : <<j, k>> \notin OpToRel(<, Nat)
  BY <1>1, <1>2, WFMin
<1>4. \A j \in T : ~ (j < k)
  BY <1>1, <1>3 DEF OpToRel
<1>5. n - k \in S /\ k \in 0 .. n
  BY DEF T
<1>6. ASSUME NEW y \in S PROVE y <= n - k
  <2>1. n - y \in T /\ y \in 0 .. n
    BY DEF T
  <2>2. ~ (n - y < k)
    BY <1>4, <2>1
  <2> QED BY <1>5, <2>1, <2>2
<1> QED BY <1>5, <1>6

-----------------------------------------------------------------------------
(* Constants, uses and frames. *)

LEMMA Constants ==
  /\ NumSeq \in Nat /\ NumSeq > 0 /\ Ring \in Nat /\ Ring > 0 /\ NumSeq % Ring = 0
  /\ MaxResend \in Nat /\ MaxResend > 0 /\ MaxResend < NumSeq
  /\ Half \in Nat /\ Pause \in Nat /\ Stale \in Nat /\ MaxFrames \in Nat /\ MaxFrames > 0
BY RtpStreamAssumption

\* What is taken modulo NumSeq is a number, modulo Ring a slot.
LEMMA NumberMod ==
  ASSUME NEW x \in Int
  PROVE  x % NumSeq \in Number /\ x % Ring \in 0 .. Ring - 1
<1>1. x % NumSeq \in 0 .. NumSeq - 1
  BY Division, Constants
<1>2. x % Ring \in 0 .. Ring - 1
  BY Division, Constants
<1> QED BY <1>1, <1>2 DEF Number

LEMMA UseType ==
  ASSUME TypeOK
  PROVE  /\ use.server \in BOOLEAN /\ use.kinds \subseteq Kind
         /\ use.sizes \subseteq Nat \ {0} /\ use.messages \subseteq Nat \ {0}
         /\ use.frames \in 1 .. MaxFrames /\ use.start \in Number
         /\ use.losses \in Nat /\ use.dups \in Nat /\ use.late \in Nat
         /\ use.steps \subseteq Nat \ {0} /\ use.reenter \subseteq Number
         /\ use.exact \in BOOLEAN
<1>1. use \in Use
  BY RtpStreamAssumption DEF TypeOK
<1> QED BY <1>1 DEF Use, Number

LEMMA FrameType ==
  ASSUME TypeOK
  PROVE  /\ Len(frames) \in Nat /\ DOMAIN frames = 1 .. Len(frames)
         /\ \A f \in DOMAIN frames :
              /\ frames[f] \in Frame
              /\ frames[f].ts \in Nat /\ frames[f].first \in Number
              /\ frames[f].n \in Nat /\ frames[f].n > 0
              /\ frames[f].at \in Nat /\ frames[f].at > 0 /\ frames[f].base \in Nat
<1>1. frames \in Seq(Frame)
  BY DEF TypeOK
<1>2. \A f \in DOMAIN frames : frames[f] \in Frame
  BY <1>1
<1> QED BY <1>1, <1>2 DEF Frame

LEMMA ClockType ==
  ASSUME TypeOK
  PROVE  Clock \in Nat \ {0} /\ Total \in Nat
<1>1. frames \in Seq(Frame)
  BY DEF TypeOK
<1>2. CASE frames = <<>>
  BY <1>2 DEF Clock, Total
<1>3. CASE frames # <<>>
  <2>1. Len(frames) \in DOMAIN frames
    BY <1>1, <1>3
  <2>2. /\ frames[Len(frames)].at \in Nat \ {0} /\ frames[Len(frames)].base \in Nat
        /\ frames[Len(frames)].n \in Nat
    BY <2>1, FrameType
  <2> QED BY <1>3, <2>2 DEF Clock, Total
<1> QED BY <1>2, <1>3

LEMMA SentType ==
  ASSUME TypeOK, Len(frames) <= use.frames, NEW p \in Sent
  PROVE  /\ p[1] \in DOMAIN frames /\ p[2] \in 0 .. frames[p[1]].n - 1 /\ p = <<p[1], p[2]>>
         /\ p \in Packet /\ p # NoPacket
         /\ SeqNo(p) \in Number /\ SentUpTo(p) \in Nat
<1>1. PICK f \in DOMAIN frames : p \in PacketsOf(f)
  BY DEF Sent
<1>2. PICK i \in 0 .. frames[f].n - 1 : p = <<f, i>>
  BY <1>1 DEF PacketsOf
<1>3. /\ frames[f].n \in Nat /\ frames[f].first \in Number /\ frames[f].base \in Nat
      /\ f \in 1 .. Len(frames) /\ Len(frames) \in Nat
  BY FrameType
<1>4. p[1] = f /\ p[2] = i /\ i \in Nat /\ f # 0
  BY <1>2, <1>3
<1>5. f \in 1 .. MaxFrames
  BY <1>3, UseType, Constants
<1>6. p \in Packet /\ p # NoPacket
  BY <1>2, <1>4, <1>5 DEF Packet, NoPacket
<1>7. (frames[f].first + i) % NumSeq \in Number
  <2>1. frames[f].first + i \in Int
    BY <1>3, <1>4 DEF Number
  <2> QED BY <2>1, NumberMod
<1>8. SeqNo(p) \in Number /\ SentUpTo(p) \in Nat
  BY <1>3, <1>4, <1>7, Constants DEF SeqNo, SentUpTo, Number
<1> QED BY <1>2, <1>3, <1>4, <1>6, <1>8

\* Every packet of a frame that was sent.
LEMMA SentOf ==
  ASSUME NEW f \in DOMAIN frames, NEW i \in 0 .. frames[f].n - 1
  PROVE  <<f, i>> \in Sent
BY DEF Sent, PacketsOf

\* Packets that differ only later keep number, place and frame.
LEMMA SentSame ==
  ASSUME frames' = frames
  PROVE  /\ Sent' = Sent /\ Clock' = Clock /\ Total' = Total
         /\ \A p : SeqNo(p)' = SeqNo(p) /\ SentUpTo(p)' = SentUpTo(p) /\ Timed(p)' = Timed(p)
         /\ \A f : PacketsOf(f)' = PacketsOf(f)
<1>1. Sent' = Sent
  BY DEF Sent, PacketsOf
<1>2. Clock' = Clock /\ Total' = Total
  BY DEF Clock, Total
<1>3. \A p : SeqNo(p)' = SeqNo(p) /\ SentUpTo(p)' = SentUpTo(p) /\ Timed(p)' = Timed(p)
  BY DEF SeqNo, SentUpTo, Timed
<1>4. \A f : PacketsOf(f)' = PacketsOf(f)
  BY DEF PacketsOf
<1> QED BY <1>1, <1>2, <1>3, <1>4

-----------------------------------------------------------------------------
(* Sending a frame. *)

NewFrame(kind, n, step, exact) ==
  [kind |-> kind, ts |-> IF kind = "untimed" THEN 0 ELSE Clock + step,
   first |-> IF kind = "untimed" THEN 0 ELSE (cur + 1) % NumSeq,
   n |-> n, exact |-> exact,
   at |-> IF kind = "untimed" THEN Clock ELSE Clock + step, base |-> Total]

\* Frame fr is added to the stream.
Adds(fr) ==
  /\ Between /\ Len(frames) + 1 <= use.frames
  /\ frames' = Append(frames, fr)
  /\ fr \in Frame /\ Described(fr, use)
  /\ fr.base = Total /\ fr.at >= Clock /\ (fr.ts # 0 => fr.at > Clock)
  /\ fr.ts # 0 => fr.first = (cur + 1) % NumSeq
  /\ cur' = IF fr.ts = 0 THEN cur ELSE (cur + fr.n) % NumSeq
  /\ UNCHANGED use

\* The packets of the next frame, and the slot of one of them.
New(n)      == {<<Len(frames) + 1, i>> : i \in 0 .. n - 1}
Slot(fr, i) == ((fr.first + i) % NumSeq) % Ring
Slots(fr, s) == {i \in 0 .. fr.n - 1 : Slot(fr, i) = s}

\* Packet p was put into slot s, or the slot is as it was.
RingAfter(fr, s) ==
  IF Slots(fr, s) = {} THEN ring'[s] = ring[s]
  ELSE \E i \in Slots(fr, s) : ring'[s] = <<Len(frames) + 1, i>> /\ \A j \in Slots(fr, s) : j <= i

Sends(fr, gone) ==
  /\ Adds(fr)
  /\ gone \subseteq 0 .. fr.n - 1
  /\ \A p \in net \cup hand : Total + fr.n - 1 - SentUpTo(p) <= use.late
  /\ Cardinality(gone) \in Nat /\ (Cardinality(gone) = 0 => gone = {})
  /\ trouble.losses + Cardinality(gone) <= use.losses
  /\ trouble' = [trouble EXCEPT !.losses = @ + Cardinality(gone)]
  /\ net' \subseteq net \cup New(fr.n) /\ net \subseteq net'
  /\ ~fr.exact => net' = net \cup {p \in New(fr.n) : p[2] \notin gone}
  /\ IF fr.ts = 0 THEN ring' = ring
     ELSE /\ ring' \in [0 .. Ring - 1 -> Packet \cup {NoPacket}]
          /\ \A s \in 0 .. Ring - 1 : RingAfter(fr, s)
  /\ UNCHANGED <<nak, counting, playing, hand, kept, arrived, relayed>>

\* doSendRtpData adds its frame.
LEMMA SendAdds ==
  ASSUME TypeOK, NEW kind \in use.kinds, NEW n, NEW step \in use.steps,
         NEW exact \in {FALSE, use.exact},
         n \in (IF kind = "untimed" THEN use.messages ELSE use.sizes),
         NEW gone, SendFrame(kind, n, step, exact, gone)
  PROVE  Adds(NewFrame(kind, n, step, exact))
<1> DEFINE fr == NewFrame(kind, n, step, exact)
<1>1. /\ kind \in Kind /\ n \in Nat \ {0} /\ step \in Nat \ {0} /\ exact \in BOOLEAN
      /\ exact => use.exact
  BY UseType
<1>2. Clock \in Nat \ {0} /\ Total \in Nat
  BY ClockType
<1>3. cur \in Int /\ cur + 1 \in Int /\ cur + n \in Int
  BY <1>1 DEF TypeOK, Number
<1>4. (cur + 1) % NumSeq \in Number /\ 0 \in Number
  BY <1>3, NumberMod, Constants DEF Number
<1>5. /\ fr.kind = kind /\ fr.n = n /\ fr.exact = exact /\ fr.base = Total
      /\ fr.ts = (IF kind = "untimed" THEN 0 ELSE Clock + step)
      /\ fr.first = (IF kind = "untimed" THEN 0 ELSE (cur + 1) % NumSeq)
      /\ fr.at = (IF kind = "untimed" THEN Clock ELSE Clock + step)
  BY DEF NewFrame
<1>6. fr \in Frame
  BY <1>1, <1>2, <1>4 DEF NewFrame, Frame
<1>7. Between /\ Len(frames) + 1 <= use.frames /\ frames' = Append(frames, fr) /\ UNCHANGED use
  BY DEF SendFrame, NewFrame
<1>8. cur' = IF kind = "untimed" THEN cur ELSE (cur + n) % NumSeq
  BY DEF SendFrame
<1> HIDE DEF fr
<1>9. fr.ts = 0 <=> kind = "untimed"
  BY <1>1, <1>2, <1>5
<1>10. fr.at >= Clock /\ (fr.ts # 0 => fr.at > Clock /\ fr.ts = fr.at /\ fr.ts > 1)
  BY <1>1, <1>2, <1>5
<1>11. Described(fr, use)
  BY <1>1, <1>5, <1>9, <1>10 DEF Described
<1> QED BY <1>5, <1>6, <1>7, <1>8, <1>9, <1>10, <1>11 DEF Adds, fr

\* What adding a frame leaves as it was.
LEMMA AddsKeeps ==
  ASSUME TypeOK, NEW fr, Adds(fr)
  PROVE  /\ Len(frames') = Len(frames) + 1 /\ DOMAIN frames' = DOMAIN frames \cup {Len(frames) + 1}
         /\ Len(frames) + 1 \notin DOMAIN frames /\ Len(frames) + 1 \in 1 .. MaxFrames
         /\ \A f \in DOMAIN frames : frames'[f] = frames[f] /\ PacketsOf(f)' = PacketsOf(f)
         /\ frames'[Len(frames) + 1] = fr
         /\ frames' \in Seq(Frame)
<1>1. frames \in Seq(Frame) /\ fr \in Frame /\ frames' = Append(frames, fr)
  BY DEF TypeOK, Adds
<1>2. Len(frames) \in Nat /\ DOMAIN frames = 1 .. Len(frames)
  BY FrameType
<1>3. /\ Len(frames') = Len(frames) + 1 /\ DOMAIN frames' = 1 .. Len(frames) + 1
      /\ \A f \in DOMAIN frames : frames'[f] = frames[f]
      /\ frames'[Len(frames) + 1] = fr /\ frames' \in Seq(Frame)
  BY <1>1, <1>2
<1>4. \A f \in DOMAIN frames : PacketsOf(f)' = PacketsOf(f)
  BY <1>3 DEF PacketsOf
<1>5. Len(frames) + 1 \in 1 .. MaxFrames
  BY <1>2, UseType, Constants DEF Adds
<1> QED BY <1>2, <1>3, <1>4, <1>5

LEMMA AddsPackets ==
  ASSUME TypeOK, Len(frames) <= use.frames, NEW fr, Adds(fr), NEW f, f = Len(frames) + 1
  PROVE  /\ Sent' = Sent \cup New(fr.n) /\ Sent \cap New(fr.n) = {}
         /\ \A p \in Sent : /\ SeqNo(p)' = SeqNo(p) /\ SentUpTo(p)' = SentUpTo(p)
                            /\ Timed(p)' = Timed(p) /\ HasAttach(p)' = HasAttach(p)
         /\ \A i \in 0 .. fr.n - 1 :
              /\ <<f, i>> \in New(fr.n)
              /\ SeqNo(<<f, i>>)' = (IF fr.ts = 0 THEN 0 ELSE (fr.first + i) % NumSeq)
              /\ SentUpTo(<<f, i>>)' = Total + i /\ Timed(<<f, i>>)' = (fr.ts # 0)
              /\ ~fr.exact => HasAttach(<<f, i>>)'
<1>1. /\ DOMAIN frames' = DOMAIN frames \cup {f} /\ f \notin DOMAIN frames
      /\ \A g \in DOMAIN frames : frames'[g] = frames[g] /\ PacketsOf(g)' = PacketsOf(g)
      /\ frames'[f] = fr
  BY AddsKeeps
<1>2. PacketsOf(f)' = New(fr.n)
  BY <1>1 DEF PacketsOf, New
<1>3. fr.base = Total
  BY DEF Adds
<1>4. Sent' = Sent \cup New(fr.n)
  <2>1. Sent' = UNION {PacketsOf(g)' : g \in DOMAIN frames'}
    BY DEF Sent
  <2>2. \A g \in DOMAIN frames' : PacketsOf(g)' = IF g = f THEN New(fr.n) ELSE PacketsOf(g)
    BY <1>1, <1>2
  <2> HIDE DEF Sent
  <2>3. Sent' = UNION {IF g = f THEN New(fr.n) ELSE PacketsOf(g) : g \in DOMAIN frames \cup {f}}
    BY <1>1, <2>1, <2>2
  <2>4. Sent = UNION {PacketsOf(g) : g \in DOMAIN frames}
    BY DEF Sent
  <2> QED BY <1>1, <2>3, <2>4
<1>5. \A p \in Sent : p[1] \in DOMAIN frames
  BY SentType
<1>6. \A p \in New(fr.n) : p[1] = f
  BY DEF New
<1>7. Sent \cap New(fr.n) = {}
  BY <1>1, <1>5, <1>6
<1>8. \A p \in Sent : /\ SeqNo(p)' = SeqNo(p) /\ SentUpTo(p)' = SentUpTo(p)
                      /\ Timed(p)' = Timed(p) /\ HasAttach(p)' = HasAttach(p)
  BY <1>1, <1>5 DEF SeqNo, SentUpTo, Timed, HasAttach
<1>9. ASSUME NEW i \in 0 .. fr.n - 1
      PROVE  /\ <<f, i>> \in New(fr.n)
             /\ SeqNo(<<f, i>>)' = (IF fr.ts = 0 THEN 0 ELSE (fr.first + i) % NumSeq)
             /\ SentUpTo(<<f, i>>)' = Total + i /\ Timed(<<f, i>>)' = (fr.ts # 0)
             /\ ~fr.exact => HasAttach(<<f, i>>)'
  BY <1>1, <1>3 DEF SeqNo, SentUpTo, Timed, HasAttach, New
<1> QED BY <1>4, <1>7, <1>8, <1>9

\* The whole of doSendRtpData.
LEMMA SendSends ==
  ASSUME TypeOK, Len(frames) <= use.frames, Send
  PROVE  \E fr, gone : Sends(fr, gone)
<1>1. PICK kind \in use.kinds, n \in use.sizes \cup use.messages, step \in use.steps,
           exact \in {FALSE, use.exact} :
             /\ n \in (IF kind = "untimed" THEN use.messages ELSE use.sizes)
             /\ \E gone \in SUBSET (0 .. n - 1) : SendFrame(kind, n, step, exact, gone)
  BY DEF Send
<1>2. PICK gone \in SUBSET (0 .. n - 1) : SendFrame(kind, n, step, exact, gone)
  BY <1>1
<1>0. PICK f : f = Len(frames) + 1
  OBVIOUS
<1> DEFINE fr == NewFrame(kind, n, step, exact)
           new == {<<f, i>> : i \in 0 .. n - 1}
<1>3. Adds(fr)
  BY <1>1, <1>2, SendAdds
<1>4. fr.n = n /\ fr.exact = exact /\ (fr.ts = 0 <=> kind = "untimed")
  <2>1. fr.n = n /\ fr.exact = exact /\ fr.kind = kind
    BY DEF NewFrame
  <2> QED BY <1>3, <2>1 DEF Adds, Described
<1>5. new = New(fr.n)
  BY <1>0, <1>4 DEF New
<1>6. /\ \A p \in net \cup hand : Total + n - 1 - SentUpTo(p) <= use.late
      /\ trouble.losses + Cardinality(gone) <= use.losses
      /\ trouble' = [trouble EXCEPT !.losses = @ + Cardinality(gone)]
      /\ net' = net \cup {p \in new : HasAttach(p)' /\ p[2] \notin gone}
      /\ UNCHANGED <<nak, counting, playing, hand, kept, arrived, relayed>>
  BY <1>0, <1>2 DEF SendFrame
<1>7. IF kind = "untimed" THEN ring' = ring
      ELSE ring' = [s \in 0 .. Ring - 1 |->
                          LET here == {p \in new : SeqNo(p)' % Ring = s}
                          IN  IF here = {} THEN ring[s]
                              ELSE CHOOSE p \in here : \A q \in here : q[2] <= p[2]]
  BY <1>0, <1>2 DEF SendFrame
<1> HIDE DEF fr, new
<1>8. n \in Nat /\ n > 0
  BY <1>1, UseType
<1>9. Cardinality(gone) \in Nat /\ (Cardinality(gone) = 0 => gone = {})
  <2>1. IsFiniteSet(0 .. n - 1)
    BY <1>8, FS_Interval
  <2>2. IsFiniteSet(gone)
    BY <2>1, FS_Subset
  <2> QED BY <2>2, FS_CardinalityType, FS_EmptySet
<1>10. ~fr.exact => \A p \in new : HasAttach(p)'
  <2>1. \A i \in 0 .. fr.n - 1 : ~fr.exact => HasAttach(<<f, i>>)'
    BY <1>0, <1>3, AddsPackets
  <2> QED BY <1>4, <2>1 DEF new
<1>11. IF fr.ts = 0 THEN ring' = ring
       ELSE /\ ring' \in [0 .. Ring - 1 -> Packet \cup {NoPacket}]
            /\ \A s \in 0 .. Ring - 1 : RingAfter(fr, s)
  <2>1. CASE fr.ts = 0
    BY <1>4, <1>7, <2>1
  <2>2. CASE fr.ts # 0
    <3> DEFINE here(s) == {p \in new : SeqNo(p)' % Ring = s}
    <3>1. \A i \in 0 .. n - 1 : SeqNo(<<f, i>>)' % Ring = Slot(fr, i)
      <4>1. \A i \in 0 .. n - 1 : SeqNo(<<f, i>>)' = (fr.first + i) % NumSeq
        BY <1>0, <1>3, <1>4, <2>2, AddsPackets
      <4> QED BY <4>1 DEF Slot
    <3>2. \A s : here(s) = {<<f, i>> : i \in Slots(fr, s)}
      BY <1>4, <3>1 DEF Slots, new
    <3>3. ring' = [s \in 0 .. Ring - 1 |->
                     IF here(s) = {} THEN ring[s]
                     ELSE CHOOSE p \in here(s) : \A q \in here(s) : q[2] <= p[2]]
      BY <1>4, <1>7, <2>2
    <3> HIDE DEF here
    <3>4. ASSUME NEW s \in 0 .. Ring - 1
          PROVE  RingAfter(fr, s) /\ ring'[s] \in Packet \cup {NoPacket}
      <4>1. ring'[s] = IF here(s) = {} THEN ring[s]
                       ELSE CHOOSE p \in here(s) : \A q \in here(s) : q[2] <= p[2]
        BY <3>3
      <4>2. CASE Slots(fr, s) = {}
        <5>1. here(s) = {}
          BY <3>2, <4>2
        <5>2. ring'[s] = ring[s]
          BY <4>1, <5>1
        <5> QED BY <4>2, <5>2 DEF RingAfter, TypeOK
      <4>3. CASE Slots(fr, s) # {}
        <5>1. Slots(fr, s) \subseteq 0 .. n - 1
          BY <1>4 DEF Slots
        <5>2. PICK k \in Slots(fr, s) : \A j \in Slots(fr, s) : j <= k
          BY <1>8, <4>3, <5>1, n - 1 \in Nat, Greatest
        <5>3. <<f, k>> \in here(s) /\ \A q \in here(s) : q[2] <= <<f, k>>[2]
          BY <3>2, <5>2
        <5>4. here(s) # {}
          BY <5>3
        <5> DEFINE c == CHOOSE p \in here(s) : \A q \in here(s) : q[2] <= p[2]
        <5>5. c \in here(s) /\ \A q \in here(s) : q[2] <= c[2]
          BY <5>3
        <5>6. ring'[s] = c
          BY <4>1, <5>4
        <5> HIDE DEF c
        <5>7. PICK i \in Slots(fr, s) : c = <<f, i>>
          BY <3>2, <5>5
        <5>8. \A j \in Slots(fr, s) : j <= i
          <6>1. SUFFICES ASSUME NEW j \in Slots(fr, s)
                         PROVE  j <= i
            OBVIOUS
          <6>2. <<f, j>> \in here(s)
            BY <3>2
          <6>3. <<f, j>>[2] <= c[2]
            BY <5>5, <6>2
          <6> QED BY <5>7, <6>3
        <5>9. RingAfter(fr, s)
          BY <4>3, <5>6, <5>7, <5>8, <1>0 DEF RingAfter
        <5>10. f \in 1 .. MaxFrames /\ i \in Nat
          BY <1>3, <1>8, <5>1, AddsKeeps, <1>0
        <5> QED BY <5>6, <5>7, <5>9, <5>10 DEF Packet
      <4> QED BY <4>2, <4>3
    <3>5. ring' \in [0 .. Ring - 1 -> Packet \cup {NoPacket}]
      BY <3>3, <3>4
    <3> QED BY <2>2, <3>4, <3>5
  <2> QED BY <2>1, <2>2
<1>12. ~fr.exact => net' = net \cup {p \in New(fr.n) : p[2] \notin gone}
  BY <1>5, <1>6, <1>10
<1>13. Sends(fr, gone)
  <2>1. net' \subseteq net \cup New(fr.n) /\ net \subseteq net'
    BY <1>5, <1>6
  <2>2. gone \subseteq 0 .. fr.n - 1 /\ \A p \in net \cup hand : Total + fr.n - 1 - SentUpTo(p) <= use.late
    BY <1>4, <1>6
  <2>3. /\ Cardinality(gone) \in Nat /\ (Cardinality(gone) = 0 => gone = {})
        /\ trouble.losses + Cardinality(gone) <= use.losses
        /\ trouble' = [trouble EXCEPT !.losses = @ + Cardinality(gone)]
        /\ UNCHANGED <<nak, counting, playing, hand, kept, arrived, relayed>>
    BY <1>6, <1>9
  <2> QED BY <1>3, <1>11, <1>12, <2>1, <2>2, <2>3 DEF Sends
<1> QED BY <1>13

\* The last frame has the clock and the total, and every frame is before it.
LEMMA LastFrame ==
  ASSUME TypeOK, InLine(frames, use), NEW f \in DOMAIN frames
  PROVE  /\ frames[f].at <= Clock /\ EndOf(frames[f]) <= Total /\ frames[f].base <= Total
         /\ (\A g \in DOMAIN frames : f < g => frames[g].ts = 0) => EndOf(frames[f]) = Total
         /\ EndOf(frames[f]) \in Nat
<1> DEFINE l == Len(frames)
<1>1. l \in Nat /\ DOMAIN frames = 1 .. l /\ l \in DOMAIN frames /\ f <= l /\ frames # <<>>
  <2>1. frames \in Seq(Frame)
    BY DEF TypeOK
  <2> QED BY <2>1, FrameType
<1>2. \A g \in DOMAIN frames : /\ frames[g].n \in Nat /\ frames[g].base \in Nat /\ frames[g].at \in Nat
                               /\ EndOf(frames[g]) \in Nat /\ frames[g].base <= EndOf(frames[g])
  BY FrameType DEF EndOf
<1>3. Clock = frames[l].at /\ Total = EndOf(frames[l])
  BY <1>1 DEF Clock, Total, EndOf
<1> HIDE DEF l
<1>4. CASE f = l
  BY <1>2, <1>3, <1>4
<1>5. CASE f # l
  <2>1. f < l
    BY <1>1, <1>5
  <2>2. /\ frames[f].at <= frames[l].at /\ EndOf(frames[f]) <= frames[l].base
        /\ Untouched(frames, f, l) => frames[l].base = EndOf(frames[f])
    BY <1>1, <2>1 DEF InLine, Follows
  <2>3. ASSUME \A g \in DOMAIN frames : f < g => frames[g].ts = 0
        PROVE  EndOf(frames[f]) = Total
    <3>1. Untouched(frames, f, l) /\ frames[l].ts = 0
      BY <1>1, <2>1, <2>3 DEF Untouched
    <3> QED BY <1>3, <2>2, <3>1 DEF EndOf
  <2> QED BY <1>1, <1>2, <1>3, <2>2, <2>3
<1> QED BY <1>4, <1>5

\* A frame that is added stands in line.
LEMMA AddsInLine ==
  ASSUME TypeOK, InLine(frames, use), NEW fr, Adds(fr)
  PROVE  InLine(frames', use') /\ Total' = EndOf(fr) /\ Clock' = fr.at
<1>0. PICK l : l = Len(frames) + 1
  OBVIOUS
<1>1. /\ DOMAIN frames' = DOMAIN frames \cup {l} /\ l \notin DOMAIN frames
      /\ \A f \in DOMAIN frames : frames'[f] = frames[f]
      /\ frames'[l] = fr /\ Len(frames') = l /\ frames' \in Seq(Frame)
  BY <1>0, AddsKeeps
<1>2. Len(frames) \in Nat /\ l \in Nat /\ \A f \in DOMAIN frames : f < l /\ f \in Nat
  BY <1>0, FrameType
<1>3. fr.base = Total /\ fr.at >= Clock /\ (fr.ts # 0 => fr.ts = fr.at /\ fr.at > Clock)
      /\ Described(fr, use) /\ use' = use /\ fr.at \in Nat /\ fr.ts \in Nat
  BY DEF Adds, Described, Frame
<1>4. Total' = EndOf(fr) /\ Clock' = fr.at
  <2>1. frames' # <<>>
    BY <1>1
  <2> QED BY <1>1, <2>1 DEF Total, Clock, EndOf
<1>5. Clock \in Nat /\ Total \in Nat
  BY ClockType
<1>6. \A f \in DOMAIN frames' : Described(frames'[f], use)
  BY <1>1, <1>3 DEF InLine
<1>7. ASSUME NEW f \in DOMAIN frames
      PROVE  Follows(frames', f, l)
  <2>1. frames'[f] = frames[f] /\ frames'[l] = fr
    BY <1>1
  <2>2. /\ frames[f].at <= Clock /\ EndOf(frames[f]) <= Total
        /\ (\A g \in DOMAIN frames : f < g => frames[g].ts = 0) => EndOf(frames[f]) = Total
    BY LastFrame
  <2>3. frames[f].at \in Nat
    BY FrameType
  <2>4. Untouched(frames', f, l) => \A g \in DOMAIN frames : f < g => frames[g].ts = 0
    BY <1>1, <1>2 DEF Untouched
  <2>5. fr.at >= frames[f].at /\ (fr.ts # 0 => frames[f].at < fr.ts)
    BY <1>3, <1>5, <2>2, <2>3
  <2> QED BY <1>3, <2>1, <2>2, <2>4, <2>5 DEF Follows
<1>8. ASSUME NEW f \in DOMAIN frames', NEW g \in DOMAIN frames', f < g
      PROVE  Follows(frames', f, g)
  <2>1. CASE g = l
    <3>1. f \in DOMAIN frames
      BY <1>1, <1>2, <1>8, <2>1
    <3> QED BY <1>7, <2>1, <3>1
  <2>2. CASE g # l
    <3>1. f \in DOMAIN frames /\ g \in DOMAIN frames
      BY <1>1, <1>2, <1>8, <2>2
    <3>2. Untouched(frames', f, g) => Untouched(frames, f, g)
      BY <1>1 DEF Untouched
    <3>3. Follows(frames, f, g)
      BY <1>8, <3>1 DEF InLine
    <3> QED BY <1>1, <3>1, <3>2, <3>3 DEF Follows
  <2> QED BY <2>1, <2>2
<1>9. ASSUME NEW f \in DOMAIN frames'
      PROVE  Successor(frames', f)
  <2>1. CASE f = l
    <3>1. \A g \in DOMAIN frames' : ~ (f < g)
      BY <1>1, <1>2, <2>1
    <3> QED BY <3>1 DEF Successor
  <2>2. CASE f # l
    <3>1. f \in DOMAIN frames /\ f < l
      BY <1>1, <1>2, <2>2
    <3>2. CASE \A g \in DOMAIN frames : f < g => frames[g].ts = 0
      <4>1. Untouched(frames', f, l)
        BY <1>1, <3>2 DEF Untouched
      <4>2. CASE fr.ts = 0
        <5>1. \A g \in DOMAIN frames' : f < g => frames'[g].ts = 0
          BY <1>1, <3>2, <4>2
        <5> QED BY <5>1 DEF Successor
      <4>3. CASE fr.ts # 0
        BY <1>1, <3>1, <4>1, <4>3 DEF Successor
      <4> QED BY <4>2, <4>3
    <3>3. CASE ~ (\A g \in DOMAIN frames : f < g => frames[g].ts = 0)
      <4>1. PICK g \in DOMAIN frames : f < g /\ frames[g].ts # 0 /\ Untouched(frames, f, g)
        BY <3>1, <3>3 DEF InLine, Successor
      <4>2. Untouched(frames', f, g)
        BY <1>1, <1>2, <4>1 DEF Untouched
      <4> QED BY <1>1, <4>1, <4>2 DEF Successor
    <3> QED BY <3>2, <3>3
  <2> QED BY <2>1, <2>2
<1>10. InLine(frames', use)
  BY <1>6, <1>8, <1>9 DEF InLine
<1> QED BY <1>3, <1>4, <1>10

\* A sender that stays goes on numbering.
LEMMA AddsNoBreak ==
  ASSUME TypeOK, InLine(frames, use), NoBreak, NEW fr, Adds(fr)
  PROVE  NoBreak'
<1>1. SUFFICES ASSUME use.reenter = {}
               PROVE  /\ cur' = (use.start + Total') % NumSeq
                      /\ \A f \in DOMAIN frames' : frames'[f].ts # 0 =>
                           frames'[f].first = (use.start + 1 + frames'[f].base) % NumSeq
  BY DEF NoBreak, Adds
<1>2. /\ cur = (use.start + Total) % NumSeq
      /\ \A f \in DOMAIN frames : frames[f].ts # 0 =>
           frames[f].first = (use.start + 1 + frames[f].base) % NumSeq
  BY <1>1 DEF NoBreak
<1>3. /\ fr.base = Total /\ fr.n \in Nat /\ (fr.ts # 0 => fr.first = (cur + 1) % NumSeq)
      /\ cur' = IF fr.ts = 0 THEN cur ELSE (cur + fr.n) % NumSeq
  BY DEF Adds, Frame
<1>4. Total' = EndOf(fr) /\ Total \in Nat /\ use.start \in Nat
  BY AddsInLine, ClockType, UseType DEF Number
<1> DEFINE x == use.start + Total
<1>5. x \in Int /\ NumSeq \in Nat \ {0}
  BY <1>4, Constants
<1>6. ((x % NumSeq) + fr.n) % NumSeq = (x + fr.n) % NumSeq
  <2>1. fr.n \in Int
    BY <1>3
  <2> HIDE DEF x
  <2> QED BY <1>5, <2>1, SumMod
<1>7. ((x % NumSeq) + 1) % NumSeq = (x + 1) % NumSeq
  BY <1>5, SumMod
<1>8. cur' = (use.start + Total') % NumSeq
  <2>1. CASE fr.ts = 0
    BY <1>2, <1>3, <1>4, <2>1 DEF EndOf
  <2>2. CASE fr.ts # 0
    <3>1. Total' = Total + fr.n /\ use.start + Total' = x + fr.n
      BY <1>3, <1>4, <2>2 DEF EndOf
    <3> QED BY <1>2, <1>3, <1>6, <2>2, <3>1
  <2> QED BY <2>1, <2>2
<1>9. fr.ts # 0 => fr.first = (use.start + 1 + fr.base) % NumSeq
  <2>1. x + 1 = use.start + 1 + fr.base
    BY <1>3, <1>4
  <2> QED BY <1>2, <1>3, <1>7, <2>1
<1>10. /\ DOMAIN frames' = DOMAIN frames \cup {Len(frames) + 1}
       /\ \A f \in DOMAIN frames : frames'[f] = frames[f]
       /\ frames'[Len(frames) + 1] = fr
  BY AddsKeeps
<1> QED BY <1>2, <1>8, <1>9, <1>10

-----------------------------------------------------------------------------
(* The other steps. *)

\* What every step but Send leaves alone.
Quieter == UNCHANGED <<use, frames>>

\* SendReliableMsg: packets of the ring come to the network again.
Answers(again, gone) ==
  /\ again \subseteq {ring[s] : s \in 0 .. Ring - 1} \ {NoPacket}
  /\ gone \subseteq again
  /\ Cardinality(gone) \in Nat
  /\ trouble.losses + Cardinality(gone) <= use.losses
  /\ trouble' = [trouble EXCEPT !.losses = @ + Cardinality(gone),
                                !.again = @ \/ again # {},
                                !.hurt = @ \/ gone # {}]
  /\ nak' \subseteq nak
  /\ net' = net \cup (again \ gone)
  /\ UNCHANGED <<sender, counting, playing, hand, kept, arrived, relayed>>

LEMMA ReplyAnswers ==
  ASSUME TypeOK, Reply
  PROVE  \E again, gone : Answers(again, gone)
<1>1. PICK r \in nak : \E gone \in SUBSET {ring[s] : s \in DOMAIN ring} : Answer(r, gone)
  BY DEF Reply
<1>2. PICK gone : Answer(r, gone)
  BY <1>1
<1> DEFINE again == {p \in {ring[k % Ring] : k \in Asked(r)} :
                       p # NoPacket /\ SeqNo(p) \in Asked(r) /\ HasAttach(p)}
<1>3. Asked(r) \subseteq Int
  BY DEF Asked
<1>4. again \subseteq {ring[s] : s \in 0 .. Ring - 1} \ {NoPacket}
  BY <1>3, NumberMod
<1>5. /\ gone \subseteq again
      /\ trouble.losses + Cardinality(gone) <= use.losses
      /\ trouble' = [trouble EXCEPT !.losses = @ + Cardinality(gone),
                                    !.again = @ \/ again # {},
                                    !.hurt = @ \/ gone # {}]
      /\ nak' = nak \ {r} /\ net' = net \cup (again \ gone)
      /\ UNCHANGED <<sender, counting, playing, hand, kept, arrived, relayed>>
  BY <1>2 DEF Answer
<1> HIDE DEF again
<1>6. Cardinality(gone) \in Nat
  <2> DEFINE S == 0 .. Ring - 1
             T == {ring[s] : s \in S}
             g == [s \in S |-> ring[s]]
  <2>1. IsFiniteSet(S)
    BY FS_Interval, Constants
  <2>2. g \in Surjection(S, T)
    BY DEF Surjection
  <2>3. IsFiniteSet(T)
    <3> HIDE DEF S, T, g
    <3> QED BY <2>1, <2>2, FS_Surjection
  <2>4. gone \subseteq T
    BY <1>4, <1>5
  <2> QED BY <2>3, <2>4, FS_Subset, FS_CardinalityType
<1> QED BY <1>4, <1>5, <1>6 DEF Answers

\* What the receiver counts and asks for, in types.
LEMMA AskType ==
  ASSUME NEW seq \in Int, NEW count \in 1 .. NumSeq
  PROVE  Ask(seq, count) \subseteq Request
BY NumberMod DEF Ask, Request

LEMMA WaitedType ==
  ASSUME TypeOK, Patient
  PROVE  /\ Waited \in [1 .. 2 -> [seq : Number \cup {None}, count : 0 .. 1]]
         /\ \A k \in 1 .. 2 : Waited[k].count <= Patience
         /\ AskDue \subseteq Request
<1>1. /\ expect \in [1 .. 2 -> [seq : Number \cup {None}, count : 0 .. 1]]
      /\ \A k \in 1 .. 2 : expect[k].count <= Patience
      /\ Patience \in 0 .. 1
  BY UseType DEF TypeOK, Patient, Patience
<1>2. NoExpect \in [seq : Number \cup {None}, count : 0 .. 1] /\ NoExpect.count = 0
  BY DEF NoExpect
<1>3. ASSUME NEW k \in 1 .. 2
      PROVE  Waited[k] \in [seq : Number \cup {None}, count : 0 .. 1] /\ Waited[k].count <= Patience
  <2>0. /\ expect[k].seq \in Number \cup {None} /\ expect[k].count \in 0 .. 1
        /\ expect[k].count <= Patience /\ expect[k] = [seq |-> expect[k].seq, count |-> expect[k].count]
    BY <1>1
  <2>1. CASE k \in Due
    BY <1>1, <1>2, <2>1 DEF Waited
  <2>2. CASE k \notin Due /\ expect[k].seq # None /\ \A d \in Due : k < d
    <3>1. Waited[k] = [expect[k] EXCEPT !.count = @ + 1]
      BY <2>2 DEF Waited
    <3>2. expect[k].count # Patience
      BY <1>1, <2>2 DEF Due
    <3>3. expect[k].count + 1 \in 0 .. 1 /\ expect[k].count + 1 <= Patience
      BY <1>1, <2>0, <3>2
    <3> QED BY <2>0, <3>1, <3>3
  <2>3. CASE k \notin Due /\ ~ (expect[k].seq # None /\ \A d \in Due : k < d)
    <3>1. Waited[k] = expect[k]
      BY <2>3 DEF Waited
    <3> QED BY <1>1, <3>1
  <2> QED BY <2>1, <2>2, <2>3
<1>4. Waited \in [1 .. 2 -> [seq : Number \cup {None}, count : 0 .. 1]]
  BY <1>3 DEF Waited
<1>5. AskDue \subseteq Request
  <2>1. ASSUME NEW k \in Due
        PROVE  Ask(expect[k].seq + 1, 1) \subseteq Request
    <3>1. expect[k].seq \in Number
      BY <1>1 DEF Due
    <3>2. expect[k].seq + 1 \in Int /\ 1 \in 1 .. NumSeq
      BY <3>1, Constants DEF Number
    <3> QED BY <3>2, AskType
  <2> QED BY <2>1 DEF AskDue
<1> QED BY <1>3, <1>4, <1>5

LEMMA LostType ==
  ASSUME TypeOK, NEW seq
  PROVE  Lost(seq).rest \subseteq Number /\ Lost(seq).ask \subseteq Request
<1> DEFINE Age0(s)  == (IF last = None THEN NumSeq - 1 ELSE last) - s
           here    == {s \in lost2 \ {seq} : \E t \in lost2 \ {seq} :
                         (t = s \/ Before(t, s)) /\ Age0(t) <= Far}
           ahead(s) == \A t \in here \ {s} : Before(s, t)
           head    == CHOOSE s \in here : (\E t \in here : ahead(t)) => ahead(s)
           row     == {s \in here : s - head \in 0 .. MaxResend - 1 /\ head .. s \subseteq here}
           unripe  == here = {} \/ Age0(head) \in 1 .. Near - 1
<1>1. Lost(seq) = IF unripe THEN [rest |-> here, ask |-> {}]
                  ELSE [rest |-> here \ row, ask |-> Ask(head + Cardinality(row), Cardinality(row))]
  BY DEF Lost
<1>2. here \subseteq Number
  BY DEF TypeOK
<1> HIDE DEF here
<1>3. CASE unripe
  <2>1. Lost(seq) = [rest |-> here, ask |-> {}]
    BY <1>1, <1>3
  <2> QED BY <1>2, <2>1
<1>4. CASE ~unripe
  <2>1. here # {}
    BY <1>4
  <2>2. \E s \in here : (\E t \in here : ahead(t)) => ahead(s)
    BY <2>1
  <2>3. head \in here
    BY <2>2
  <2> HIDE DEF head
  <2>4. head \in row
    <3>1. head \in Int /\ head - head = 0 /\ 0 \in 0 .. MaxResend - 1
      BY <1>2, <2>3, Constants DEF Number
    <3>2. head .. head = {head}
      BY <3>1
    <3> QED BY <2>3, <3>1, <3>2
  <2>5. row \subseteq 0 .. NumSeq - 1
    BY <1>2 DEF Number
  <2> HIDE DEF row
  <2>6. /\ IsFiniteSet(0 .. NumSeq - 1) /\ Cardinality(0 .. NumSeq - 1) = NumSeq
    BY FS_Interval, Constants
  <2>7. IsFiniteSet(row) /\ Cardinality(row) <= NumSeq /\ Cardinality(row) \in Nat
    BY <2>5, <2>6, FS_Subset, FS_CardinalityType
  <2>8. Cardinality(row) # 0
    BY <2>4, <2>7, FS_EmptySet
  <2>9. Cardinality(row) \in 1 .. NumSeq /\ head + Cardinality(row) \in Int
    BY <1>2, <2>3, <2>7, <2>8, Constants DEF Number
  <2>10. Ask(head + Cardinality(row), Cardinality(row)) \subseteq Request
    BY <2>9, AskType
  <2> QED BY <1>1, <1>2, <1>4, <2>10
<1> QED BY <1>3, <1>4

\* CaculateMissedPackets keeps the types.
Counting(e) ==
  /\ e \in [1 .. 2 -> [seq : Number \cup {None}, count : 0 .. 1]]
  /\ \A k \in 1 .. 2 : e[k].count <= Patience

LEMMA GapType ==
  ASSUME TypeOK, Patient, NEW seq \in Number, NEW first \in Number, NEW n \in 0 .. NumSeq,
         NEW asked, asked \subseteq Request, Gap(seq, first, n, asked)
  PROVE  Counting(expect') /\ nak' \subseteq Request
<1>1. /\ Waited \in [1 .. 2 -> [seq : Number \cup {None}, count : 0 .. 1]]
      /\ \A k \in 1 .. 2 : Waited[k].count <= Patience
  BY WaitedType
<1>2. Counting(Waited)
  BY <1>1 DEF Counting
<1>3. Patience \in 0 .. 1
  BY UseType DEF Patience
<1>4. \A k \in 1 .. 2 : Counting([Waited EXCEPT ![k] = [seq |-> first, count |-> 0]])
  BY <1>1, <1>3 DEF Counting
<1>5. CASE n = 0
  BY <1>2, <1>5 DEF Gap
<1>6. CASE n = 1 /\ Waited[1].seq = None
  <2>1. expect' = [Waited EXCEPT ![1] = [seq |-> first, count |-> 0]] /\ nak' = asked
    BY <1>6 DEF Gap
  <2> QED BY <1>4, <2>1
<1>7. CASE n = 1 /\ Waited[1].seq # None
  <2>1. /\ expect' = [Waited EXCEPT ![2] = [seq |-> first, count |-> 0]]
        /\ nak' = asked \cup (IF Waited[2].seq = None THEN {} ELSE Ask(Waited[2].seq + 1, 1))
    BY <1>7 DEF Gap
  <2>2. Waited[2].seq \in Number \cup {None}
    BY <1>1
  <2>3. Waited[2].seq # None => Ask(Waited[2].seq + 1, 1) \subseteq Request
    <3>1. Waited[2].seq # None => Waited[2].seq + 1 \in Int /\ 1 \in 1 .. NumSeq
      BY <2>2, Constants DEF Number
    <3> QED BY <3>1, AskType
  <2> QED BY <1>4, <2>1, <2>3
<1>8. CASE n > 1
  <2>1. expect' = Waited /\ nak' = asked \cup Ask(seq, n)
    BY <1>8 DEF Gap
  <2>2. Ask(seq, n) \subseteq Request
    <3>1. seq \in Int /\ n \in 1 .. NumSeq
      BY <1>8, Constants DEF Number
    <3> QED BY <3>1, AskType
  <2> QED BY <1>2, <2>1, <2>2
<1> QED BY <1>5, <1>6, <1>7, <1>8

LEMMA NotedType ==
  ASSUME NEW S, NEW T, S \cup T \subseteq Number
  PROVE  Noted(S, T) \subseteq Number
BY DEF Noted

LEMMA CountType ==
  ASSUME TypeOK, Known, Patient, NEW p \in Sent, Count(p)
  PROVE  /\ Counting(expect') /\ nak' \subseteq Request
         /\ last' \in Number \cup {None} /\ lost2' \subseteq Number /\ passed' \subseteq Packet
<1> DEFINE seq    == SeqNo(p)
           next   == IF last = None THEN 0 ELSE (last + 1) % NumSeq
           lost   == IF use.nak = 2 THEN Lost(seq) ELSE [rest |-> lost2, ask |-> {}]
           asked  == nak \cup (IF use.nak > 0 THEN AskDue ELSE {}) \cup lost.ask
           inTurn == \/ seq = next \/ last = None
                     \/ seq \in Restart /\ last \in Settled
           ahead  == ~inTurn /\ seq > next /\ seq - next < Half
           round  == ~inTurn /\ next > seq /\ next - seq > Half
           gap    == IF ahead THEN seq - next ELSE seq + (NumSeq - 1 - next)
           n      == IF use.nak = 0 \/ ~(ahead \/ round) \/ (ahead /\ gap > MaxResend) THEN 0
                     ELSE IF gap > MaxResend THEN MaxResend ELSE gap
           tail   == IF NumSeq - 1 - next > MaxResend THEN MaxResend ELSE NumSeq - 1 - next
           noted  == IF ~round \/ use.nak < 2 \/ seq - 1 >= MaxResend THEN {}
                     ELSE (NumSeq - 1 - tail .. NumSeq - 1) \cup 1 .. seq - 1
           forgotten == lost2 \ ({seq} \cup lost.rest \cup UNION {Asked(r) : r \in lost.ask})
           wanted == CASE n = 0 -> {} [] n = 1 -> {next} [] n > 1 -> UNION {Asked(r) : r \in Ask(seq, n)}
           left   == CASE last = None \/ (inTurn /\ seq # next) -> Earlier(p)
                       [] round \/ (ahead /\ gap > MaxResend) ->
                            {q \in Skipped(p, (seq - next) % NumSeq) : SeqNo(q) \notin wanted \cup noted}
                       [] OTHER -> {}
<1>1. seq \in Number /\ \A q \in Sent : SeqNo(q) \in Number
  BY SentType DEF Known
<1>2. next \in Number
  <2>1. last # None => last + 1 \in Int
    BY DEF TypeOK, Number
  <2>2. 0 \in Number
    BY Constants DEF Number
  <2> QED BY <2>1, <2>2, NumberMod
<1>3. lost.rest \subseteq Number /\ lost.ask \subseteq Request
  <2>1. Lost(seq).rest \subseteq Number /\ Lost(seq).ask \subseteq Request
    BY LostType
  <2> QED BY <2>1 DEF TypeOK
<1>4. asked \subseteq Request
  BY <1>3, WaitedType DEF TypeOK
<1>5. n \in 0 .. NumSeq /\ (ahead /\ n > 1 => n <= seq - next)
  BY <1>1, <1>2, Constants DEF Number
<1>6. tail \in 0 .. NumSeq - 1
  BY <1>2, Constants DEF Number
<1>7. CASE UNCHANGED <<counting, nak>>
  BY <1>7 DEF counting, TypeOK, Patient, Counting, Patience
<1>8. CASE \E k \in 1 .. 2 : /\ expect' = [expect EXCEPT ![k] = NoExpect]
                             /\ UNCHANGED <<last, lost2, passed, nak>>
  <2>1. PICK k \in 1 .. 2 : expect' = [expect EXCEPT ![k] = NoExpect]
    BY <1>8
  <2>2. Patience \in 0 .. 1
    BY UseType DEF Patience
  <2>3. NoExpect \in [seq : Number \cup {None}, count : 0 .. 1] /\ NoExpect.count = 0
    BY DEF NoExpect
  <2>4. Counting(expect')
    <3>1. /\ expect \in [1 .. 2 -> [seq : Number \cup {None}, count : 0 .. 1]]
          /\ \A j \in 1 .. 2 : expect[j].count <= Patience
      BY DEF TypeOK, Patient
    <3> QED BY <2>1, <2>2, <2>3, <3>1 DEF Counting
  <2> QED BY <1>8, <2>4 DEF TypeOK
<1>9. CASE /\ Gap(seq, next, n, asked)
           /\ last' = IF inTurn \/ ahead \/ round THEN seq ELSE last
           /\ lost2' = CASE use.nak = 2 /\ ahead /\ n > 1 -> Noted(lost.rest, seq - n .. seq - 1)
                         [] use.nak = 2 /\ round /\ seq - 1 >= MaxResend -> {}
                         [] use.nak = 2 /\ round /\ seq - 1 < MaxResend -> Noted(lost.rest, noted)
                         [] OTHER -> lost.rest
           /\ passed' = passed \cup left \cup {q \in Sent : SeqNo(q) \in forgotten}
  <2>1. Counting(expect') /\ nak' \subseteq Request
    <3> HIDE DEF seq, next, n, asked
    <3> QED BY <1>1, <1>2, <1>4, <1>5, <1>9, GapType
  <2>2. last' \in Number \cup {None}
    <3> HIDE DEF inTurn, ahead, round
    <3> QED BY <1>1, <1>9 DEF TypeOK
  <2>3. lost2' \subseteq Number
    <3>1. ahead /\ n > 1 => seq - n .. seq - 1 \subseteq Number
      BY <1>1, <1>2, <1>5, Constants DEF Number
    <3>2. noted \subseteq Number
      <4>1. (NumSeq - 1 - tail .. NumSeq - 1) \cup 1 .. seq - 1 \subseteq Number
        <5> HIDE DEF tail
        <5> QED BY <1>1, <1>6, Constants DEF Number
      <4> QED BY <4>1
    <3>3. Noted(lost.rest, noted) \subseteq Number
      <4> HIDE DEF noted, lost
      <4> QED BY <1>3, <3>2, NotedType
    <3>4. ahead /\ n > 1 => Noted(lost.rest, seq - n .. seq - 1) \subseteq Number
      <4> HIDE DEF ahead, n, lost
      <4> QED BY <1>3, <3>1, NotedType
    <3> HIDE DEF ahead, round, n, lost, noted
    <3> QED BY <1>3, <1>9, <3>3, <3>4
  <2>4. passed' \subseteq Packet
    <3>1. Sent \subseteq Packet
      BY SentType DEF Known
    <3>2. Earlier(p) \subseteq Packet /\ \A m : Skipped(p, m) \subseteq Packet
      BY <3>1 DEF Earlier, Skipped
    <3>3. left \subseteq Packet
      <4> HIDE DEF ahead, round, n, next, inTurn, gap, wanted, noted
      <4> QED BY <3>2
    <3> HIDE DEF left, forgotten
    <3> QED BY <1>9, <3>1, <3>3 DEF TypeOK
  <2> QED BY <2>1, <2>2, <2>3, <2>4
<1>10. \/ UNCHANGED <<counting, nak>>
       \/ /\ Met(seq) # {}
          /\ expect' = [expect EXCEPT ![CHOOSE k \in Met(seq) : \A j \in Met(seq) : k <= j] = NoExpect]
          /\ UNCHANGED <<last, lost2, passed, nak>>
       \/ /\ Gap(seq, next, n, asked)
          /\ last' = IF inTurn \/ ahead \/ round THEN seq ELSE last
          /\ lost2' = CASE use.nak = 2 /\ ahead /\ n > 1 -> Noted(lost.rest, seq - n .. seq - 1)
                         [] use.nak = 2 /\ round /\ seq - 1 >= MaxResend -> {}
                         [] use.nak = 2 /\ round /\ seq - 1 < MaxResend -> Noted(lost.rest, noted)
                         [] OTHER -> lost.rest
          /\ passed' = passed \cup left \cup {q \in Sent : SeqNo(q) \in forgotten}
  BY DEF Count
<1>11. ASSUME Met(seq) # {},
              expect' = [expect EXCEPT ![CHOOSE k \in Met(seq) : \A j \in Met(seq) : k <= j] = NoExpect]
       PROVE  \E k \in 1 .. 2 : expect' = [expect EXCEPT ![k] = NoExpect]
  <2> DEFINE c == CHOOSE k \in Met(seq) : \A j \in Met(seq) : k <= j
  <2>1. Met(seq) \subseteq 1 .. 2
    BY DEF Met
  <2>2. \E k \in Met(seq) : \A j \in Met(seq) : k <= j
    BY <1>11, <2>1, 1 .. 2 = {1, 2}
  <2>3. c \in Met(seq)
    BY <2>2
  <2> QED BY <1>11, <2>1, <2>3
<1> QED BY <1>7, <1>8, <1>9, <1>10, <1>11

-----------------------------------------------------------------------------
(* Types. *)

LEMMA InitInv ==
  ASSUME Init
  PROVE  IInv
<1>1. use \in Use /\ use \in Uses
  BY RtpStreamAssumption DEF Init
<1>2. use.start \in Number /\ use.losses \in Nat /\ use.dups \in Nat /\ use.frames \in Nat
  BY <1>1, Constants DEF Use, Number
<1>3. frames = <<>> /\ frames \in Seq(Frame) /\ DOMAIN frames = {} /\ Len(frames) = 0
  BY DEF Init
<1>4. TypeOK
  <2>1. shown \in Seq(1 .. MaxFrames) /\ relayed \in Seq(Packet)
    BY DEF Init
  <2>2. play \in [ts : Nat, wait : Number \cup {None}, key : BOOLEAN]
    BY DEF Init
  <2>3. expect \in [1 .. 2 -> [seq : Number \cup {None}, count : 0 .. 1]]
    BY DEF Init, NoExpect
  <2>4. trouble \in [losses : 0 .. use.losses, dups : 0 .. use.dups,
                 again : BOOLEAN, hurt : BOOLEAN, late : BOOLEAN]
    BY <1>2 DEF Init
  <2> QED BY <1>1, <1>2, <1>3, <2>1, <2>2, <2>3, <2>4 DEF Init, TypeOK
<1>5. Known
  BY <1>2, <1>3 DEF Known, Init
<1>6. Patient
  BY <1>2, UseType, <1>4 DEF Patient, Patience, Init, NoExpect
<1>7. InLine(frames, use)
  BY <1>3 DEF InLine
<1>8. NoBreak
  <2>1. use.start % NumSeq = use.start
    BY <1>2, Remainder, Constants DEF Number
  <2>2. Total = 0 /\ use.start + 0 = use.start
    BY <1>2, <1>3 DEF Total, Number
  <2> QED BY <1>3, <2>1, <2>2 DEF NoBreak, Init
<1> QED BY <1>4, <1>5, <1>6, <1>7, <1>8 DEF IInv

\* A step that adds no frame keeps the line of the frames.
LEMMA LineSame ==
  ASSUME InLine(frames, use), NoBreak, frames' = frames, use' = use,
         cur' = cur \/ use.reenter # {}
  PROVE  InLine(frames', use') /\ NoBreak'
<1>1. Total' = Total
  BY SentSame
<1> QED BY <1>1 DEF NoBreak

LEMMA SendInv ==
  ASSUME IInv, Send
  PROVE  IInv'
<1>1. TypeOK /\ Known /\ Patient /\ InLine(frames, use) /\ NoBreak /\ Len(frames) <= use.frames
  BY DEF IInv, Known
<1>2. PICK fr, gone : Sends(fr, gone)
  BY <1>1, SendSends
<1>3. Adds(fr) /\ fr \in Frame /\ fr.n \in Nat /\ use' = use
  BY <1>2 DEF Sends, Adds, Frame
<1>4. InLine(frames', use') /\ NoBreak'
  BY <1>1, <1>3, AddsInLine, AddsNoBreak
<1>5. PICK l : l = Len(frames) + 1
  OBVIOUS
<1>6. /\ DOMAIN frames' = DOMAIN frames \cup {l} /\ Len(frames') = l /\ l \in 1 .. MaxFrames
      /\ frames' \in Seq(Frame)
  BY <1>1, <1>3, <1>5, AddsKeeps
<1>7. Sent' = Sent \cup New(fr.n)
  BY <1>1, <1>3, <1>5, AddsPackets
<1>8. New(fr.n) \subseteq Packet
  BY <1>3, <1>5, <1>6 DEF New, Packet
<1>9. /\ cur' = (IF fr.ts = 0 THEN cur ELSE (cur + fr.n) % NumSeq)
      /\ l <= use.frames /\ frames' = Append(frames, fr)
  BY <1>3, <1>5 DEF Adds
<1>10. cur' \in Number
  <2>1. cur \in Number /\ cur + fr.n \in Int
    BY <1>1, <1>3 DEF TypeOK, Number
  <2> QED BY <1>9, <2>1, NumberMod
<1>11. /\ net' \subseteq net \cup New(fr.n) /\ Cardinality(gone) \in Nat
       /\ trouble.losses + Cardinality(gone) <= use.losses
       /\ trouble' = [trouble EXCEPT !.losses = @ + Cardinality(gone)]
       /\ IF fr.ts = 0 THEN ring' = ring
          ELSE /\ ring' \in [0 .. Ring - 1 -> Packet \cup {NoPacket}]
               /\ \A s \in 0 .. Ring - 1 : RingAfter(fr, s)
       /\ UNCHANGED <<nak, counting, playing, hand, kept, arrived, relayed>>
  BY <1>2 DEF Sends
<1>12. trouble' \in [losses : 0 .. use.losses, dups : 0 .. use.dups,
                 again : BOOLEAN, hurt : BOOLEAN, late : BOOLEAN]
  <2>1. trouble.losses + Cardinality(gone) \in 0 .. use.losses
    BY <1>1, <1>11, UseType DEF TypeOK
  <2> QED BY <1>1, <1>11, <2>1 DEF TypeOK
<1>13. TypeOK'
  <2>1. ring' \in [0 .. Ring - 1 -> Packet \cup {NoPacket}]
    BY <1>1, <1>11 DEF TypeOK
  <2>2. net' \subseteq Packet
    BY <1>1, <1>8, <1>11 DEF TypeOK
  <2> QED BY <1>1, <1>3, <1>6, <1>10, <1>11, <1>12, <2>1, <2>2 DEF TypeOK, counting, playing
<1>14. Known'
  <2>1. \A s \in 0 .. Ring - 1 : ring'[s] \in Sent' \cup {NoPacket}
    <3>1. SUFFICES ASSUME NEW s \in 0 .. Ring - 1
                   PROVE  ring'[s] \in Sent' \cup {NoPacket}
      OBVIOUS
    <3>2. ring[s] \in Sent \cup {NoPacket}
      BY <1>1 DEF Known
    <3>3. ring'[s] = ring[s] \/ ring'[s] \in New(fr.n)
      BY <1>11 DEF RingAfter, New, Slots
    <3> QED BY <1>7, <3>2, <3>3
  <2> QED BY <1>1, <1>3, <1>6, <1>7, <1>9, <1>11, <2>1 DEF Known, playing
<1>15. Patient'
  BY <1>1, <1>3, <1>11 DEF Patient, Patience, counting
<1> QED BY <1>4, <1>13, <1>14, <1>15 DEF IInv

\* The steps that leave the frames as they are.
LEMMA ReenterInv ==
  ASSUME IInv, Reenter
  PROVE  IInv'
<1>1. TypeOK'
  BY Constants DEF IInv, Reenter, TypeOK, network, counting, playing, Number
<1>2. Known'
  <2>1. Sent' = Sent
    BY SentSame DEF Reenter
  <2> QED BY <2>1 DEF IInv, Reenter, Known, network, counting, playing
<1>3. Patient'
  BY DEF IInv, Reenter, Patient, Patience, counting
<1>4. InLine(frames', use') /\ NoBreak'
  BY LineSame DEF IInv, Reenter
<1> QED BY <1>1, <1>2, <1>3, <1>4 DEF IInv

LEMMA ReplyInv ==
  ASSUME IInv, Reply
  PROVE  IInv'
<1>1. TypeOK /\ Known /\ Patient /\ InLine(frames, use) /\ NoBreak /\ Len(frames) <= use.frames
  BY DEF IInv, Known
<1>2. PICK again, gone : Answers(again, gone)
  BY <1>1, ReplyAnswers
<1>3. /\ again \subseteq {ring[s] : s \in 0 .. Ring - 1} \ {NoPacket}
      /\ gone \subseteq again /\ Cardinality(gone) \in Nat
      /\ trouble.losses + Cardinality(gone) <= use.losses
      /\ trouble' = [trouble EXCEPT !.losses = @ + Cardinality(gone),
                                !.again = @ \/ again # {},
                                !.hurt = @ \/ gone # {}]
      /\ nak' \subseteq nak /\ net' = net \cup (again \ gone)
      /\ UNCHANGED <<sender, counting, playing, hand, kept, arrived, relayed>>
  BY <1>2 DEF Answers
<1>4. again \subseteq Sent
  BY <1>1, <1>3 DEF Known
<1>5. Sent' = Sent
  BY <1>3, SentSame DEF sender
<1>6. trouble' \in [losses : 0 .. use.losses, dups : 0 .. use.dups,
                 again : BOOLEAN, hurt : BOOLEAN, late : BOOLEAN]
  <2>1. trouble.losses + Cardinality(gone) \in 0 .. use.losses
    BY <1>1, <1>3, UseType DEF TypeOK
  <2> QED BY <1>1, <1>3, <2>1 DEF TypeOK
<1>7. net' \subseteq Packet
  <2>1. again \subseteq Packet
    BY <1>1, <1>4, SentType
  <2> QED BY <1>1, <1>3, <2>1 DEF TypeOK
<1>8. TypeOK'
  BY <1>1, <1>3, <1>6, <1>7 DEF TypeOK, sender, counting, playing
<1>9. Known'
  BY <1>1, <1>3, <1>4, <1>5 DEF Known, sender, playing
<1>10. Patient'
  BY <1>1, <1>3 DEF Patient, Patience, counting, sender
<1>11. InLine(frames', use') /\ NoBreak'
  BY <1>1, <1>3, LineSame DEF sender
<1> QED BY <1>8, <1>9, <1>10, <1>11 DEF IInv

LEMMA LoseInv ==
  ASSUME IInv, NEW r \in nak, LoseRequest(r)
  PROVE  IInv'
<1>1. TypeOK /\ Known /\ Patient /\ InLine(frames, use) /\ NoBreak
  BY DEF IInv
<1>2. /\ trouble.losses < use.losses
      /\ trouble' = [trouble EXCEPT !.losses = @ + 1, !.hurt = TRUE] /\ nak' \subseteq nak
      /\ UNCHANGED <<sender, net, counting, playing, hand, kept, arrived, relayed>>
  BY DEF LoseRequest
<1>3. trouble' \in [losses : 0 .. use.losses, dups : 0 .. use.dups,
                 again : BOOLEAN, hurt : BOOLEAN, late : BOOLEAN]
  <2>1. trouble.losses + 1 \in 0 .. use.losses
    BY <1>1, <1>2, UseType DEF TypeOK
  <2> QED BY <1>1, <1>2, <2>1 DEF TypeOK
<1>4. TypeOK'
  BY <1>1, <1>2, <1>3 DEF TypeOK, sender, counting, playing
<1>5. Known'
  <2>1. Sent' = Sent
    BY <1>2, SentSame DEF sender
  <2> QED BY <1>1, <1>2, <2>1 DEF Known, sender, playing
<1>6. Patient'
  BY <1>1, <1>2 DEF Patient, Patience, counting, sender
<1>7. InLine(frames', use') /\ NoBreak'
  BY <1>1, <1>2, LineSame DEF sender
<1> QED BY <1>4, <1>5, <1>6, <1>7 DEF IInv

LEMMA HearInv ==
  ASSUME IInv, NEW p \in net, Hear(p)
  PROVE  IInv'
<1>1. TypeOK /\ Known /\ Patient /\ InLine(frames, use) /\ NoBreak
  BY DEF IInv
<1>2. /\ Count(p) /\ hand' = hand \cup {p} /\ arrived' = arrived \cup {p}
      /\ net' \subseteq net
      /\ UNCHANGED <<sender, playing, kept, relayed>>
  BY DEF Hear
<1>3. \/ trouble' = trouble
      \/ /\ trouble.dups < use.dups
         /\ trouble' = [trouble EXCEPT !.dups = @ + 1, !.again = TRUE]
  BY DEF Hear
<1>4. p \in Sent /\ p \in Packet
  BY <1>1 DEF Known, TypeOK
<1>5. /\ Counting(expect') /\ nak' \subseteq Request
      /\ last' \in Number \cup {None} /\ lost2' \subseteq Number /\ passed' \subseteq Packet
  BY <1>1, <1>2, <1>4, CountType
<1>6. trouble' \in [losses : 0 .. use.losses, dups : 0 .. use.dups,
                 again : BOOLEAN, hurt : BOOLEAN, late : BOOLEAN]
  <2>1. trouble.dups < use.dups => trouble.dups + 1 \in 0 .. use.dups
    BY <1>1, UseType DEF TypeOK
  <2> QED BY <1>1, <1>3, <2>1 DEF TypeOK
<1>7. TypeOK'
  BY <1>1, <1>2, <1>4, <1>5, <1>6 DEF TypeOK, sender, playing, Counting
<1>8. Known'
  <2>1. Sent' = Sent
    BY <1>2, SentSame DEF sender
  <2> QED BY <1>1, <1>2, <1>4, <2>1 DEF Known, sender, playing
<1>9. Patient'
  BY <1>2, <1>5 DEF Patient, Patience, Counting, sender
<1>10. InLine(frames', use') /\ NoBreak'
  BY <1>1, <1>2, LineSame DEF sender
<1> QED BY <1>7, <1>8, <1>9, <1>10 DEF IInv

LEMMA KeepInv ==
  ASSUME IInv, NEW p \in hand, Keep(p)
  PROVE  IInv'
<1>1. TypeOK /\ Known /\ Patient /\ InLine(frames, use) /\ NoBreak
  BY DEF IInv
<1>2. /\ hand' = hand \ {p} /\ kept' = [kept EXCEPT ![SeqNo(p) % Ring] = p]
      /\ relayed' = relayed \/ relayed' = Append(relayed, p)
      /\ UNCHANGED <<sender, network, counting, playing, arrived>>
  BY DEF Keep
<1>3. p \in Sent /\ p \in Packet
  BY <1>1 DEF Known, TypeOK
<1>4. kept \in [0 .. Ring - 1 -> Packet \cup {NoPacket}] /\ relayed \in Seq(Packet)
  BY <1>1 DEF TypeOK
<1>5. TypeOK'
  <2>1. kept' \in [0 .. Ring - 1 -> Packet \cup {NoPacket}] /\ relayed' \in Seq(Packet)
    <3>1. kept' \in [0 .. Ring - 1 -> Packet \cup {NoPacket}]
      BY <1>2, <1>3, <1>4
    <3>2. relayed' \in Seq(Packet)
      BY <1>2, <1>3, <1>4
    <3> QED BY <3>1, <3>2
  <2> QED BY <1>1, <1>2, <2>1 DEF TypeOK, sender, network, counting, playing
<1>6. Known'
  <2>1. Sent' = Sent
    BY <1>2, SentSame DEF sender
  <2>2. \A s \in 0 .. Ring - 1 : kept'[s] \in Sent \cup {NoPacket}
    BY <1>1, <1>2, <1>3, <1>4 DEF Known
  <2>3. \A i \in DOMAIN relayed' : relayed'[i] \in Sent
    BY <1>1, <1>2, <1>3, <1>4 DEF Known
  <2> QED BY <1>1, <1>2, <2>1, <2>2, <2>3 DEF Known, sender, network, playing
<1>7. Patient'
  BY <1>1, <1>2 DEF Patient, Patience, counting, sender
<1>8. InLine(frames', use') /\ NoBreak'
  BY <1>1, <1>2, LineSame DEF sender
<1> QED BY <1>5, <1>6, <1>7, <1>8 DEF IInv

LEMMA CollectInv ==
  ASSUME IInv, NEW p \in hand, Collect(p)
  PROVE  IInv'
<1>1. TypeOK /\ Known /\ Patient /\ InLine(frames, use) /\ NoBreak /\ Len(frames) <= use.frames
  BY DEF IInv, Known
<1> DEFINE first == (SeqNo(p) - p[2]) % NumSeq
           new   == [f |-> p[1], first |-> first, filled |-> {p[2]}, late |-> frames[p[1]].ts = 0]
           mine  == {w \in waiting : frames[w.f].ts = frames[p[1]].ts}
<1>2. /\ hand' = hand \ {p} /\ taking' = TRUE
      /\ last' \in {last, None} /\ passed' \in {passed, passed \cup Overtaken}
      /\ waiting' \in {waiting, waiting \cup {new},
                       {IF w \in mine THEN [w EXCEPT !.filled = @ \cup {p[2]}] ELSE w : w \in waiting}}
      /\ \/ play' = play
         \/ frames[p[1]].ts > 0 /\ play' = [play EXCEPT !.ts = frames[p[1]].ts - 1, !.wait = first]
      /\ UNCHANGED <<sender, network, expect, lost2, shown, dropped, kept, arrived, relayed>>
  BY DEF Collect
<1>3. p \in Sent
  BY <1>1 DEF Known
<1>4. /\ p[1] \in DOMAIN frames /\ p[1] \in 1 .. MaxFrames /\ p[2] \in Nat
      /\ SeqNo(p) \in Number /\ frames[p[1]].ts \in Nat
  <2>1. p[1] \in DOMAIN frames /\ p \in Packet /\ SeqNo(p) \in Number
    BY <1>1, <1>3, SentType
  <2> QED BY <2>1, FrameType, <1>1 DEF Packet
<1>5. first \in Number
  BY <1>4, NumberMod DEF Number
<1> DEFINE W == [f : 1 .. MaxFrames, first : Number, filled : SUBSET Nat, late : BOOLEAN]
<1>6. new \in W
  <2> HIDE DEF first
  <2> QED BY <1>4, <1>5
<1>7. waiting \subseteq W /\ \A w \in waiting : [w EXCEPT !.filled = @ \cup {p[2]}] \in W
  <2>1. waiting \subseteq W
    BY <1>1 DEF TypeOK
  <2>2. ASSUME NEW w \in W
        PROVE  [w EXCEPT !.filled = @ \cup {p[2]}] \in W
    <3>1. w.filled \cup {p[2]} \in SUBSET Nat
      BY <1>4
    <3> QED BY <3>1
  <2> HIDE DEF W
  <2> QED BY <2>1, <2>2
<1>8. \A w \in waiting : w.f \in DOMAIN frames /\ [w EXCEPT !.filled = @ \cup {p[2]}].f = w.f
  BY <1>7, <1>1 DEF Known
<1>9. new.f = p[1]
  OBVIOUS
<1> HIDE DEF first, new, mine
<1>10. waiting' \subseteq W /\ \A w \in waiting' : w.f \in DOMAIN frames
  BY <1>2, <1>4, <1>6, <1>7, <1>8, <1>9
<1>11. passed' \subseteq Packet
  <2>1. Overtaken \subseteq Packet
    BY <1>1, SentType DEF Overtaken
  <2> QED BY <1>1, <1>2, <2>1 DEF TypeOK
<1>12. play' \in [ts : Nat, wait : Number \cup {None}, key : BOOLEAN]
  <2>1. play \in [ts : Nat, wait : Number \cup {None}, key : BOOLEAN]
    BY <1>1 DEF TypeOK
  <2>2. frames[p[1]].ts > 0 => frames[p[1]].ts - 1 \in Nat
    BY <1>4
  <2> QED BY <1>2, <1>5, <2>1, <2>2
<1>13. TypeOK'
  <2>1. waiting' \subseteq W /\ taking' \in BOOLEAN /\ hand' \subseteq Packet /\ last' \in Number \cup {None}
    BY <1>1, <1>2, <1>10 DEF TypeOK
  <2> QED BY <1>1, <1>2, <1>11, <1>12, <2>1 DEF TypeOK, sender, network
<1>14. Known'
  <2>1. Sent' = Sent /\ frames' = frames
    BY <1>2, SentSame DEF sender
  <2> QED BY <1>1, <1>2, <1>10, <2>1 DEF Known, sender, network
<1>15. Patient'
  BY <1>1, <1>2 DEF Patient, Patience, sender
<1>16. InLine(frames', use') /\ NoBreak'
  BY <1>1, <1>2, LineSame DEF sender
<1> QED BY <1>13, <1>14, <1>15, <1>16 DEF IInv

LEMMA ExpireInv ==
  ASSUME IInv, NEW w \in waiting, Expire(w)
  PROVE  IInv'
<1>1. TypeOK /\ Known /\ Patient /\ InLine(frames, use) /\ NoBreak
  BY DEF IInv
<1>2. /\ waiting' = (waiting \ {w}) \cup {[w EXCEPT !.late = TRUE]}
      /\ trouble' = [trouble EXCEPT !.late = TRUE]
      /\ UNCHANGED <<sender, net, nak, counting, hand, taking, play, shown, dropped, kept, arrived, relayed>>
  BY DEF Expire
<1>3. /\ [w EXCEPT !.late = TRUE] \in [f : 1 .. MaxFrames, first : Number, filled : SUBSET Nat, late : BOOLEAN]
      /\ [w EXCEPT !.late = TRUE].f = w.f
  BY <1>1 DEF TypeOK
<1>4. TypeOK'
  <2>1. waiting' \subseteq [f : 1 .. MaxFrames, first : Number, filled : SUBSET Nat, late : BOOLEAN]
    BY <1>1, <1>2, <1>3 DEF TypeOK
  <2>2. trouble' \in [losses : 0 .. use.losses, dups : 0 .. use.dups,
                 again : BOOLEAN, hurt : BOOLEAN, late : BOOLEAN]
    BY <1>1, <1>2 DEF TypeOK
  <2> QED BY <1>1, <1>2, <2>1, <2>2 DEF TypeOK, sender, counting
<1>5. Known'
  <2>1. Sent' = Sent
    BY <1>2, SentSame DEF sender
  <2>2. \A v \in waiting' : v.f \in DOMAIN frames
    BY <1>1, <1>2, <1>3 DEF Known
  <2> QED BY <1>1, <1>2, <2>1, <2>2 DEF Known, sender
<1>6. Patient'
  BY <1>1, <1>2 DEF Patient, Patience, counting, sender
<1>7. InLine(frames', use') /\ NoBreak'
  BY <1>1, <1>2, LineSame DEF sender
<1> QED BY <1>4, <1>5, <1>6, <1>7 DEF IInv

\* GetWholeFrame, in one of its steps: a frame of those that wait is taken
\* out, and handed over or given up.
Takes(w) ==
  /\ Take(w)
  /\ \/ play' = play
     \/ play'.ts = frames[w.f].ts /\ play'.wait = (w.first + frames[w.f].n) % NumSeq
  /\ play' \in [ts : Nat, wait : Number \cup {None}, key : BOOLEAN]
  /\ \/ shown' = Append(shown, w.f) /\ dropped' = dropped
     \/ shown' = shown /\ dropped' = dropped \cup {w.f}

LEMMA AfterType ==
  ASSUME TypeOK, Known, NEW w \in waiting, NEW key \in BOOLEAN
  PROVE  /\ After(w) \in [ts : Nat, wait : Number \cup {None}, key : BOOLEAN]
         /\ [After(w) EXCEPT !.key = key] \in [ts : Nat, wait : Number \cup {None}, key : BOOLEAN]
         /\ After(w).ts = frames[w.f].ts /\ After(w).wait = (w.first + frames[w.f].n) % NumSeq
         /\ After(w).key = play.key
         /\ [After(w) EXCEPT !.key = key].ts = frames[w.f].ts
         /\ [After(w) EXCEPT !.key = key].wait = (w.first + frames[w.f].n) % NumSeq
         /\ [After(w) EXCEPT !.key = key].key = key
<1>1. /\ w.f \in DOMAIN frames /\ w.first \in Number
      /\ play \in [ts : Nat, wait : Number \cup {None}, key : BOOLEAN]
  BY DEF Known, TypeOK
<1>2. frames[w.f].ts \in Nat /\ frames[w.f].n \in Nat
  BY <1>1, FrameType
<1>3. w.first + frames[w.f].n \in Int
  BY <1>1, <1>2 DEF Number
<1> DEFINE x == (w.first + frames[w.f].n) % NumSeq
<1>4. x \in Number
  BY <1>3, NumberMod
<1> HIDE DEF x
<1>5. After(w) = [play EXCEPT !.ts = frames[w.f].ts, !.wait = x]
  BY DEF After, x
<1>6. /\ After(w) \in [ts : Nat, wait : Number \cup {None}, key : BOOLEAN]
      /\ After(w).ts = frames[w.f].ts /\ After(w).wait = x /\ After(w).key = play.key
  BY <1>1, <1>2, <1>4, <1>5
<1>7. /\ [After(w) EXCEPT !.key = key] \in [ts : Nat, wait : Number \cup {None}, key : BOOLEAN]
      /\ [After(w) EXCEPT !.key = key].ts = frames[w.f].ts
      /\ [After(w) EXCEPT !.key = key].wait = x
      /\ [After(w) EXCEPT !.key = key].key = key
  BY <1>6
<1> QED BY <1>6, <1>7 DEF x

LEMMA TakesOne ==
  ASSUME TypeOK, Known, NEW w \in waiting,
         TakeUntimed(w) \/ TakeInTurn(w) \/ TakeExpired(w)
  PROVE  Takes(w)
<1>0. play \in [ts : Nat, wait : Number \cup {None}, key : BOOLEAN]
  BY DEF TypeOK
<1>1. CASE TakeUntimed(w)
  BY <1>0, <1>1 DEF TakeUntimed, Takes
<1>2. CASE TakeInTurn(w)
  <2> DEFINE key == play.key /\ frames[w.f].kind # "key"
  <2>1. /\ Take(w) /\ play' = [After(w) EXCEPT !.key = key]
        /\ IF key /\ frames[w.f].kind = "delta"
           THEN dropped' = dropped \cup {w.f} /\ UNCHANGED shown
           ELSE shown' = Append(shown, w.f) /\ UNCHANGED dropped
    BY <1>2 DEF TakeInTurn
  <2>2. key \in BOOLEAN
    BY <1>0
  <2> HIDE DEF key
  <2>3. /\ play'.ts = frames[w.f].ts /\ play'.wait = (w.first + frames[w.f].n) % NumSeq
        /\ play' \in [ts : Nat, wait : Number \cup {None}, key : BOOLEAN]
    BY <2>1, <2>2, AfterType
  <2> QED BY <2>1, <2>3 DEF Takes
<1>3. CASE TakeExpired(w)
  <2> DEFINE key == frames[w.f].kind \in {"key", "delta"}
  <2>1. /\ Take(w)
        /\ IF ~play.key /\ Whole(w)
           THEN /\ play' = After(w)
                /\ shown' = Append(shown, w.f) /\ UNCHANGED dropped
           ELSE /\ play' = [After(w) EXCEPT !.key = key]
                /\ dropped' = dropped \cup {w.f} /\ UNCHANGED shown
    BY <1>3 DEF TakeExpired
  <2>2. key \in BOOLEAN
    OBVIOUS
  <2> HIDE DEF key
  <2>3. /\ play'.ts = frames[w.f].ts /\ play'.wait = (w.first + frames[w.f].n) % NumSeq
        /\ play' \in [ts : Nat, wait : Number \cup {None}, key : BOOLEAN]
    BY <2>1, <2>2, AfterType
  <2> QED BY <2>1, <2>3 DEF Takes
<1> QED BY <1>1, <1>2, <1>3

LEMMA TakeInv ==
  ASSUME IInv, NEW w \in waiting, TakeUntimed(w) \/ TakeInTurn(w) \/ TakeExpired(w)
  PROVE  IInv'
<1>1. TypeOK /\ Known /\ Patient /\ InLine(frames, use) /\ NoBreak
  BY DEF IInv
<1>2. /\ Take(w)
      /\ play' \in [ts : Nat, wait : Number \cup {None}, key : BOOLEAN]
      /\ \/ shown' = Append(shown, w.f) /\ dropped' = dropped
         \/ shown' = shown /\ dropped' = dropped \cup {w.f}
  BY <1>1, TakesOne DEF Takes
<1>3. /\ waiting' = waiting \ {w}
      /\ UNCHANGED <<sender, network, counting, hand, taking, kept, arrived, relayed>>
  BY <1>2 DEF Take
<1>4. w.f \in DOMAIN frames /\ w.f \in 1 .. MaxFrames
  BY <1>1 DEF Known, TypeOK
<1>5. TypeOK'
  <2>1. shown' \in Seq(1 .. MaxFrames) /\ dropped' \subseteq 1 .. MaxFrames
    <3>1. shown \in Seq(1 .. MaxFrames) /\ dropped \subseteq 1 .. MaxFrames
      BY <1>1 DEF TypeOK
    <3>2. Append(shown, w.f) \in Seq(1 .. MaxFrames)
      BY <1>4, <3>1
    <3> QED BY <1>2, <1>4, <3>1, <3>2
  <2> QED BY <1>1, <1>2, <1>3, <2>1 DEF TypeOK, sender, network, counting
<1>6. Known'
  <2>1. Sent' = Sent
    BY <1>3, SentSame DEF sender
  <2>2. (\A i \in DOMAIN shown' : shown'[i] \in DOMAIN frames) /\ dropped' \subseteq DOMAIN frames
    <3>1. shown \in Seq(1 .. MaxFrames)
      BY <1>1 DEF TypeOK
    <3>2. (\A i \in DOMAIN shown : shown[i] \in DOMAIN frames) /\ dropped \subseteq DOMAIN frames
      BY <1>1 DEF Known
    <3>3. \A i \in DOMAIN Append(shown, w.f) : Append(shown, w.f)[i] \in DOMAIN frames
      BY <1>4, <3>1, <3>2
    <3> QED BY <1>2, <1>4, <3>2, <3>3
  <2> QED BY <1>1, <1>3, <2>1, <2>2 DEF Known, sender, network
<1>7. Patient'
  BY <1>1, <1>3 DEF Patient, Patience, counting, sender
<1>8. InLine(frames', use') /\ NoBreak'
  BY <1>1, <1>3, LineSame DEF sender
<1> QED BY <1>5, <1>6, <1>7, <1>8 DEF IInv

\* A step that changes neither frames nor what is known of packets.
LEMMA NothingInv ==
  ASSUME IInv, TakeNothing \/ UNCHANGED vars
  PROVE  IInv'
<1>1. /\ UNCHANGED <<sender, network, counting, hand, waiting, play, shown, dropped, kept, arrived, relayed>>
      /\ taking' \in {taking, FALSE}
  BY DEF TakeNothing, vars, playing
<1>2. TypeOK'
  BY <1>1 DEF IInv, TypeOK, sender, network, counting
<1>3. Known'
  <2>1. Sent' = Sent
    BY <1>1, SentSame DEF sender
  <2> QED BY <1>1, <2>1 DEF IInv, Known, sender, network
<1>4. Patient'
  BY <1>1 DEF IInv, Patient, Patience, counting, sender
<1>5. InLine(frames', use') /\ NoBreak'
  BY <1>1, LineSame DEF IInv, sender
<1> QED BY <1>2, <1>3, <1>4, <1>5 DEF IInv

\* The use never changes.
LEMMA SameUse ==
  ASSUME [Next]_vars
  PROVE  use' = use
<1>1. Send \/ Reply => use' = use
  <2>1. Send => use' = use
    BY DEF Send, SendFrame
  <2>2. Reply => use' = use
    BY DEF Reply, Answer, sender
  <2> QED BY <2>1, <2>2
<1>2. Reenter \/ TakeNothing \/ UNCHANGED vars => use' = use
  BY DEF Reenter, TakeNothing, vars, sender
<1>3. \A x : LoseRequest(x) \/ Hear(x) \/ Keep(x) \/ Collect(x) \/ Expire(x) => use' = use
  BY DEF LoseRequest, Hear, Keep, Collect, Expire, sender
<1>4. \A w : TakeUntimed(w) \/ TakeInTurn(w) \/ TakeExpired(w) => use' = use
  BY DEF TakeUntimed, TakeInTurn, TakeExpired, Take, sender
<1> QED BY <1>1, <1>2, <1>3, <1>4 DEF Next

LEMMA StepInv ==
  ASSUME IInv, [Next]_vars
  PROVE  IInv'
BY SendInv, ReenterInv, ReplyInv, LoseInv, HearInv, KeepInv, CollectInv, ExpireInv,
   TakeInv, NothingInv DEF Next

LEMMA SpecInv == Spec => []IInv
<1>1. IInv /\ [Next]_vars => IInv'
  BY StepInv
<1> QED BY <1>1, InitInv, PTL DEF Spec

\* Numbers stay numbers, requests stay ranges of them, and the counts of what
\* is expected stay within the patience of the receiver, for streams of any
\* length and any use.
THEOREM StreamTypeCorrect == Spec => []TypeOK
<1>1. IInv => TypeOK
  BY DEF IInv
<1> QED BY <1>1, SpecInv, PTL

-----------------------------------------------------------------------------
(* The server. *)

\* A stream for a server has only timed frames, of no more packets than the
\* ring has slots, and no packet comes after a ring full of later ones.
InRing(u) == "untimed" \notin u.kinds /\ u.sizes \subseteq 1 .. Ring /\ u.late < Ring

RelayInv == IInv /\ IF use.server THEN ServerInv ELSE relayed = <<>>

LEMMA OnOn ==
  ASSUME NEW x \in Int, NEW a \in Int, NEW k \in Int, NEW c, NEW d, On(c, x, a), On(d, c, k)
  PROVE  On(d, x, a + k)
<1>1. x + a \in Int /\ (x + a) + k = x + (a + k) /\ NumSeq \in Nat \ {0}
  BY Constants
<1>2. (((x + a) % NumSeq) + k) % NumSeq = ((x + a) + k) % NumSeq
  BY <1>1, SumMod
<1> QED BY <1>1, <1>2 DEF On

\* Numbers that have the same slot and are as far from the sender's number
\* as the ring allows are as far from it as each other.
LEMMA SameAge ==
  ASSUME NEW x \in Int, NEW y \in Int, NEW c,
         NEW a \in 0 .. Ring - 1, NEW b \in 0 .. Ring - 1,
         On(c, x, a), On(c, y, b), x % Ring = y % Ring
  PROVE  a = b
<1>1. /\ x + a \in Int /\ y + b \in Int /\ y + a \in Int /\ a \in Int /\ b \in Int
      /\ NumSeq \in Nat \ {0} /\ Ring \in Nat \ {0} /\ NumSeq % Ring = 0
  BY Constants
<1>2. (x + a) % Ring = (y + b) % Ring
  <2>1. ((x + a) % NumSeq) % Ring = (x + a) % Ring
    BY <1>1, ModMod
  <2>2. ((y + b) % NumSeq) % Ring = (y + b) % Ring
    BY <1>1, ModMod
  <2> QED BY <2>1, <2>2 DEF On
<1>3. (x + a) % Ring = (y + a) % Ring
  <2>1. ((x % Ring) + a) % Ring = (x + a) % Ring
    BY <1>1, SumMod
  <2>2. ((y % Ring) + a) % Ring = (y + a) % Ring
    BY <1>1, SumMod
  <2> QED BY <2>1, <2>2
<1>4. (y + a) % Ring = (y + b) % Ring
  BY <1>2, <1>3
<1>5. ~ (a < b)
  <2>1. a < b => y + a < y + b /\ y + b < (y + a) + Ring
    BY <1>1
  <2> QED BY <1>1, <1>4, <2>1, Apart
<1>6. ~ (b < a)
  <2>1. b < a => y + b < y + a /\ y + a < (y + b) + Ring
    BY <1>1
  <2> QED BY <1>1, <1>4, <2>1, Apart
<1> QED BY <1>1, <1>5, <1>6

\* A place in the stream is one packet's, and so is a number in a frame.
LEMMA PlaceIsOnes ==
  ASSUME TypeOK, Known, InLine(frames, use), NEW p \in Sent, NEW q \in Sent,
         Timed(p), Timed(q), SentUpTo(p) = SentUpTo(q)
  PROVE  p = q
<1>1. /\ p[1] \in DOMAIN frames /\ p[2] \in 0 .. frames[p[1]].n - 1 /\ p = <<p[1], p[2]>>
      /\ q[1] \in DOMAIN frames /\ q[2] \in 0 .. frames[q[1]].n - 1 /\ q = <<q[1], q[2]>>
  BY SentType DEF Known
<1>2. /\ frames[p[1]].base \in Nat /\ frames[q[1]].base \in Nat
      /\ frames[p[1]].n \in Nat /\ frames[q[1]].n \in Nat /\ p[1] \in Nat /\ q[1] \in Nat
  BY <1>1, FrameType
<1>3. frames[p[1]].base + p[2] = frames[q[1]].base + q[2]
  BY DEF SentUpTo
<1>4. p[1] < q[1] => frames[p[1]].base + frames[p[1]].n <= frames[q[1]].base
  BY <1>1 DEF InLine, Follows, EndOf, Timed
<1>5. q[1] < p[1] => frames[q[1]].base + frames[q[1]].n <= frames[p[1]].base
  BY <1>1 DEF InLine, Follows, EndOf, Timed
<1>6. p[1] = q[1]
  BY <1>1, <1>2, <1>3, <1>4, <1>5
<1>7. p[2] = q[2]
  BY <1>1, <1>2, <1>3, <1>6
<1> QED BY <1>1, <1>6, <1>7

\* Timed frames have timestamps of their own.
LEMMA TimeIsOnes ==
  ASSUME TypeOK, InLine(frames, use), NEW f \in DOMAIN frames, NEW g \in DOMAIN frames,
         frames[f].ts # 0
  PROVE  /\ frames[f].ts = frames[g].ts => f = g
         /\ frames[g].ts # 0 /\ frames[f].ts < frames[g].ts => f < g
         /\ frames[g].ts # 0 /\ f < g => frames[f].ts < frames[g].ts
<1>1. f \in Nat /\ g \in Nat /\ frames[f].ts \in Nat /\ frames[g].ts \in Nat
  BY FrameType
<1>2. ASSUME NEW h \in DOMAIN frames, NEW k \in DOMAIN frames, h < k, frames[k].ts # 0
      PROVE  frames[h].ts < frames[k].ts
  <2>1. frames[h].at < frames[k].ts
    BY <1>2 DEF InLine, Follows
  <2>2. frames[h].ts = 0 \/ frames[h].ts = frames[h].at
    BY DEF InLine, Described
  <2>3. frames[h].at \in Nat /\ frames[k].ts \in Nat
    BY FrameType
  <2> QED BY <1>2, <2>1, <2>2, <2>3
<1> QED BY <1>1, <1>2

LEMMA HeadIsOnes ==
  ASSUME TypeOK, Known, InLine(frames, use), NEW p \in Sent, NEW q \in Sent,
         Timed(p), frames[p[1]].n <= NumSeq, SeqNo(p) = SeqNo(q),
         frames[p[1]].ts = frames[q[1]].ts
  PROVE  p = q
<1>1. /\ p[1] \in DOMAIN frames /\ p[2] \in 0 .. frames[p[1]].n - 1 /\ p = <<p[1], p[2]>>
      /\ q[1] \in DOMAIN frames /\ q[2] \in 0 .. frames[q[1]].n - 1 /\ q = <<q[1], q[2]>>
  BY SentType DEF Known
<1>2. p[1] = q[1]
  BY <1>1, TimeIsOnes DEF Timed
<1> DEFINE x == frames[p[1]].first
           i == p[2]
           j == q[2]
<1>3. (x + i) % NumSeq = (x + j) % NumSeq
  BY <1>2 DEF SeqNo, Timed
<1>4. x \in Int /\ frames[p[1]].n \in Nat
  BY <1>1, FrameType DEF Number
<1>5. i \in 0 .. NumSeq - 1 /\ j \in 0 .. NumSeq - 1
  BY <1>1, <1>2, <1>4, Constants
<1> HIDE DEF x, i, j
<1>6. x + i \in Int /\ x + j \in Int /\ NumSeq \in Nat \ {0}
  BY <1>4, <1>5, Constants
<1>7. ~ (i < j)
  <2>1. i < j => x + i < x + j /\ x + j < (x + i) + NumSeq
    BY <1>4, <1>5, <1>6
  <2> QED BY <1>3, <1>6, <2>1, Apart
<1>8. ~ (j < i)
  <2>1. j < i => x + j < x + i /\ x + i < (x + j) + NumSeq
    BY <1>4, <1>5, <1>6
  <2> QED BY <1>3, <1>6, <2>1, Apart
<1>9. i = j
  BY <1>5, <1>7, <1>8
<1> QED BY <1>1, <1>2, <1>9 DEF i, j

\* What holds of every frame and packet of a server's stream.
LEMMA RingFrames ==
  ASSUME IInv, InRing(use)
  PROVE  /\ \A f \in DOMAIN frames : frames[f].ts # 0 /\ frames[f].n <= Ring /\ frames[f].n <= NumSeq
         /\ \A p \in Sent : Timed(p)
         /\ Pending \subseteq Sent
<1>1. Ring <= NumSeq
  <2>1. Ring > NumSeq => NumSeq % Ring = NumSeq
    BY Constants, Remainder
  <2> QED BY <2>1, Constants
<1>2. ASSUME NEW f \in DOMAIN frames
      PROVE  frames[f].ts # 0 /\ frames[f].n <= Ring /\ frames[f].n <= NumSeq
  <2>1. frames[f].kind \in use.kinds /\ (frames[f].kind = "untimed" <=> frames[f].ts = 0)
        /\ frames[f].n \in (IF frames[f].ts = 0 THEN use.messages ELSE use.sizes)
    BY DEF IInv, InLine, Described
  <2>2. frames[f].ts # 0
    BY <2>1 DEF InRing
  <2> QED BY <1>1, <2>1, <2>2, Constants DEF InRing
<1>3. \A p \in Sent : Timed(p)
  BY <1>2, SentType DEF IInv, Known, Timed
<1>4. Pending \subseteq Sent
  BY DEF IInv, Known, Pending
<1> QED BY <1>2, <1>3, <1>4

\* No two packets that may still come share a slot.
LEMMA Spaced ==
  ASSUME IInv, InRing(use), ServerInv, NEW p \in Pending, NEW q \in Pending,
         SeqNo(p) % Ring = SeqNo(q) % Ring
  PROVE  p = q
<1>1. p \in Sent /\ q \in Sent /\ Timed(p) /\ Timed(q)
  BY RingFrames
<1>2. /\ Age(p) \in 0 .. Ring - 1 /\ On(cur, SeqNo(p), Age(p))
      /\ Age(q) \in 0 .. Ring - 1 /\ On(cur, SeqNo(q), Age(q))
  BY DEF ServerInv
<1>3. /\ SeqNo(p) \in Int /\ SeqNo(q) \in Int /\ SentUpTo(p) \in Nat /\ SentUpTo(q) \in Nat
      /\ NumSeq \in Nat \ {0} /\ Ring \in Nat \ {0} /\ NumSeq % Ring = 0
  <2>1. TypeOK /\ Len(frames) <= use.frames
    BY DEF IInv, Known
  <2>2. /\ SeqNo(p) \in Number /\ SeqNo(q) \in Number
        /\ SentUpTo(p) \in Nat /\ SentUpTo(q) \in Nat
    BY <1>1, <2>1, SentType
  <2> QED BY <2>2, Constants DEF Number
<1>4. Age(p) = Age(q)
  BY <1>2, <1>3, SameAge
<1>5. SentUpTo(p) = SentUpTo(q)
  BY <1>3, <1>4, ClockType DEF Age, IInv
<1> QED BY <1>1, <1>5, PlaceIsOnes DEF IInv

\* Steps that only take packets out of what may still come.
LEMMA ServerSame ==
  ASSUME ServerInv, UNCHANGED <<use, frames, cur, ring, kept, relayed>>,
         Pending' \subseteq Pending, arrived' \ hand' \subseteq arrived \ hand
  PROVE  ServerInv'
<1>1. \A p : SeqNo(p)' = SeqNo(p) /\ Age(p)' = Age(p) /\ Timed(p)' = Timed(p) /\ Broadcast(p)' = Broadcast(p)
  BY SentSame DEF Age, Broadcast
<1>2. RelayedOnce'
  BY <1>1 DEF ServerInv, RelayedOnce
<1>3. \A p \in Pending' : Age(p)' \in 0 .. Ring - 1 /\ On(cur', SeqNo(p)', Age(p)')
  BY <1>1 DEF ServerInv
<1>4. \A s \in 0 .. Ring - 1 :
        /\ ring'[s] # NoPacket => SeqNo(ring[s])' % Ring = s
        /\ kept'[s] # NoPacket => Broadcast(kept[s])'
  BY DEF ServerInv, SeqNo, Broadcast
<1>5. \A p \in Pending' : Broadcast(p)' => kept'[SeqNo(p)' % Ring] = p
  BY <1>1 DEF ServerInv
<1>6. \A p \in arrived' \ hand' : Broadcast(p)'
  BY <1>1 DEF ServerInv
<1> QED BY <1>2, <1>3, <1>4, <1>5, <1>6 DEF ServerInv

\* A packet of the ring that a frame leaves there is still one of the last.
LEMMA StaysInRing ==
  ASSUME NEW x \in Int, NEW a \in 0 .. Ring - 1, NEW k \in Nat, NEW c, NEW f,
         On(c, x, a), On(f, c, 1),
         \A i \in 0 .. k - 1 : ((f + i) % NumSeq) % Ring # x % Ring
  PROVE  a + k < Ring
<1>1. SUFFICES ASSUME a + k >= Ring
               PROVE  FALSE
  BY Constants
<1>2. PICK i : i = Ring - 1 - a
  OBVIOUS
<1>3. /\ i \in 0 .. k - 1 /\ a \in Int /\ i \in Int /\ 1 \in Int /\ a + 1 \in Int
      /\ (a + 1) + i = Ring /\ x + Ring \in Int
  BY <1>1, <1>2, Constants
<1>4. On(f, x, a + 1)
  BY <1>3, OnOn
<1>5. PICK d : d = (f + i) % NumSeq
  OBVIOUS
<1>6. On(d, x, (a + 1) + i)
  <2> DEFINE b == a + 1
  <2>1. On(f, x, b) /\ b \in Int /\ On(d, f, i)
    BY <1>3, <1>4, <1>5 DEF On
  <2> HIDE DEF b
  <2>2. On(d, x, b + i)
    BY <1>3, <2>1, OnOn
  <2> QED BY <2>2 DEF b
<1>7. d = (x + Ring) % NumSeq
  BY <1>3, <1>6 DEF On
<1> DEFINE y == x + Ring
<1>8. (y % NumSeq) % Ring = y % Ring
  <2>1. y \in Int /\ NumSeq \in Nat \ {0} /\ Ring \in Nat \ {0} /\ NumSeq % Ring = 0
    BY <1>3, Constants
  <2> HIDE DEF y
  <2> QED BY <2>1, ModMod
<1>9. y % Ring = x % Ring
  <2>1. (x + Ring * 1) % Ring = x % Ring
    <3>1. Ring \in Nat \ {0} /\ 1 \in Int
      BY Constants
    <3> QED BY <3>1, Multiple, Zenon
  <2> QED BY <2>1, Constants
<1> QED BY <1>3, <1>5, <1>7, <1>8, <1>9

LEMMA SendServer ==
  ASSUME IInv, InRing(use), ServerInv, Send
  PROVE  ServerInv'
<1>1. TypeOK /\ Known /\ InLine(frames, use) /\ Len(frames) <= use.frames
  BY DEF IInv, Known
<1>2. PICK fr, gone : Sends(fr, gone)
  BY <1>1, SendSends
<1>3. PICK l : l = Len(frames) + 1
  OBVIOUS
<1>4. Adds(fr) /\ fr \in Frame /\ use' = use
  BY <1>2 DEF Sends, Adds
<1>5. fr.ts # 0 /\ fr.n \in 1 .. Ring
  <2>1. Described(fr, use)
    BY <1>4 DEF Adds
  <2> QED BY <2>1 DEF Described, InRing
<1>6. /\ On(fr.first, cur, 1) /\ On(cur', cur, fr.n)
      /\ Total' = Total + fr.n /\ Total \in Nat /\ cur \in Int
  <2>1. On(fr.first, cur, 1) /\ On(cur', cur, fr.n) /\ cur \in Int
    BY <1>1, <1>4, <1>5 DEF Adds, On, TypeOK, Number
  <2>2. Total' = EndOf(fr) /\ Total \in Nat /\ fr.base = Total
    BY <1>1, <1>4, AddsInLine, ClockType DEF Adds
  <2> QED BY <1>5, <2>1, <2>2 DEF EndOf
<1>7. /\ Sent' = Sent \cup New(fr.n) /\ Sent \cap New(fr.n) = {}
      /\ \A p \in Sent : SeqNo(p)' = SeqNo(p) /\ SentUpTo(p)' = SentUpTo(p) /\ Timed(p)' = Timed(p)
      /\ \A i \in 0 .. fr.n - 1 :
           SeqNo(<<l, i>>)' = (fr.first + i) % NumSeq /\ SentUpTo(<<l, i>>)' = Total + i
  BY <1>1, <1>3, <1>4, <1>5, AddsPackets
<1>8. /\ \A p \in net \cup hand : Total + fr.n - 1 - SentUpTo(p) <= use.late
      /\ net' \subseteq net \cup New(fr.n)
      /\ \A s \in 0 .. Ring - 1 : RingAfter(fr, s)
      /\ UNCHANGED <<hand, kept, arrived, relayed>>
  BY <1>2, <1>5 DEF Sends
<1>9. New(fr.n) = {<<l, i>> : i \in 0 .. fr.n - 1}
  BY <1>3 DEF New
<1>10. /\ Pending \subseteq Sent /\ \A p \in Sent : Timed(p)
  BY RingFrames
<1>11. NumSeq \in Nat \ {0} /\ Ring \in Nat \ {0} /\ NumSeq % Ring = 0 /\ use.late < Ring /\ use.late \in Nat
  BY <1>1, Constants, UseType DEF InRing
<1>12. \A s \in 0 .. Ring - 1 :
         \/ Slots(fr, s) = {} /\ ring'[s] = ring[s]
         \/ \E i \in Slots(fr, s) : ring'[s] = <<l, i>>
  BY <1>3, <1>8 DEF RingAfter
<1>13. \A s : \A i \in Slots(fr, s) : i \in 0 .. fr.n - 1 /\ ((fr.first + i) % NumSeq) % Ring = s
  BY DEF Slots, Slot
<1>14. ASSUME NEW p \in Pending'
       PROVE  \/ p \in net \cup hand /\ p \in Pending
              \/ \E s \in 0 .. Ring - 1 : ring[s] = p /\ Slots(fr, s) = {} /\ p \in Pending
              \/ p \in New(fr.n)
  <2>1. p # NoPacket /\ (p \in net' \/ p \in hand' \/ \E s \in 0 .. Ring - 1 : ring'[s] = p)
    BY DEF Pending
  <2>2. CASE p \in net' \/ p \in hand'
    BY <1>8, <2>1, <2>2 DEF Pending
  <2>3. CASE \E s \in 0 .. Ring - 1 : ring'[s] = p
    <3>1. PICK s \in 0 .. Ring - 1 : ring'[s] = p
      BY <2>3
    <3> QED BY <1>9, <1>12, <1>13, <2>1, <3>1 DEF Pending
  <2> QED BY <2>1, <2>2, <2>3
<1>15. \A p \in Sent : SeqNo(p) \in Int /\ SentUpTo(p) \in Nat
  BY <1>1, SentType DEF Number
<1>16. ASSUME NEW p \in Pending', p \in Sent
       PROVE  p \in Pending /\ Age(p)' \in 0 .. Ring - 1 /\ On(cur', SeqNo(p)', Age(p)')
  <2> DEFINE x == SeqNo(p)
             a == Age(p)
  <2>1. p \in Pending
    BY <1>7, <1>14, <1>16
  <2>2. a \in 0 .. Ring - 1 /\ On(cur, x, a)
    BY <2>1 DEF ServerInv
  <2>3. a = Total - 1 - SentUpTo(p) /\ SeqNo(p)' = x /\ SentUpTo(p) \in Nat /\ x \in Int
    BY <1>7, <1>15, <1>16 DEF Age
  <2>4. Age(p)' = a + fr.n
    <3>1. Age(p)' = Total' - 1 - SentUpTo(p)'
      BY DEF Age
    <3> QED BY <1>5, <1>6, <1>7, <1>16, <2>3, <3>1
  <2> HIDE DEF x, a
  <2>5. On(cur', x, a + fr.n)
    <3>1. fr.n \in Int /\ a \in Int
      BY <1>5, <1>11, <2>2
    <3> QED BY <1>6, <2>2, <2>3, <3>1, OnOn
  <2>6. a + fr.n < Ring
    <3>1. CASE p \in net \cup hand
      BY <1>5, <1>6, <1>8, <1>11, <2>3, <3>1
    <3>2. CASE \E s \in 0 .. Ring - 1 : ring[s] = p /\ Slots(fr, s) = {}
      <4>1. PICK s \in 0 .. Ring - 1 : ring[s] = p /\ Slots(fr, s) = {}
        BY <3>2
      <4>2. x % Ring = s
        BY <2>1, <4>1 DEF ServerInv, Pending, x
      <4>3. \A i \in 0 .. fr.n - 1 : ((fr.first + i) % NumSeq) % Ring # x % Ring
        BY <4>1, <4>2 DEF Slots, Slot
      <4>4. fr.n \in Nat
        BY <1>5, <1>11
      <4> QED BY <1>6, <2>2, <2>3, <4>3, <4>4, StaysInRing
    <3> QED BY <1>7, <1>14, <1>16, <3>1, <3>2
  <2>7. Age(p)' \in 0 .. Ring - 1
    BY <1>5, <1>11, <2>2, <2>4, <2>6
  <2> QED BY <2>1, <2>3, <2>4, <2>5, <2>7
<1>17. ASSUME NEW p \in New(fr.n)
       PROVE  Age(p)' \in 0 .. Ring - 1 /\ On(cur', SeqNo(p)', Age(p)')
  <2>1. PICK i \in 0 .. fr.n - 1 : p = <<l, i>>
    BY <1>9
  <2>2. SeqNo(p)' = (fr.first + i) % NumSeq /\ SentUpTo(p)' = Total + i
    BY <1>7, <2>1
  <2>3. Age(p)' = fr.n - 1 - i
    <3>1. Age(p)' = Total' - 1 - SentUpTo(p)'
      BY DEF Age
    <3> QED BY <1>5, <1>6, <2>2, <3>1
  <2> DEFINE k == fr.n - 1 - i
  <2>4. PICK y : y = (fr.first + i) % NumSeq
    OBVIOUS
  <2>5. k \in 0 .. Ring - 1 /\ k \in Int /\ i \in Int /\ i + k = fr.n - 1 /\ 1 \in Int /\ fr.n - 1 \in Int
    BY <1>5, <1>11
  <2> HIDE DEF k
  <2>6. y \in Int /\ fr.first \in Int
    <3>1. fr.first \in Int
      BY <1>4 DEF Frame, Number
    <3>2. fr.first + i \in Int
      BY <2>5, <3>1
    <3> QED BY <2>4, <3>1, <3>2, NumberMod DEF Number
  <2>7. On(cur', y, k)
    <3>1. PICK d : d = (y + k) % NumSeq
      OBVIOUS
    <3>2. On(y, fr.first, i) /\ On(d, y, k)
      BY <2>4, <3>1 DEF On
    <3>3. On(d, fr.first, fr.n - 1)
      BY <2>5, <2>6, <3>2, OnOn
    <3>4. On(d, cur, 1 + (fr.n - 1))
      <4> DEFINE e == fr.n - 1
      <4>1. On(d, fr.first, e) /\ e \in Int
        BY <2>5, <3>3
      <4> HIDE DEF e
      <4>2. On(d, cur, 1 + e)
        BY <1>6, <2>5, <4>1, OnOn
      <4> QED BY <4>2 DEF e
    <3>5. 1 + (fr.n - 1) = fr.n
      BY <1>5, <1>11
    <3>6. d = cur'
      BY <1>6, <3>4, <3>5 DEF On
    <3> QED BY <3>2, <3>6
  <2>8. SeqNo(p)' = y /\ Age(p)' = k
    BY <2>2, <2>3, <2>4 DEF k
  <2> QED BY <2>5, <2>7, <2>8
<1>18. \A p \in Pending' : Age(p)' \in 0 .. Ring - 1 /\ On(cur', SeqNo(p)', Age(p)')
  BY <1>10, <1>14, <1>16, <1>17
<1>19. \A p : Broadcast(p)' = Broadcast(p)
  BY <1>8 DEF Broadcast
<1>20. \A p : Broadcast(p) => p \in Sent
  BY <1>1 DEF Known, Broadcast
<1>21. ASSUME NEW s \in 0 .. Ring - 1
       PROVE  /\ ring'[s] # NoPacket => SeqNo(ring[s])' % Ring = s
              /\ kept'[s] # NoPacket => Broadcast(kept[s])'
  <2>1. PICK p : p = ring'[s]
    OBVIOUS
  <2>2. SeqNo(ring[s])' = SeqNo(p)'
    BY <2>1 DEF SeqNo
  <2>3. p # NoPacket => SeqNo(p)' % Ring = s
    <3>1. CASE Slots(fr, s) = {} /\ ring'[s] = ring[s]
      <4>1. p # NoPacket => p \in Sent /\ SeqNo(p) % Ring = s
        BY <1>1, <2>1, <3>1 DEF ServerInv, Known
      <4> QED BY <1>7, <4>1
    <3>2. CASE \E i \in Slots(fr, s) : ring'[s] = <<l, i>>
      <4>1. PICK i \in Slots(fr, s) : p = <<l, i>>
        BY <2>1, <3>2
      <4>2. SeqNo(p)' = (fr.first + i) % NumSeq
        BY <1>7, <1>13, <4>1
      <4> QED BY <1>13, <4>2
    <3> QED BY <1>12, <3>1, <3>2
  <2>4. kept'[s] # NoPacket => Broadcast(kept[s])'
    BY <1>8 DEF ServerInv, Broadcast
  <2> QED BY <2>1, <2>2, <2>3, <2>4
<1>22. \A p \in Pending' : Broadcast(p)' => kept'[SeqNo(p)' % Ring] = p
  <2>1. SUFFICES ASSUME NEW p \in Pending', Broadcast(p)
                 PROVE  kept[SeqNo(p)' % Ring] = p
    BY <1>8, <1>19
  <2>2. p \in Sent /\ p \in Pending
    BY <1>16, <1>20, <2>1
  <2> QED BY <1>7, <2>1, <2>2 DEF ServerInv
<1>23. \A p \in arrived' \ hand' : Broadcast(p)'
  BY <1>8, <1>19 DEF ServerInv
<1>24. RelayedOnce'
  <2>1. SUFFICES ASSUME NEW i \in DOMAIN relayed, NEW j \in DOMAIN relayed, relayed[i] = relayed[j]
                 PROVE  i = j
    BY <1>8 DEF RelayedOnce
  <2>2. Timed(relayed[i])
    BY <1>1, <1>10 DEF Known
  <2> QED BY <2>1, <2>2 DEF ServerInv, RelayedOnce
<1> QED BY <1>18, <1>21, <1>22, <1>23, <1>24 DEF ServerInv

LEMMA ReenterServer ==
  ASSUME ServerInv, Reenter
  PROVE  ServerInv'
<1>1. /\ net \cup hand = {} /\ ring' = [s \in 0 .. Ring - 1 |-> NoPacket]
      /\ UNCHANGED <<use, frames, network, hand, kept, arrived, relayed>>
  BY DEF Reenter
<1>2. Pending' = {}
  BY <1>1 DEF Pending, network
<1>3. \A s \in 0 .. Ring - 1 :
        /\ ring'[s] # NoPacket => SeqNo(ring[s])' % Ring = s
        /\ kept'[s] # NoPacket => Broadcast(kept[s])'
  BY <1>1 DEF ServerInv, Broadcast
<1>4. \A p \in arrived' \ hand' : Broadcast(p)'
  BY <1>1 DEF ServerInv, Broadcast
<1>5. RelayedOnce'
  BY <1>1 DEF ServerInv, RelayedOnce, Timed
<1> QED BY <1>2, <1>3, <1>4, <1>5 DEF ServerInv

LEMMA KeepServer ==
  ASSUME IInv, InRing(use), ServerInv, NEW p \in hand, Keep(p)
  PROVE  ServerInv'
<1>1. TypeOK /\ Known /\ InLine(frames, use)
  BY DEF IInv
<1> DEFINE slot == SeqNo(p) % Ring
           q    == kept[slot]
<1>2. /\ hand' = hand \ {p} /\ kept' = [kept EXCEPT ![slot] = p]
      /\ relayed' = IF SameHead(p, q) THEN relayed ELSE Append(relayed, p)
      /\ UNCHANGED <<sender, network, counting, playing, arrived>>
  BY DEF Keep
<1>3. /\ p \in Sent /\ p \in Packet /\ p # NoPacket /\ p \in Pending /\ Timed(p)
      /\ \A r \in Sent : Timed(r)
  <2>1. p \in Sent
    BY <1>1 DEF Known
  <2>2. p \in Packet /\ p # NoPacket
    BY <1>1, <2>1, SentType DEF Known
  <2> QED BY <2>1, <2>2, RingFrames DEF Pending
<1>4. slot \in 0 .. Ring - 1
  <2>1. SeqNo(p) \in Int
    BY <1>1, <1>3, SentType DEF Known, Number
  <2> QED BY <2>1, NumberMod
<1>5. kept \in [0 .. Ring - 1 -> Packet \cup {NoPacket}] /\ relayed \in Seq(Packet)
  BY <1>1 DEF TypeOK
<1>6. /\ kept'[slot] = p
      /\ \A s \in 0 .. Ring - 1 : s # slot => kept'[s] = kept[s]
  BY <1>2, <1>4, <1>5
<1>7. q \in Sent \cup {NoPacket}
  BY <1>1, <1>4 DEF Known
<1> HIDE DEF slot, q
<1>8. SameHead(p, q) => q = p /\ Broadcast(p)
  <2>1. SUFFICES ASSUME SameHead(p, q)
                 PROVE  q = p /\ Broadcast(p)
    OBVIOUS
  <2>2. q # NoPacket /\ q \in Sent /\ SeqNo(p) = SeqNo(q) /\ frames[p[1]].ts = frames[q[1]].ts
    BY <1>7, <2>1 DEF SameHead
  <2>3. frames[p[1]].n <= NumSeq
    BY <1>1, <1>3, RingFrames, SentType DEF Known
  <2>4. q = p
    BY <1>1, <1>3, <2>2, <2>3, HeadIsOnes
  <2>5. Broadcast(q)
    BY <1>4, <2>2 DEF ServerInv, q
  <2> QED BY <2>4, <2>5
<1>9. ~SameHead(p, q) => ~Broadcast(p)
  <2>1. Broadcast(p) => q = p
    BY <1>3 DEF ServerInv, slot, q
  <2> QED BY <1>3, <2>1 DEF SameHead
<1>10. \A r : Broadcast(r)' <=> Broadcast(r) \/ r = p
  <2>1. CASE SameHead(p, q)
    BY <1>2, <1>8, <2>1 DEF Broadcast
  <2>2. CASE ~SameHead(p, q)
    <3>1. /\ relayed' = Append(relayed, p)
          /\ DOMAIN relayed' = DOMAIN relayed \cup {Len(relayed) + 1}
          /\ \A i \in DOMAIN relayed : relayed'[i] = relayed[i]
          /\ relayed'[Len(relayed) + 1] = p
      BY <1>2, <1>3, <1>5, <2>2
    <3> QED BY <3>1 DEF Broadcast
  <2> QED BY <2>1, <2>2
<1>11. \A r : SeqNo(r)' = SeqNo(r) /\ Age(r)' = Age(r) /\ Timed(r)' = Timed(r)
  BY <1>2, SentSame DEF Age, sender
<1>12. RelayedOnce'
  <2>1. CASE SameHead(p, q)
    BY <1>2, <1>11, <2>1 DEF ServerInv, RelayedOnce
  <2>2. CASE ~SameHead(p, q)
    <3>1. /\ DOMAIN relayed' = DOMAIN relayed \cup {Len(relayed) + 1}
          /\ \A i \in DOMAIN relayed : relayed'[i] = relayed[i]
          /\ relayed'[Len(relayed) + 1] = p
      BY <1>2, <1>3, <1>5, <2>2
    <3>2. \A i \in DOMAIN relayed : relayed[i] # p /\ Timed(relayed[i])
      BY <1>1, <1>3, <1>9, <2>2 DEF Broadcast, Known
    <3>3. \A i, j \in DOMAIN relayed : relayed[i] = relayed[j] => i = j
      BY <3>2 DEF ServerInv, RelayedOnce
    <3>4. \A i, j \in DOMAIN relayed' : relayed'[i] = relayed'[j] => i = j
      BY <3>1, <3>2, <3>3
    <3> QED BY <3>4 DEF RelayedOnce
  <2> QED BY <2>1, <2>2
<1>13. Pending' \subseteq Pending /\ ring' = ring /\ cur' = cur
  BY <1>2 DEF Pending, sender, network
<1>14. \A r \in Pending' : Age(r)' \in 0 .. Ring - 1 /\ On(cur', SeqNo(r)', Age(r)')
  BY <1>11, <1>13 DEF ServerInv
<1>15. \A s \in 0 .. Ring - 1 :
        /\ ring'[s] # NoPacket => SeqNo(ring[s])' % Ring = s
        /\ kept'[s] # NoPacket => Broadcast(kept[s])'
  <2>1. SUFFICES ASSUME NEW s \in 0 .. Ring - 1
                 PROVE  /\ ring'[s] # NoPacket => SeqNo(ring[s])' % Ring = s
                        /\ kept'[s] # NoPacket => Broadcast(kept[s])'
    OBVIOUS
  <2>2. ring'[s] # NoPacket => SeqNo(ring[s])' % Ring = s
    BY <1>2, <1>13 DEF ServerInv, SeqNo, sender
  <2>3. PICK r : r = kept'[s]
    OBVIOUS
  <2>4. r # NoPacket => Broadcast(r)'
    BY <1>6, <1>10, <2>3 DEF ServerInv
  <2>5. Broadcast(kept[s])' = Broadcast(r)'
    BY <2>3 DEF Broadcast
  <2> QED BY <2>2, <2>3, <2>4, <2>5
<1>16. \A r \in Pending' : Broadcast(r)' => kept'[SeqNo(r)' % Ring] = r
  <2>1. SUFFICES ASSUME NEW r \in Pending, Broadcast(r) \/ r = p
                 PROVE  kept'[SeqNo(r) % Ring] = r
    BY <1>10, <1>11, <1>13
  <2>2. SeqNo(r) % Ring \in 0 .. Ring - 1
    <3>1. SeqNo(r) \in Int
      BY <1>1, RingFrames, SentType DEF Known, Number
    <3> QED BY <3>1, NumberMod
  <2>3. CASE r = p
    BY <1>6, <2>3 DEF slot
  <2>4. CASE r # p
    <3>1. SeqNo(r) % Ring # slot
      BY <1>3, <2>4, Spaced DEF slot
    <3>2. kept[SeqNo(r) % Ring] = r
      BY <2>1, <2>4 DEF ServerInv
    <3> QED BY <1>6, <2>2, <3>1, <3>2
  <2> QED BY <2>3, <2>4
<1>17. \A r \in arrived' \ hand' : Broadcast(r)'
  BY <1>2, <1>10 DEF ServerInv
<1> QED BY <1>12, <1>14, <1>15, <1>16, <1>17 DEF ServerInv

LEMMA RelayInit ==
  ASSUME Init
  PROVE  RelayInv
<1>1. relayed = <<>> /\ arrived = {}
  BY DEF Init
<1>2. Pending = {}
  BY DEF Init, Pending
<1>3. ServerInv
  BY <1>1, <1>2 DEF Init, ServerInv, RelayedOnce
<1> QED BY <1>1, <1>3, InitInv DEF RelayInv

LEMMA RelayStep ==
  ASSUME \A u \in Uses : u.server => InRing(u), RelayInv, [Next]_vars
  PROVE  RelayInv'
<1>1. IInv /\ IInv' /\ use' = use
  BY StepInv, SameUse DEF RelayInv
<1>2. CASE ~use.server
  <2>1. relayed' = relayed
    <3>1. ASSUME NEW w \in waiting, TakeUntimed(w) \/ TakeInTurn(w) \/ TakeExpired(w)
          PROVE  relayed' = relayed
      BY <3>1 DEF TakeUntimed, TakeInTurn, TakeExpired, Take
    <3>2. Send => relayed' = relayed
      BY DEF Send, SendFrame
    <3>3. \A p \in hand : ~Keep(p)
      BY <1>2 DEF Keep
    <3> QED BY <3>1, <3>2, <3>3 DEF Next, vars, Reenter, Reply, Answer, LoseRequest, Hear,
                                    Collect, Expire, TakeNothing
  <2> QED BY <1>1, <1>2, <2>1 DEF RelayInv
<1>3. CASE use.server
  <2>1. InRing(use) /\ ServerInv
    BY <1>1, <1>3 DEF IInv, TypeOK, RelayInv
  <2>2. CASE Send
    BY <1>1, <2>1, <2>2, SendServer, <1>3 DEF RelayInv
  <2>3. CASE Reenter
    BY <1>1, <2>1, <2>3, ReenterServer, <1>3 DEF RelayInv
  <2>4. CASE \E p \in hand : Keep(p)
    BY <1>1, <2>1, <2>4, KeepServer, <1>3 DEF RelayInv
  <2>5. ASSUME UNCHANGED <<use, frames, cur, ring, kept, relayed>>,
               Pending' \subseteq Pending, arrived' \ hand' \subseteq arrived \ hand
        PROVE  RelayInv'
    BY <1>1, <1>3, <2>1, <2>5, ServerSame DEF RelayInv
  <2>6. CASE Reply
    <3>1. PICK again, gone : Answers(again, gone)
      BY <1>1, <2>6, ReplyAnswers DEF IInv
    <3>2. again \subseteq Pending
      BY <3>1 DEF Answers, Pending
    <3>3. Pending' \subseteq Pending
      BY <3>1, <3>2 DEF Answers, Pending, sender
    <3> QED BY <2>5, <3>1, <3>3 DEF Answers, sender
  <2>7. CASE \E r \in nak : LoseRequest(r)
    BY <2>5, <2>7 DEF LoseRequest, Pending, sender
  <2>8. CASE \E p \in net : Hear(p)
    <3>1. PICK p \in net : Hear(p)
      BY <2>8
    <3>2. /\ net' \subseteq net /\ hand' = hand \cup {p} /\ arrived' = arrived \cup {p}
          /\ UNCHANGED <<sender, kept, relayed>>
      BY <3>1 DEF Hear
    <3>3. Pending' \subseteq Pending
      BY <3>2 DEF Pending, sender
    <3> QED BY <2>5, <3>2, <3>3 DEF sender
  <2>9. CASE \E p \in hand : Collect(p)
    BY <1>3, <2>9 DEF Collect
  <2>10. CASE UNCHANGED <<sender, net, hand, kept, arrived, relayed>>
    BY <2>5, <2>10 DEF Pending, sender
  <2>11. ASSUME NEW w \in waiting, TakeUntimed(w) \/ TakeInTurn(w) \/ TakeExpired(w)
         PROVE  UNCHANGED <<sender, net, hand, kept, arrived, relayed>>
    BY <2>11 DEF TakeUntimed, TakeInTurn, TakeExpired, Take, network
  <2>12. (\E w \in waiting : Expire(w)) \/ TakeNothing \/ UNCHANGED vars
           => UNCHANGED <<sender, net, hand, kept, arrived, relayed>>
    BY DEF Expire, TakeNothing, vars, network
  <2> QED BY <2>2, <2>3, <2>4, <2>6, <2>7, <2>8, <2>9, <2>10, <2>11, <2>12 DEF Next
<1> QED BY <1>2, <1>3

\* A server broadcasts every timed packet it has handled exactly once: the
\* packets that may still come are never so many that two share a slot of
\* its ring, whatever is lost, doubled, asked for again or sent anew by a
\* sender that comes back.
THEOREM StreamRelays ==
  ASSUME \A u \in Uses : u.server => InRing(u)
  PROVE  Spec => []Relayed
<1>1. RelayInv /\ [Next]_vars => RelayInv'
  BY RelayStep
<1>2. RelayInv => Relayed
  <2>1. SUFFICES ASSUME RelayInv
                 PROVE  RelayedOnce /\ RelayedAll
    BY DEF Relayed
  <2>2. CASE use.server
    BY <2>1, <2>2 DEF RelayInv, ServerInv, RelayedAll, Broadcast
  <2>3. CASE ~use.server
    BY <2>1, <2>3 DEF RelayInv, RelayedOnce, RelayedAll
  <2> QED BY <2>2, <2>3
<1> QED BY <1>1, <1>2, RelayInit, PTL DEF Spec

-----------------------------------------------------------------------------
(* The client. *)

\* A stream for a client: its messages are single packets, its frames do not
\* fill their last packet exactly and have fewer packets than there are
\* numbers, no packet comes after as many later ones, and audio is not mixed
\* with delta video.
Playable(u) ==
  /\ u.messages \subseteq {1} /\ ~u.exact
  /\ u.sizes \subseteq 1 .. NumSeq - 1 /\ u.late < NumSeq
  /\ ~ ({"audio", "delta"} \subseteq u.kinds)

\* No packet is handled that is Stale and more older than what is shown.
Fresh == \A p \in hand : Timed(p) => play.ts - frames[p[1]].ts < Stale

\* The frames of such a stream.
LEMMA PlayableFrame ==
  ASSUME TypeOK, InLine(frames, use), Playable(use), NEW f \in DOMAIN frames
  PROVE  /\ frames[f].ts = 0 => frames[f].n = 1
         /\ frames[f].ts # 0 => frames[f].n \in 1 .. NumSeq - 1 /\ frames[f].ts > 1
         /\ frames[f].kind \in use.kinds /\ ~frames[f].exact
         /\ frames[f].ts # 0 => frames[f].kind \in {"key", "delta", "audio"}
         /\ frames[f].kind = "delta" => frames[f].ts # 0 /\ "audio" \notin use.kinds
<1>1. Described(frames[f], use)
  BY DEF InLine
<1>2. frames[f].kind \in Kind
  BY FrameType DEF Frame
<1> QED BY <1>1, <1>2 DEF Described, Playable, Kind

\* The number after a frame is not its first.
LEMMA EndsElsewhere ==
  ASSUME NEW x \in Number, NEW n \in 1 .. NumSeq - 1
  PROVE  (x + n) % NumSeq # x
<1>1. x % NumSeq = x
  BY Constants, Remainder DEF Number
<1>2. x < x + n /\ x + n < x + NumSeq /\ x + n \in Int /\ x \in Int /\ NumSeq \in Nat \ {0}
  BY Constants DEF Number
<1> QED BY <1>1, <1>2, Apart

\* PushRtpData finds the first number of the frame.
LEMMA FirstNumber ==
  ASSUME NEW x \in Number, NEW i \in Int
  PROVE  (((x + i) % NumSeq) - i) % NumSeq = x
<1>1. /\ x + i \in Int /\ -i \in Int /\ (x + i) + (-i) = x /\ NumSeq \in Nat \ {0}
      /\ (x + i) % NumSeq \in Int
  BY Constants, NumberMod DEF Number
<1>2. (((x + i) % NumSeq) + (-i)) % NumSeq = ((x + i) + (-i)) % NumSeq
  BY <1>1, SumMod
<1>3. x % NumSeq = x
  BY Constants, Remainder DEF Number
<1>4. ((x + i) % NumSeq) - i = ((x + i) % NumSeq) + (-i)
  BY <1>1
<1> QED BY <1>1, <1>2, <1>3, <1>4

\* What the steps of the sender and the coming of a packet leave as it was.
LEMMA ClientSame ==
  ASSUME TypeOK, Known, ClientInv,
         DOMAIN frames \subseteq DOMAIN frames', \A f \in DOMAIN frames : frames'[f] = frames[f],
         UNCHANGED <<use, playing>>, arrived \subseteq arrived',
         \A p, q \in hand' : p = q, hand' # {} => ~taking
  PROVE  ClientInv'
<1>1. /\ waiting' = waiting /\ taking' = taking /\ play' = play /\ shown' = shown
      /\ dropped' = dropped /\ use' = use
  BY DEF playing
<1>2. /\ \A w \in waiting : w.f \in DOMAIN frames
      /\ \A i \in DOMAIN shown : shown[i] \in DOMAIN frames
      /\ dropped \subseteq DOMAIN frames
  BY DEF Known
<1>3. /\ \A w \in waiting : frames'[w.f] = frames[w.f]
      /\ \A i \in DOMAIN shown : frames'[shown[i]] = frames[shown[i]]
      /\ \A f \in dropped : frames'[f] = frames[f]
  BY <1>2
<1>4. OneAtATime'
  <2>1. ASSUME NEW w \in waiting, First(w)'
        PROVE  First(w)
    BY <1>1, <1>3, <2>1 DEF First
  <2>2. ASSUME NEW w \in waiting, InTurn(w)'
        PROVE  InTurn(w)
    BY <1>1, <1>3, <2>2 DEF InTurn, Whole
  <2>3. ~taking => \A w \in waiting : frames[w.f].ts # 0 /\ (First(w) => ~InTurn(w) /\ ~w.late)
    BY DEF ClientInv, OneAtATime
  <2> QED BY <1>1, <1>3, <2>1, <2>2, <2>3 DEF OneAtATime
<1>5. Collected'
  BY <1>1, <1>3 DEF ClientInv, Collected
<1>6. Done'
  <2>1. \A f : HandedOver(f)' <=> HandedOver(f)
    BY <1>1 DEF HandedOver
  <2>2. \A f : HandedOver(f) \/ f \in dropped => f \in DOMAIN frames
    BY <1>2 DEF HandedOver
  <2>3. Done
    BY DEF ClientInv
  <2> QED BY <1>1, <1>3, <2>1, <2>2, <2>3 DEF Done
<1>7. InOrder'
  BY <1>1, <1>3 DEF ClientInv, InOrder
<1>8. OnlyWhole'
  <2>1. \A f \in DOMAIN frames : PacketsOf(f)' = PacketsOf(f)
    BY DEF PacketsOf
  <2> QED BY <1>1, <1>2, <2>1 DEF ClientInv, OnlyWhole
<1>9. Decodable'
  <2>1. DOMAIN shown = 1 .. Len(shown) /\ Len(shown) \in Nat
    BY DEF TypeOK
  <2>2. \A j \in DOMAIN shown : \A i \in 1 .. j : i \in DOMAIN shown
    BY <2>1
  <2> QED BY <1>1, <1>3, <2>2 DEF ClientInv, Decodable
<1> QED BY <1>4, <1>5, <1>6, <1>7, <1>8, <1>9 DEF ClientInv

\* Fields of what waits, and of what is shown.
LEMMA WaitingType ==
  ASSUME TypeOK, Known
  PROVE  /\ \A w \in waiting : /\ w.f \in DOMAIN frames /\ w.first \in Number
                               /\ w.filled \subseteq Nat /\ w.late \in BOOLEAN
         /\ play.ts \in Nat /\ play.wait \in Number \cup {None} /\ play.key \in BOOLEAN
         /\ DOMAIN shown = 1 .. Len(shown) /\ Len(shown) \in Nat
         /\ \A i \in DOMAIN shown : shown[i] \in DOMAIN frames
         /\ dropped \subseteq DOMAIN frames /\ None \notin Number
<1>1. \A w \in waiting : w \in [f : 1 .. MaxFrames, first : Number, filled : SUBSET Nat, late : BOOLEAN]
  BY DEF TypeOK
<1>2. \A w \in waiting : w.f \in DOMAIN frames
  BY DEF Known
<1>3. play \in [ts : Nat, wait : Number \cup {None}, key : BOOLEAN] /\ shown \in Seq(1 .. MaxFrames)
  BY DEF TypeOK
<1>4. None \notin Number
  BY DEF None, Number
<1> QED BY <1>1, <1>2, <1>3, <1>4 DEF Known

LEMMA CollectClient ==
  ASSUME IInv, Playable(use), ClientInv, Fresh, NEW p \in hand, Collect(p)
  PROVE  ClientInv'
<1>1. TypeOK /\ Known /\ InLine(frames, use) /\ Len(frames) <= use.frames
  BY DEF IInv, Known
<1>2. OneAtATime /\ Collected /\ Done /\ InOrder /\ OnlyWhole /\ Decodable
  BY DEF ClientInv
<1>3. p \in Sent /\ p \in arrived
  BY <1>1 DEF Known
<1>4. PICK f : f = p[1]
  OBVIOUS
<1>5. PICK ts : ts = frames[f].ts
  OBVIOUS
<1>6. PICK first : first = (SeqNo(p) - p[2]) % NumSeq
  OBVIOUS
<1>7. /\ f \in DOMAIN frames /\ p = <<f, p[2]>> /\ p[2] \in 0 .. frames[f].n - 1 /\ p[2] \in Nat
      /\ SeqNo(p) \in Number /\ ts \in Nat /\ frames[f].first \in Number
  <2>1. f \in DOMAIN frames /\ p = <<f, p[2]>> /\ p[2] \in 0 .. frames[f].n - 1 /\ SeqNo(p) \in Number
    BY <1>1, <1>3, <1>4, SentType
  <2>2. frames[f].n \in Nat /\ frames[f].ts \in Nat /\ frames[f].first \in Number
    BY <1>1, <2>1, FrameType
  <2> QED BY <1>5, <2>1, <2>2
<1>8. first \in Number /\ (ts # 0 => first = frames[f].first)
  <2>1. first \in Number
    BY <1>6, <1>7, NumberMod DEF Number
  <2>2. ASSUME ts # 0 PROVE first = frames[f].first
    <3>1. SeqNo(p) = (frames[f].first + p[2]) % NumSeq
      BY <1>4, <1>5, <2>2 DEF SeqNo
    <3>2. (((frames[f].first + p[2]) % NumSeq) - p[2]) % NumSeq = frames[f].first
      BY <1>7, FirstNumber
    <3> QED BY <1>6, <3>1, <3>2
  <2> QED BY <2>1, <2>2
<1>9. ts = 0 => p[2] = 0
  <2>1. ts = 0 => frames[f].n = 1
    BY <1>1, <1>5, <1>7, PlayableFrame
  <2> QED BY <1>7, <2>1
<1>10. ts # 0 => ts > 1
  BY <1>1, <1>5, <1>7, PlayableFrame
<1>11. hand' = {} /\ ~taking
  <2>1. hand' = hand \ {p}
    BY DEF Collect
  <2> QED BY <1>2, <2>1 DEF OneAtATime
<1>12. /\ taking' = TRUE
       /\ UNCHANGED <<sender, network, expect, lost2, shown, dropped, kept, arrived, relayed>>
  BY DEF Collect
<1>13. PICK mine : mine = {w \in waiting : frames[w.f].ts = ts}
  OBVIOUS
<1>14. PICK new : new = [f |-> f, first |-> first, filled |-> {p[2]}, late |-> ts = 0]
  OBVIOUS
<1>15. \/ ts < play.ts /\ ts > 0 /\ play.ts - ts < Stale /\ UNCHANGED <<waiting, play>>
       \/ /\ ~ (ts < play.ts /\ ts > 0 /\ play.ts - ts < Stale)
          /\ waiting' = IF mine = {} THEN waiting \cup {new}
                        ELSE {IF w \in mine THEN [w EXCEPT !.filled = @ \cup {p[2]}] ELSE w : w \in waiting}
          /\ play' = IF ts > 0 /\ play.ts = 0 THEN [play EXCEPT !.ts = ts - 1, !.wait = first] ELSE play
  BY <1>4, <1>5, <1>6, <1>13, <1>14 DEF Collect
<1>16. play.ts \in Nat /\ play \in [ts : Nat, wait : Number \cup {None}, key : BOOLEAN]
  BY <1>1 DEF TypeOK
<1>17. ts # 0 => play.ts - ts < Stale
  BY <1>4, <1>5 DEF Fresh, Timed
<1>18. /\ frames' = frames /\ use' = use /\ arrived' = arrived /\ shown' = shown /\ dropped' = dropped
  BY <1>12 DEF sender
<1>19. \A w \in waiting : frames[w.f].ts # 0
  BY <1>2, <1>11 DEF OneAtATime
<1>20. OneAtATime'
  BY <1>11, <1>12 DEF OneAtATime
<1>21. InOrder' /\ Decodable'
  BY <1>2, <1>18 DEF InOrder, Decodable
<1>22. OnlyWhole'
  BY <1>2, <1>18 DEF OnlyWhole, PacketsOf
<1>23. CASE UNCHANGED <<waiting, play>>
  <2>1. Collected'
    BY <1>2, <1>18, <1>23 DEF Collected
  <2>2. Done'
    BY <1>2, <1>18, <1>23 DEF Done, HandedOver
  <2> QED BY <1>20, <1>21, <1>22, <2>1, <2>2 DEF ClientInv
<1>24. CASE /\ ts # 0 => ts >= play.ts
            /\ waiting' = IF mine = {} THEN waiting \cup {new}
                          ELSE {IF w \in mine THEN [w EXCEPT !.filled = @ \cup {p[2]}] ELSE w : w \in waiting}
            /\ play' = IF ts > 0 /\ play.ts = 0 THEN [play EXCEPT !.ts = ts - 1, !.wait = first] ELSE play
  <2>1. /\ play.ts = 0 /\ ts > 0 => play'.ts = ts - 1 /\ play'.wait = first /\ play'.key = play.key
        /\ play.ts # 0 \/ ts = 0 => play' = play
    BY <1>7, <1>16, <1>24
  <2>2. \A w \in waiting : /\ play.ts > 0 /\ frames[w.f].ts >= play.ts
                           /\ w.first = frames[w.f].first
                           /\ \A i \in w.filled : <<w.f, i>> \in arrived
    BY <1>2, <1>19 DEF Collected
  <2>3. ts # 0 => play'.ts > 0 /\ ts >= play'.ts
    BY <1>7, <1>10, <1>16, <1>24, <2>1
  <2>4. \A w \in waiting : play' = play
    BY <1>16, <2>1, <2>2
  <2>5. Done'
    <3>1. CASE play' = play
      BY <1>2, <1>18, <3>1 DEF Done, HandedOver
    <3>2. CASE play' # play
      <4>1. play.ts = 0 /\ ts > 0
        BY <1>7, <1>16, <2>1, <3>2
      <4>2. play'.wait # None /\ play'.key = play.key
        BY <1>8, <2>1, <4>1 DEF None, Number
      <4>3. \A g \in DOMAIN frames : ~ ((g \in dropped \/ HandedOver(g)) /\ frames[g].ts # 0)
        <5>1. SUFFICES ASSUME NEW g \in DOMAIN frames, g \in dropped \/ HandedOver(g), frames[g].ts # 0
                       PROVE  FALSE
          OBVIOUS
        <5>2. frames[g].ts <= play.ts
          BY <1>2, <5>1 DEF Done
        <5>3. frames[g].ts \in Nat
          BY <1>1, FrameType
        <5> QED BY <4>1, <5>1, <5>2, <5>3
      <4>4. \A g : HandedOver(g)' <=> HandedOver(g)
        BY <1>18 DEF HandedOver
      <4> QED BY <1>2, <1>18, <4>2, <4>3, <4>4 DEF Done
    <3> QED BY <3>1, <3>2
  <2>6. Collected'
    <3>1. CASE mine = {}
      <4>1. waiting' = waiting \cup {new}
        BY <1>24, <3>1
      <4>2. new.f = f /\ new.first = first /\ new.filled = {p[2]}
        BY <1>14
      <4>3. /\ \A i \in new.filled : <<new.f, i>> \in arrived
            /\ frames[new.f].ts = 0 => new.filled = {0}
            /\ frames[new.f].ts # 0 => /\ new.first = frames[new.f].first
                                       /\ play'.ts > 0 /\ frames[new.f].ts >= play'.ts
        BY <1>3, <1>5, <1>7, <1>8, <1>9, <2>3, <4>2
      <4>4. \A w \in waiting : /\ frames[w.f].ts # frames[new.f].ts
                               /\ play'.ts > 0 /\ frames[w.f].ts >= play'.ts
        BY <1>5, <1>13, <2>2, <2>4, <3>1, <4>2
      <4>5. \A v, w \in waiting : frames[v.f].ts = frames[w.f].ts => v = w
        BY <1>2 DEF Collected
      <4>6. \A v, w \in waiting' : frames[v.f].ts = frames[w.f].ts => v = w
        BY <4>1, <4>4, <4>5
      <4>7. \A w \in waiting' : /\ \A i \in w.filled : <<w.f, i>> \in arrived
                                /\ frames[w.f].ts = 0 => w.filled = {0}
                                /\ frames[w.f].ts # 0 => /\ w.first = frames[w.f].first
                                                         /\ play'.ts > 0 /\ frames[w.f].ts >= play'.ts
        BY <1>19, <2>2, <4>1, <4>3, <4>4
      <4> QED BY <1>18, <4>6, <4>7 DEF Collected
    <3>2. CASE mine # {}
      <4> DEFINE g(w) == IF w \in mine THEN [w EXCEPT !.filled = @ \cup {p[2]}] ELSE w
      <4>1. waiting' = {g(w) : w \in waiting}
        BY <1>24, <3>2
      <4>2. \A w \in waiting : /\ g(w).f = w.f /\ g(w).first = w.first
                               /\ g(w).filled \subseteq w.filled \cup {p[2]}
                               /\ w \notin mine => g(w) = w
        <5>1. \A w \in waiting : w \in [f : 1 .. MaxFrames, first : Number, filled : SUBSET Nat, late : BOOLEAN]
          BY <1>1 DEF TypeOK
        <5> QED BY <5>1
      <4> HIDE DEF g
      <4>3. \A w \in mine : w.f = f
        <5>1. SUFFICES ASSUME NEW w \in mine
                       PROVE  w.f = f
          OBVIOUS
        <5>2. w \in waiting /\ frames[w.f].ts = ts /\ frames[w.f].ts # 0 /\ w.f \in DOMAIN frames
          BY <1>1, <1>13, <1>19 DEF Known
        <5> QED BY <1>1, <1>5, <1>7, <5>2, TimeIsOnes
      <4>4. ASSUME NEW w \in waiting
            PROVE  /\ \A i \in g(w).filled : <<g(w).f, i>> \in arrived
                   /\ frames[g(w).f].ts # 0
                   /\ g(w).first = frames[g(w).f].first
                   /\ play'.ts > 0 /\ frames[g(w).f].ts >= play'.ts
        <5>1. \A i \in g(w).filled : <<g(w).f, i>> \in arrived
          BY <1>3, <1>7, <2>2, <4>2, <4>3
        <5> QED BY <1>19, <2>2, <2>4, <4>2, <5>1
      <4>5. \A v, w \in waiting : frames[v.f].ts = frames[w.f].ts => v = w
        BY <1>2 DEF Collected
      <4>6. \A v, w \in waiting' : frames[v.f].ts = frames[w.f].ts => v = w
        BY <4>1, <4>2, <4>5
      <4>7. \A w \in waiting' : /\ \A i \in w.filled : <<w.f, i>> \in arrived
                                /\ frames[w.f].ts # 0
                                /\ w.first = frames[w.f].first
                                /\ play'.ts > 0 /\ frames[w.f].ts >= play'.ts
        BY <4>1, <4>4
      <4> QED BY <1>18, <4>6, <4>7 DEF Collected
    <3> QED BY <3>1, <3>2
  <2> QED BY <1>20, <1>21, <1>22, <2>5, <2>6 DEF ClientInv
<1>25. ~ (ts < play.ts /\ ts > 0 /\ play.ts - ts < Stale) => (ts # 0 => ts >= play.ts)
  BY <1>7, <1>16, <1>17
<1> QED BY <1>15, <1>23, <1>24, <1>25

LEMMA ExpireClient ==
  ASSUME IInv, ClientInv, NEW w \in waiting, Expire(w)
  PROVE  ClientInv'
<1>1. TypeOK /\ Known /\ InLine(frames, use)
  BY DEF IInv
<1>2. OneAtATime /\ Collected /\ Done /\ InOrder /\ OnlyWhole /\ Decodable
  BY DEF ClientInv
<1>3. PICK x : x = [w EXCEPT !.late = TRUE]
  OBVIOUS
<1>4. /\ taking /\ waiting' = (waiting \ {w}) \cup {x}
      /\ UNCHANGED <<use, frames, hand, taking, play, shown, dropped, arrived>>
  BY <1>3 DEF Expire, sender
<1>5. x.f = w.f /\ x.first = w.first /\ x.filled = w.filled
  BY <1>1, <1>3 DEF TypeOK
<1>6. OneAtATime'
  BY <1>2, <1>4 DEF OneAtATime
<1>7. Collected'
  <2>1. \A v, y \in waiting : frames[v.f].ts = frames[y.f].ts => v = y
    BY <1>2 DEF Collected
  <2>2. \A v, y \in waiting' : frames[v.f].ts = frames[y.f].ts => v = y
    BY <1>4, <1>5, <2>1
  <2>3. \A v \in waiting :
          /\ \A i \in v.filled : <<v.f, i>> \in arrived
          /\ frames[v.f].ts = 0 => v.filled = {0}
          /\ frames[v.f].ts # 0 => /\ v.first = frames[v.f].first
                                   /\ play.ts > 0 /\ frames[v.f].ts >= play.ts
    BY <1>2 DEF Collected
  <2>4. \A v \in waiting' :
          /\ \A i \in v.filled : <<v.f, i>> \in arrived
          /\ frames[v.f].ts = 0 => v.filled = {0}
          /\ frames[v.f].ts # 0 => /\ v.first = frames[v.f].first
                                   /\ play.ts > 0 /\ frames[v.f].ts >= play.ts
    BY <1>4, <1>5, <2>3
  <2> QED BY <1>4, <2>2, <2>4 DEF Collected
<1>8. Done'
  BY <1>2, <1>4 DEF Done, HandedOver
<1>9. InOrder' /\ Decodable'
  BY <1>2, <1>4 DEF InOrder, Decodable
<1>10. OnlyWhole'
  BY <1>2, <1>4 DEF OnlyWhole, PacketsOf
<1> QED BY <1>6, <1>7, <1>8, <1>9, <1>10 DEF ClientInv

LEMMA NothingClient ==
  ASSUME IInv, Playable(use), ClientInv, TakeNothing
  PROVE  ClientInv'
<1>1. TypeOK /\ Known /\ InLine(frames, use)
  BY DEF IInv
<1>2. OneAtATime /\ Collected /\ Done /\ InOrder /\ OnlyWhole /\ Decodable
  BY DEF ClientInv
<1>3. /\ taking /\ \A w \in waiting : First(w) => ~Untimed(w) /\ ~InTurn(w) /\ ~w.late
      /\ UNCHANGED <<use, frames, hand, waiting, play, shown, dropped, arrived>>
  BY DEF TakeNothing, sender
<1>4. hand = {}
  BY <1>2, <1>3 DEF OneAtATime
<1>5. ASSUME NEW w \in waiting
      PROVE  frames[w.f].ts # 0
  <2>1. SUFFICES ASSUME frames[w.f].ts = 0
                 PROVE  FALSE
    OBVIOUS
  <2>2. w.f \in DOMAIN frames /\ \A v \in waiting : frames[v.f].ts \in Nat
    BY <1>1, FrameType DEF Known
  <2>3. First(w)
    BY <2>1, <2>2 DEF First
  <2>4. w.filled = {0} /\ frames[w.f].n = 1
    BY <1>1, <1>2, <2>1, <2>2, PlayableFrame DEF Collected
  <2>5. 0 .. 1 - 1 = {0}
    OBVIOUS
  <2>6. Untimed(w)
    BY <2>1, <2>4, <2>5 DEF Untimed, Whole
  <2> QED BY <1>3, <2>3, <2>6
<1>6. OneAtATime'
  <2>1. \A w \in waiting : (First(w)' <=> First(w)) /\ (InTurn(w)' <=> InTurn(w))
    BY <1>3 DEF First, InTurn, Whole
  <2> QED BY <1>3, <1>4, <1>5, <2>1 DEF OneAtATime
<1>7. Collected'
  BY <1>2, <1>3 DEF Collected
<1>8. Done'
  BY <1>2, <1>3 DEF Done, HandedOver
<1>9. InOrder' /\ Decodable'
  BY <1>2, <1>3 DEF InOrder, Decodable
<1>10. OnlyWhole'
  BY <1>2, <1>3 DEF OnlyWhole, PacketsOf
<1> QED BY <1>6, <1>7, <1>8, <1>9, <1>10 DEF ClientInv

\* What TakeUntimed, TakeInTurn and TakeExpired have in common, and what
\* becomes of the frame: shown or given up.
Shows(w)  == shown' = Append(shown, w.f) /\ dropped' = dropped
GivesUp(w) == shown' = shown /\ dropped' = dropped \cup {w.f}

\* A timed frame that is handed over is whole and, while a key frame is
\* awaited, not a delta frame; after a frame was given up one is awaited,
\* and a key frame ends the wait.
LEMMA TakesTimed ==
  ASSUME TypeOK, Known, NEW w \in waiting, TakeInTurn(w) \/ TakeExpired(w)
  PROVE  /\ ~Untimed(w)
         /\ play'.ts = frames[w.f].ts /\ play'.wait = (w.first + frames[w.f].n) % NumSeq
         /\ Shows(w) \/ GivesUp(w)
         /\ Shows(w) => Whole(w) /\ (frames[w.f].kind = "delta" => ~play.key)
         /\ TakeInTurn(w) => InTurn(w)
         /\ ~play'.key => \/ ~play.key /\ Shows(w)
                          \/ frames[w.f].kind = "key" /\ Shows(w) /\ TakeInTurn(w)
                          \/ frames[w.f].kind \notin {"key", "delta"} /\ TakeExpired(w)
         /\ TakeInTurn(w) /\ ~play.key => Shows(w) /\ ~play'.key
<1>0. play \in [ts : Nat, wait : Number \cup {None}, key : BOOLEAN] /\ w.f \in DOMAIN frames
  BY DEF TypeOK, Known
<1>1. Append(shown, w.f) # shown
  <2>1. shown \in Seq(1 .. MaxFrames) /\ w.f \in 1 .. MaxFrames
    BY DEF TypeOK
  <2>2. Len(Append(shown, w.f)) = Len(shown) + 1 /\ Len(shown) \in Nat
    BY <2>1
  <2> QED BY <2>2
<1>2. CASE TakeInTurn(w)
  <2> DEFINE key == play.key /\ frames[w.f].kind # "key"
  <2>1. /\ Take(w) /\ ~Untimed(w) /\ InTurn(w) /\ play' = [After(w) EXCEPT !.key = key]
        /\ IF key /\ frames[w.f].kind = "delta"
           THEN dropped' = dropped \cup {w.f} /\ UNCHANGED shown
           ELSE shown' = Append(shown, w.f) /\ UNCHANGED dropped
    BY <1>2 DEF TakeInTurn
  <2>2. key \in BOOLEAN /\ play.key \in BOOLEAN
    BY <1>0
  <2>3. key <=> play.key /\ frames[w.f].kind # "key"
    OBVIOUS
  <2> HIDE DEF key
  <2>4. /\ play'.ts = frames[w.f].ts /\ play'.wait = (w.first + frames[w.f].n) % NumSeq
        /\ play'.key = key
    BY <2>1, <2>2, AfterType
  <2>5. Whole(w)
    BY <2>1 DEF InTurn
  <2>6. IF key /\ frames[w.f].kind = "delta" THEN GivesUp(w) ELSE Shows(w)
    BY <2>1 DEF GivesUp, Shows
  <2>7. Shows(w) => ~GivesUp(w)
    BY <1>1 DEF Shows, GivesUp
  <2>8. /\ Shows(w) \/ GivesUp(w)
        /\ Shows(w) => (frames[w.f].kind = "delta" => ~play.key)
        /\ ~key => \/ ~play.key /\ Shows(w)
                   \/ frames[w.f].kind = "key" /\ Shows(w)
        /\ ~play.key => Shows(w) /\ ~key
    BY <2>2, <2>3, <2>6, <2>7
  <2> QED BY <1>2, <2>1, <2>4, <2>5, <2>8
<1>3. CASE TakeExpired(w)
  <2> DEFINE key == frames[w.f].kind \in {"key", "delta"}
  <2>1. /\ Take(w) /\ ~Untimed(w) /\ ~InTurn(w)
        /\ IF ~play.key /\ Whole(w)
           THEN play' = After(w) /\ Shows(w)
           ELSE play' = [After(w) EXCEPT !.key = key] /\ GivesUp(w)
    BY <1>3 DEF TakeExpired, Shows, GivesUp
  <2>2. key \in BOOLEAN
    OBVIOUS
  <2> HIDE DEF key
  <2>3. /\ play'.ts = frames[w.f].ts /\ play'.wait = (w.first + frames[w.f].n) % NumSeq
        /\ play'.key = IF ~play.key /\ Whole(w) THEN play.key ELSE key
    BY <2>1, <2>2, AfterType
  <2>4. Shows(w) => ~GivesUp(w)
    BY <1>1 DEF Shows, GivesUp
  <2>5. ~TakeInTurn(w)
    BY <2>1 DEF TakeInTurn
  <2> QED BY <1>3, <2>1, <2>3, <2>4, <2>5 DEF key
<1> QED BY <1>2, <1>3

\* A frame that is shown comes after those shown before.
LEMMA ShowsOne ==
  ASSUME TypeOK, NEW w, shown' = Append(shown, w.f), w.f \in DOMAIN frames
  PROVE  /\ DOMAIN shown' = 1 .. Len(shown) + 1 /\ shown'[Len(shown) + 1] = w.f
         /\ \A i \in 1 .. Len(shown) : shown'[i] = shown[i]
         /\ \A f : HandedOver(f)' <=> HandedOver(f) \/ f = w.f
<1>1. shown \in Seq(1 .. MaxFrames) /\ DOMAIN shown = 1 .. Len(shown) /\ Len(shown) \in Nat
  BY DEF TypeOK
<1>2. /\ DOMAIN shown' = 1 .. Len(shown) + 1 /\ shown'[Len(shown) + 1] = w.f
      /\ \A i \in 1 .. Len(shown) : shown'[i] = shown[i]
  BY <1>1
<1>3. \A f : (\E i \in 1 .. Len(shown) + 1 : shown'[i] = f) <=> (\E i \in 1 .. Len(shown) : shown[i] = f) \/ f = w.f
  BY <1>1, <1>2
<1> QED BY <1>1, <1>2, <1>3 DEF HandedOver

LEMMA TakeUntimedClient ==
  ASSUME IInv, ClientInv, NEW w \in waiting, TakeUntimed(w)
  PROVE  ClientInv'
<1>1. TypeOK /\ Known /\ InLine(frames, use)
  BY DEF IInv
<1>2. OneAtATime /\ Collected /\ Done /\ InOrder /\ OnlyWhole /\ Decodable
  BY DEF ClientInv
<1>3. /\ taking /\ waiting' = waiting \ {w} /\ Untimed(w)
      /\ shown' = Append(shown, w.f)
      /\ UNCHANGED <<use, frames, hand, taking, play, dropped, arrived>>
  BY DEF TakeUntimed, Take, sender
<1>4. /\ w.f \in DOMAIN frames /\ DOMAIN shown = 1 .. Len(shown) /\ Len(shown) \in Nat
      /\ \A i \in DOMAIN shown : shown[i] \in DOMAIN frames
  BY <1>1, WaitingType
<1>5. frames[w.f].ts = 0 /\ Whole(w)
  BY <1>3 DEF Untimed
<1>6. /\ DOMAIN shown' = 1 .. Len(shown) + 1 /\ shown'[Len(shown) + 1] = w.f
      /\ \A i \in 1 .. Len(shown) : shown'[i] = shown[i]
      /\ \A f : HandedOver(f)' <=> HandedOver(f) \/ f = w.f
  BY <1>1, <1>3, <1>4, ShowsOne
<1>7. \A f : HandedOver(f)' <=> HandedOver(f) \/ f = w.f
  BY <1>6
<1>8. OneAtATime'
  BY <1>2, <1>3 DEF OneAtATime
<1>9. Collected'
  BY <1>2, <1>3 DEF Collected
<1>10. Done'
  <2>1. \A f \in DOMAIN frames : frames[f].ts # 0 => (HandedOver(f)' <=> HandedOver(f))
    BY <1>5, <1>7
  <2>3. \A f : (\E i \in DOMAIN shown : frames[shown[i]].kind = "key" /\ shown[i] > f)
             => (\E i \in DOMAIN shown' : frames[shown'[i]].kind = "key" /\ shown'[i] > f)
    BY <1>4, <1>6
  <2> QED BY <1>2, <1>3, <2>1, <2>3 DEF Done
<1>11. InOrder'
  <2>1. \A i, j \in DOMAIN shown : i < j /\ frames[shown[j]].ts # 0 => frames[shown[i]].ts <= frames[shown[j]].ts
    BY <1>2 DEF InOrder
  <2>2. \A i, j \in DOMAIN shown' : i < j /\ frames[shown'[j]].ts # 0 => frames[shown'[i]].ts <= frames[shown'[j]].ts
    BY <1>4, <1>5, <1>6, <2>1
  <2> QED BY <1>3, <2>2 DEF InOrder
<1>12. OnlyWhole'
  <2>1. PacketsOf(w.f) \subseteq arrived
    <3>1. \A i \in 0 .. frames[w.f].n - 1 : <<w.f, i>> \in arrived
      BY <1>2, <1>5 DEF Collected, Whole
    <3> QED BY <3>1 DEF PacketsOf
  <2>2. \A i \in DOMAIN shown : PacketsOf(shown[i]) \subseteq arrived
    BY <1>2 DEF OnlyWhole
  <2>3. \A i \in DOMAIN shown' : PacketsOf(shown'[i]) \subseteq arrived
    BY <1>4, <1>6, <2>1, <2>2
  <2>4. \A f : PacketsOf(f)' = PacketsOf(f)
    BY <1>3 DEF PacketsOf
  <2> QED BY <1>3, <2>3, <2>4 DEF OnlyWhole
<1>13. Decodable'
  <2>1. frames[w.f].kind # "delta"
    BY <1>1, <1>4, <1>5 DEF InLine, Described
  <2>2. \A j \in DOMAIN shown : frames[shown[j]].kind = "delta" =>
          \A f \in dropped : f < shown[j] =>
            \E i \in 1 .. j : frames[shown[i]].kind = "key" /\ shown[i] > f
    BY <1>2 DEF Decodable
  <2>3. SUFFICES ASSUME NEW j \in DOMAIN shown', frames[shown'[j]].kind = "delta",
                        NEW f \in dropped, f < shown'[j]
                 PROVE  \E i \in 1 .. j : frames[shown'[i]].kind = "key" /\ shown'[i] > f
    BY <1>3 DEF Decodable
  <2>4. j \in 1 .. Len(shown) /\ shown'[j] = shown[j]
    BY <1>4, <1>6, <2>1, <2>3
  <2>5. PICK i \in 1 .. j : frames[shown[i]].kind = "key" /\ shown[i] > f
    BY <1>4, <2>2, <2>3, <2>4
  <2>6. i \in 1 .. Len(shown)
    BY <1>4, <2>4
  <2> QED BY <1>6, <2>5, <2>6
<1> QED BY <1>8, <1>9, <1>10, <1>11, <1>12, <1>13 DEF ClientInv

LEMMA TakeTimedClient ==
  ASSUME IInv, Playable(use), ClientInv, NEW w \in waiting, TakeInTurn(w) \/ TakeExpired(w)
  PROVE  ClientInv'
<1>1. TypeOK /\ Known /\ InLine(frames, use)
  BY DEF IInv
<1>2. OneAtATime /\ Collected /\ Done /\ InOrder /\ OnlyWhole /\ Decodable
  BY DEF ClientInv
<1>3. /\ taking /\ First(w) /\ waiting' = waiting \ {w}
      /\ UNCHANGED <<use, frames, hand, taking, arrived>>
  BY DEF TakeInTurn, TakeExpired, Take, sender
<1>4. /\ ~Untimed(w)
      /\ play'.ts = frames[w.f].ts /\ play'.wait = (w.first + frames[w.f].n) % NumSeq
      /\ Shows(w) \/ GivesUp(w)
      /\ Shows(w) => Whole(w) /\ (frames[w.f].kind = "delta" => ~play.key)
      /\ TakeInTurn(w) => InTurn(w)
      /\ ~play'.key => \/ ~play.key /\ Shows(w)
                       \/ frames[w.f].kind = "key" /\ Shows(w) /\ TakeInTurn(w)
                       \/ frames[w.f].kind \notin {"key", "delta"} /\ TakeExpired(w)
  BY <1>1, TakesTimed
<1>5. /\ w.f \in DOMAIN frames /\ w.first \in Number /\ w.f \in Nat
      /\ frames[w.f].ts \in Nat /\ frames[w.f].n \in Nat
      /\ play.ts \in Nat /\ DOMAIN shown = 1 .. Len(shown) /\ Len(shown) \in Nat
      /\ \A i \in DOMAIN shown : shown[i] \in DOMAIN frames
      /\ dropped \subseteq DOMAIN frames
      /\ \A f \in DOMAIN frames : f \in Nat /\ frames[f].ts \in Nat
  BY <1>1, WaitingType, FrameType
<1>6. frames[w.f].ts # 0
  <2>1. SUFFICES ASSUME frames[w.f].ts = 0
                 PROVE  FALSE
    OBVIOUS
  <2>2. w.filled = {0} /\ frames[w.f].n = 1
    BY <1>1, <1>2, <1>5, <2>1, PlayableFrame DEF Collected
  <2>3. 0 .. 1 - 1 = {0}
    OBVIOUS
  <2> QED BY <1>4, <2>1, <2>2, <2>3 DEF Untimed, Whole
<1>7. w.first = frames[w.f].first /\ play.ts > 0 /\ frames[w.f].ts >= play.ts
  BY <1>2, <1>6 DEF Collected
<1>8. /\ frames[w.f].n \in 1 .. NumSeq - 1 /\ frames[w.f].kind \in {"key", "delta", "audio"}
      /\ frames[w.f].kind \in use.kinds
  BY <1>1, <1>5, <1>6, PlayableFrame
<1>9. play'.ts > 0 /\ play'.wait # None
  <2>1. w.first + frames[w.f].n \in Int
    BY <1>5 DEF Number
  <2>2. (w.first + frames[w.f].n) % NumSeq \in Number
    BY <2>1, NumberMod
  <2> QED BY <1>4, <1>5, <1>6, <2>2 DEF None, Number
<1>10. /\ Shows(w) => \A f : HandedOver(f)' <=> HandedOver(f) \/ f = w.f
       /\ GivesUp(w) => \A f : HandedOver(f)' <=> HandedOver(f)
  BY <1>1, <1>5, ShowsOne DEF Shows, GivesUp, HandedOver
<1>11. \A f \in DOMAIN frames : (f \in dropped \/ HandedOver(f)) /\ frames[f].ts # 0 =>
         /\ frames[f].ts <= play.ts /\ frames[f].ts <= frames[w.f].ts
         /\ frames[f].ts = frames[w.f].ts => f = w.f
  <2>1. SUFFICES ASSUME NEW f \in DOMAIN frames, f \in dropped \/ HandedOver(f), frames[f].ts # 0
                 PROVE  /\ frames[f].ts <= play.ts /\ frames[f].ts <= frames[w.f].ts
                        /\ frames[f].ts = frames[w.f].ts => f = w.f
    OBVIOUS
  <2>2. frames[f].ts <= play.ts
    BY <1>2, <2>1 DEF Done
  <2>3. frames[f].ts = frames[w.f].ts => f = w.f
    BY <1>1, <1>5, <2>1, TimeIsOnes
  <2> QED BY <1>5, <1>7, <2>2, <2>3
<1>12. \A f \in dropped : frames[f].ts # 0
  BY <1>2 DEF Done
<1>13. OneAtATime'
  BY <1>2, <1>3 DEF OneAtATime
<1>14. Collected'
  <2>1. \A v \in waiting' : frames[v.f].ts >= frames[w.f].ts
    BY <1>3, <1>5, WaitingType, <1>1 DEF First
  <2>2. \A v \in waiting' :
          /\ \A i \in v.filled : <<v.f, i>> \in arrived
          /\ frames[v.f].ts = 0 => v.filled = {0}
          /\ frames[v.f].ts # 0 => v.first = frames[v.f].first
    BY <1>2, <1>3 DEF Collected
  <2>3. \A v, y \in waiting' : frames[v.f].ts = frames[y.f].ts => v = y
    BY <1>2, <1>3 DEF Collected
  <2> QED BY <1>3, <1>4, <1>9, <2>1, <2>2, <2>3 DEF Collected
<1>15. Done'
  <2>1. \A f \in dropped' : frames[f].ts # 0
    BY <1>4, <1>6, <1>12 DEF Shows, GivesUp
  <2>2. \A f \in DOMAIN frames : (f \in dropped' \/ HandedOver(f)') /\ frames[f].ts # 0 =>
          /\ frames[f].ts <= play'.ts
          /\ frames[f].ts = play'.ts => play'.wait = (frames[f].first + frames[f].n) % NumSeq
    <3>1. SUFFICES ASSUME NEW f \in DOMAIN frames, f \in dropped' \/ HandedOver(f)', frames[f].ts # 0
                   PROVE  /\ frames[f].ts <= play'.ts
                          /\ frames[f].ts = play'.ts => play'.wait = (frames[f].first + frames[f].n) % NumSeq
      OBVIOUS
    <3>2. f \in dropped \/ HandedOver(f) \/ f = w.f
      BY <1>4, <1>10, <3>1 DEF Shows, GivesUp
    <3>3. frames[f].ts <= frames[w.f].ts /\ (frames[f].ts = frames[w.f].ts => f = w.f)
      BY <1>5, <1>11, <3>1, <3>2
    <3> QED BY <1>4, <1>7, <3>3
  <2>3. ASSUME "audio" \notin use.kinds, ~play'.key, NEW f \in dropped'
        PROVE  \E i \in DOMAIN shown' : frames[shown'[i]].kind = "key" /\ shown'[i] > f
    <3>1. Shows(w) /\ f \in dropped /\ (~play.key \/ (frames[w.f].kind = "key" /\ TakeInTurn(w)))
      BY <1>4, <1>8, <2>3 DEF Shows, GivesUp
    <3>2. /\ DOMAIN shown' = 1 .. Len(shown) + 1 /\ shown'[Len(shown) + 1] = w.f
          /\ \A i \in 1 .. Len(shown) : shown'[i] = shown[i]
      BY <1>1, <1>5, <3>1, ShowsOne DEF Shows
    <3>3. CASE ~play.key
      <4>1. PICK i \in DOMAIN shown : frames[shown[i]].kind = "key" /\ shown[i] > f
        BY <1>2, <2>3, <3>1, <3>3 DEF Done
      <4> QED BY <1>5, <3>2, <4>1
    <3>4. CASE frames[w.f].kind = "key" /\ TakeInTurn(w)
      <4>1. f \in DOMAIN frames /\ frames[f].ts # 0 /\ frames[f].ts \in Nat
        BY <1>5, <1>12, <3>1
      <4>2. frames[f].ts # frames[w.f].ts
        <5>1. SUFFICES ASSUME frames[f].ts = frames[w.f].ts
                       PROVE  FALSE
          OBVIOUS
        <5>2. f = w.f /\ frames[f].ts = play.ts
          BY <1>5, <1>7, <1>11, <3>1, <4>1, <5>1
        <5>3. play.wait = (w.first + frames[w.f].n) % NumSeq /\ play.wait # None
          BY <1>2, <1>7, <3>1, <4>1, <5>2 DEF Done
        <5>4. play.wait = w.first
          BY <1>4, <3>4, <5>3 DEF InTurn
        <5>5. (w.first + frames[w.f].n) % NumSeq # w.first
          BY <1>5, <1>8, EndsElsewhere
        <5> QED BY <5>3, <5>4, <5>5
      <4>3. frames[f].ts < frames[w.f].ts
        BY <1>5, <1>11, <3>1, <4>1, <4>2
      <4>4. f < w.f
        BY <1>1, <1>5, <1>6, <4>1, <4>3, TimeIsOnes
      <4>5. w.f > f
        BY <1>5, <4>1, <4>4
      <4> QED BY <1>5, <3>2, <3>4, <4>5
    <3> QED BY <3>1, <3>3, <3>4
  <2> QED BY <1>3, <1>9, <2>1, <2>2, <2>3 DEF Done
<1>16. CASE GivesUp(w)
  <2>1. InOrder'
    BY <1>2, <1>3, <1>16 DEF InOrder, GivesUp
  <2>2. OnlyWhole'
    BY <1>2, <1>3, <1>16 DEF OnlyWhole, GivesUp, PacketsOf
  <2>3. Decodable'
    <3>1. SUFFICES ASSUME NEW j \in DOMAIN shown, frames[shown[j]].kind = "delta",
                          NEW f \in dropped', f < shown[j]
                   PROVE  \E i \in 1 .. j : frames[shown[i]].kind = "key" /\ shown[i] > f
      BY <1>3, <1>16 DEF Decodable, GivesUp
    <3>2. CASE f \in dropped
      BY <1>2, <3>1, <3>2 DEF Decodable
    <3>3. CASE f = w.f
      <4>1. shown[j] \in DOMAIN frames /\ HandedOver(shown[j])
        BY <1>5 DEF HandedOver
      <4>2. frames[shown[j]].ts # 0
        BY <1>1, <3>1, <4>1, PlayableFrame
      <4>3. frames[shown[j]].ts <= frames[w.f].ts
        BY <1>11, <4>1, <4>2
      <4>4. frames[w.f].ts < frames[shown[j]].ts
        BY <1>1, <1>5, <1>6, <3>1, <3>3, <4>1, <4>2, TimeIsOnes
      <4> QED BY <1>5, <4>1, <4>3, <4>4
    <3> QED BY <1>16, <3>2, <3>3 DEF GivesUp
  <2> QED BY <1>13, <1>14, <1>15, <2>1, <2>2, <2>3 DEF ClientInv
<1>17. CASE Shows(w)
  <2>1. /\ DOMAIN shown' = 1 .. Len(shown) + 1 /\ shown'[Len(shown) + 1] = w.f
        /\ \A i \in 1 .. Len(shown) : shown'[i] = shown[i]
    BY <1>1, <1>5, <1>17, ShowsOne DEF Shows
  <2>2. InOrder'
    <3>1. \A i \in 1 .. Len(shown) : frames[shown[i]].ts <= frames[w.f].ts
      <4>1. SUFFICES ASSUME NEW i \in 1 .. Len(shown)
                     PROVE  frames[shown[i]].ts <= frames[w.f].ts
        OBVIOUS
      <4>2. shown[i] \in DOMAIN frames /\ HandedOver(shown[i])
        BY <1>5 DEF HandedOver
      <4> QED BY <1>5, <1>11, <4>2
    <3>2. \A i, j \in DOMAIN shown : i < j /\ frames[shown[j]].ts # 0 => frames[shown[i]].ts <= frames[shown[j]].ts
      BY <1>2 DEF InOrder
    <3>3. \A i, j \in DOMAIN shown' : i < j /\ frames[shown'[j]].ts # 0 => frames[shown'[i]].ts <= frames[shown'[j]].ts
      BY <1>5, <2>1, <3>1, <3>2
    <3> QED BY <1>3, <3>3 DEF InOrder
  <2>3. OnlyWhole'
    <3>1. PacketsOf(w.f) \subseteq arrived
      <4>1. \A i \in 0 .. frames[w.f].n - 1 : <<w.f, i>> \in arrived
        BY <1>2, <1>4, <1>17 DEF Collected, Whole
      <4> QED BY <4>1 DEF PacketsOf
    <3>2. \A i \in DOMAIN shown : PacketsOf(shown[i]) \subseteq arrived
      BY <1>2 DEF OnlyWhole
    <3>3. \A i \in DOMAIN shown' : PacketsOf(shown'[i]) \subseteq arrived
      BY <1>5, <2>1, <3>1, <3>2
    <3>4. \A f : PacketsOf(f)' = PacketsOf(f)
      BY <1>3 DEF PacketsOf
    <3> QED BY <1>3, <3>3, <3>4 DEF OnlyWhole
  <2>4. Decodable'
    <3>1. dropped' = dropped
      BY <1>17 DEF Shows
    <3>2. SUFFICES ASSUME NEW j \in DOMAIN shown', frames[shown'[j]].kind = "delta",
                          NEW f \in dropped, f < shown'[j]
                   PROVE  \E i \in 1 .. j : frames[shown'[i]].kind = "key" /\ shown'[i] > f
      BY <1>3, <3>1 DEF Decodable
    <3>3. CASE j \in 1 .. Len(shown)
      <4>1. PICK i \in 1 .. j : frames[shown[i]].kind = "key" /\ shown[i] > f
        BY <1>2, <1>5, <2>1, <3>2, <3>3 DEF Decodable
      <4> QED BY <1>5, <2>1, <3>3, <4>1
    <3>4. CASE j = Len(shown) + 1
      <4>1. frames[w.f].kind = "delta" /\ ~play.key
        BY <1>4, <1>17, <2>1, <3>2, <3>4
      <4>2. "audio" \notin use.kinds
        BY <1>1, <1>5, <4>1, PlayableFrame
      <4>3. PICK i \in DOMAIN shown : frames[shown[i]].kind = "key" /\ shown[i] > f
        BY <1>2, <4>1, <4>2 DEF Done
      <4>4. i \in 1 .. j
        BY <1>5, <3>4, <4>3
      <4> QED BY <1>5, <2>1, <4>3, <4>4
    <3> QED BY <1>5, <2>1, <3>3, <3>4
  <2> QED BY <1>13, <1>14, <1>15, <2>2, <2>3, <2>4 DEF ClientInv
<1> QED BY <1>4, <1>16, <1>17

\* A packet is heard alone.
LEMMA HearsOne ==
  ASSUME TypeOK, OneAtATime, ~use.server, NEW p \in net, Hear(p)
  PROVE  hand = {} /\ hand' = {p} /\ ~taking
<1>1. Cardinality(hand) < 1 /\ ~taking /\ hand' = hand \cup {p}
  BY DEF Hear
<1>2. hand = {}
  <2>1. SUFFICES ASSUME NEW q \in hand
                 PROVE  FALSE
    OBVIOUS
  <2>2. hand = {q}
    BY DEF OneAtATime
  <2>3. Cardinality(hand) = 1
    BY <2>2, FS_Singleton
  <2> QED BY <1>1, <2>3
<1> QED BY <1>1, <1>2

LEMMA ClientStep ==
  ASSUME IInv, Playable(use), ~use.server, ClientInv, Fresh, [Next]_vars
  PROVE  ClientInv'
<1>1. TypeOK /\ Known /\ InLine(frames, use) /\ Len(frames) <= use.frames
  BY DEF IInv, Known
<1>2. /\ \A p, q \in hand : p = q
      /\ hand # {} => ~taking
  BY DEF ClientInv, OneAtATime
<1>3. ASSUME UNCHANGED <<use, frames, hand, playing, arrived>>
      PROVE  ClientInv'
  BY <1>1, <1>2, <1>3, ClientSame
<1>4. CASE Send
  <2>1. PICK fr, gone : Sends(fr, gone)
    BY <1>1, <1>4, SendSends
  <2>2. Adds(fr) /\ UNCHANGED <<use, playing, hand, arrived>>
    BY <2>1 DEF Sends, Adds
  <2>3. DOMAIN frames \subseteq DOMAIN frames' /\ \A f \in DOMAIN frames : frames'[f] = frames[f]
    BY <1>1, <2>2, AddsKeeps
  <2> QED BY <1>1, <1>2, <2>2, <2>3, ClientSame
<1>5. CASE Reenter
  BY <1>3, <1>5 DEF Reenter
<1>6. CASE Reply
  <2>1. PICK again, gone : Answers(again, gone)
    BY <1>1, <1>6, ReplyAnswers
  <2> QED BY <1>3, <2>1 DEF Answers, sender
<1>7. CASE \E r \in nak : LoseRequest(r)
  BY <1>3, <1>7 DEF LoseRequest, sender
<1>8. CASE \E p \in net : Hear(p)
  <2>1. PICK p \in net : Hear(p)
    BY <1>8
  <2>2. hand' = {p} /\ ~taking
    BY <1>1, <2>1, HearsOne DEF ClientInv
  <2>3. UNCHANGED <<use, frames, playing>> /\ arrived \subseteq arrived'
    BY <2>1 DEF Hear, sender
  <2> QED BY <1>1, <2>2, <2>3, ClientSame
<1>9. CASE \E p \in hand : Keep(p)
  BY <1>9 DEF Keep
<1>10. CASE \E p \in hand : Collect(p)
  BY <1>10, CollectClient
<1>11. CASE \E w \in waiting : Expire(w)
  BY <1>11, ExpireClient
<1>12. CASE \E w \in waiting : TakeUntimed(w)
  BY <1>12, TakeUntimedClient
<1>13. CASE \E w \in waiting : TakeInTurn(w) \/ TakeExpired(w)
  BY <1>13, TakeTimedClient
<1>14. CASE TakeNothing
  BY <1>14, NothingClient
<1>15. CASE UNCHANGED vars
  BY <1>3, <1>15 DEF vars, sender
<1> QED BY <1>4, <1>5, <1>6, <1>7, <1>8, <1>9, <1>10, <1>11, <1>12, <1>13, <1>14, <1>15 DEF Next

-----------------------------------------------------------------------------
(* A client that misses nothing. *)

\* Trouble does not go away.
LEMMA SmoothBack ==
  ASSUME IInv, [Next]_vars, Smooth'
  PROVE  Smooth
<1>1. /\ trouble \in [losses : 0 .. use.losses, dups : 0 .. use.dups,
                      again : BOOLEAN, hurt : BOOLEAN, late : BOOLEAN]
      /\ use.losses \in Nat /\ trouble.losses \in Nat
  BY UseType DEF IInv, TypeOK
<1>2. ASSUME use' = use, trouble'.losses >= trouble.losses,
             trouble.late => trouble'.late, trouble.again => trouble'.again
      PROVE  Smooth
  BY <1>1, <1>2 DEF Smooth
<1>3. CASE use' = use /\ trouble' = trouble
  BY <1>1, <1>2, <1>3
<1>4. CASE Send
  <2>1. PICK fr, gone : Sends(fr, gone)
    BY <1>4, SendSends DEF IInv, Known
  <2>2. use' = use /\ Cardinality(gone) \in Nat /\ trouble' = [trouble EXCEPT !.losses = @ + Cardinality(gone)]
    BY <2>1 DEF Sends, Adds
  <2> QED BY <1>1, <1>2, <2>2
<1>5. CASE Reply
  <2>1. PICK again, gone : Answers(again, gone)
    BY <1>5, ReplyAnswers DEF IInv
  <2>2. /\ use' = use /\ Cardinality(gone) \in Nat
        /\ trouble' = [trouble EXCEPT !.losses = @ + Cardinality(gone),
                                !.again = @ \/ again # {},
                                !.hurt = @ \/ gone # {}]
    BY <2>1 DEF Answers, sender
  <2> QED BY <1>1, <1>2, <2>2
<1>6. ASSUME NEW r \in nak, LoseRequest(r) PROVE Smooth
  <2>1. use' = use /\ trouble' = [trouble EXCEPT !.losses = @ + 1, !.hurt = TRUE]
    BY <1>6 DEF LoseRequest, sender
  <2> QED BY <1>1, <1>2, <2>1
<1>7. ASSUME NEW p \in net, Hear(p) PROVE Smooth
  <2>1. /\ use' = use
        /\ trouble' = trouble \/ trouble' = [trouble EXCEPT !.dups = @ + 1, !.again = TRUE]
    BY <1>7 DEF Hear, sender
  <2>2. trouble' = [trouble EXCEPT !.dups = @ + 1, !.again = TRUE] =>
          trouble'.losses = trouble.losses /\ trouble'.late = trouble.late /\ trouble'.again
    BY <1>1
  <2>3. trouble.losses >= trouble.losses
    BY <1>1
  <2> QED BY <1>2, <2>1, <2>2, <2>3
<1>8. ASSUME NEW w \in waiting, Expire(w) PROVE Smooth
  <2>1. use' = use /\ trouble' = [trouble EXCEPT !.late = TRUE]
    BY <1>8 DEF Expire, sender
  <2> QED BY <1>1, <1>2, <2>1
<1>9. Reenter \/ (\E p \in hand : Keep(p) \/ Collect(p)) \/ TakeNothing \/ UNCHANGED vars
        => use' = use /\ trouble' = trouble
  BY DEF Reenter, Keep, Collect, TakeNothing, vars, network, sender
<1>10. ASSUME NEW w \in waiting, TakeUntimed(w) \/ TakeInTurn(w) \/ TakeExpired(w)
       PROVE  use' = use /\ trouble' = trouble
  BY <1>10 DEF TakeUntimed, TakeInTurn, TakeExpired, Take, network, sender
<1> QED BY <1>3, <1>4, <1>5, <1>6, <1>7, <1>8, <1>9, <1>10 DEF Next

\* The next timed frame begins where this one ends.
LEMMA NextFrame ==
  ASSUME TypeOK, InLine(frames, use), NoBreak, use.reenter = {},
         NEW g \in DOMAIN frames, frames[g].ts # 0,
         NEW f \in DOMAIN frames, frames[f].ts # 0, g < f
  PROVE  \E s \in DOMAIN frames :
           /\ g < s /\ frames[s].ts # 0
           /\ \A h \in DOMAIN frames : g < h /\ frames[h].ts # 0 => s <= h
           /\ frames[s].first = (frames[g].first + frames[g].n) % NumSeq
<1>1. PICK s \in DOMAIN frames : g < s /\ frames[s].ts # 0 /\ Untouched(frames, g, s)
  BY DEF InLine, Successor
<1>2. ASSUME NEW h \in DOMAIN frames, g < h, frames[h].ts # 0
      PROVE  s <= h
  <2>1. ~ (h < s)
    BY <1>1, <1>2 DEF Untouched
  <2> QED BY <2>1, FrameType
<1>3. frames[s].base = frames[g].base + frames[g].n
  BY <1>1 DEF InLine, Follows, EndOf
<1>4. /\ frames[g].first = (use.start + 1 + frames[g].base) % NumSeq
      /\ frames[s].first = (use.start + 1 + frames[s].base) % NumSeq
  BY <1>1 DEF NoBreak
<1>5. PICK x : x = use.start + 1 + frames[g].base
  OBVIOUS
<1>6. PICK n : n = frames[g].n
  OBVIOUS
<1>7. x \in Int /\ n \in Int /\ NumSeq \in Nat \ {0} /\ use.start + 1 + frames[s].base = x + n
  <2>1. use.start \in Int /\ frames[g].base \in Int /\ frames[g].n \in Int
    BY FrameType, UseType DEF Number
  <2> QED BY <1>3, <1>5, <1>6, <2>1, Constants
<1>8. ((x % NumSeq) + n) % NumSeq = (x + n) % NumSeq
  BY <1>7, SumMod
<1>9. frames[s].first = (frames[g].first + frames[g].n) % NumSeq
  BY <1>4, <1>5, <1>6, <1>7, <1>8
<1> QED BY <1>1, <1>2, <1>9

\* The frame in turn is the next one: a later one with the same number would
\* be so much later that no packet of the next can be missing.
LEMMA TurnIsNext ==
  ASSUME IInv, Playable(use), ClientInv, Smooth, SmoothInv, hand = {},
         NEW w \in waiting, First(w), InTurn(w), frames[w.f].ts # 0,
         NEW g \in DOMAIN frames, HandedOver(g), frames[g].ts = play.ts, frames[g].ts # 0,
         NEW f \in DOMAIN frames, frames[f].ts # 0, frames[f].ts > play.ts
  PROVE  frames[f].ts >= frames[w.f].ts
<1>1. TypeOK /\ Known /\ InLine(frames, use) /\ NoBreak /\ Len(frames) <= use.frames /\ use.reenter = {}
  BY DEF IInv, Known, Smooth
<1>2. Collected /\ Done /\ Arriving /\ Collecting
  BY DEF ClientInv, SmoothInv
<1>3. /\ w.f \in DOMAIN frames /\ play.ts \in Nat /\ use.late \in Nat /\ use.late < NumSeq
      /\ \A h \in DOMAIN frames : /\ h \in Nat /\ frames[h].ts \in Nat /\ frames[h].base \in Nat
                                  /\ frames[h].n \in Nat /\ frames[h].n > 0
  BY <1>1, WaitingType, FrameType, UseType DEF Playable
<1>4. SUFFICES ASSUME frames[f].ts < frames[w.f].ts
               PROVE  FALSE
  BY <1>3
<1>5. g < f
  BY <1>1, TimeIsOnes
<1>6. PICK s \in DOMAIN frames :
        /\ g < s /\ frames[s].ts # 0 /\ s <= f
        /\ frames[s].first = (frames[g].first + frames[g].n) % NumSeq
  BY <1>1, <1>5, NextFrame
<1>7. frames[s].ts > play.ts /\ frames[s].ts < frames[w.f].ts
  <2>1. frames[g].ts < frames[s].ts
    BY <1>1, <1>6, TimeIsOnes
  <2>2. s = f \/ frames[s].ts < frames[f].ts
    BY <1>1, <1>3, <1>6, TimeIsOnes
  <2> QED BY <1>3, <1>4, <1>6, <2>1, <2>2
<1>8. s < w.f
  BY <1>1, <1>3, <1>6, <1>7, TimeIsOnes
<1>9. frames[s].first = frames[w.f].first
  <2>1. play.ts > 0 /\ w.first = frames[w.f].first
    BY <1>2 DEF Collected
  <2>2. play.wait # None /\ play.wait = (frames[g].first + frames[g].n) % NumSeq
    BY <1>2, <2>1 DEF Done
  <2> QED BY <1>6, <2>1, <2>2 DEF InTurn
<1>10. PICK q : q = <<s, 0>>
  OBVIOUS
<1>11. q \in Sent /\ q[1] = s /\ q[2] = 0 /\ Timed(q) /\ SentUpTo(q) = frames[s].base
  <2>1. 0 \in 0 .. frames[s].n - 1
    BY <1>3
  <2>2. q \in Sent
    BY <1>10, <2>1, SentOf
  <2> QED BY <1>3, <1>6, <1>10, <2>2 DEF Timed, SentUpTo
<1>12. q \notin arrived
  <2>1. SUFFICES ASSUME q \in arrived
                 PROVE  FALSE
    OBVIOUS
  <2>2. PICK v \in waiting : v.f = s
    BY <1>2, <1>7, <1>11, <2>1 DEF Collecting
  <2>3. frames[w.f].ts <= frames[s].ts
    BY <2>2 DEF First
  <2> QED BY <1>3, <1>7, <2>3
<1>13. q \in net
  BY <1>2, <1>11, <1>12 DEF Arriving
<1>14. frames[w.f].base + frames[w.f].n - 1 - frames[s].base <= use.late
  BY <1>2, <1>3, <1>8, <1>11, <1>13 DEF Arriving
<1>15. frames[s].base + frames[s].n <= frames[w.f].base
  BY <1>1, <1>3, <1>6, <1>8 DEF InLine, Follows, EndOf
<1>16. /\ frames[s].first = (use.start + 1 + frames[s].base) % NumSeq
       /\ frames[w.f].first = (use.start + 1 + frames[w.f].base) % NumSeq
  BY <1>1, <1>3, <1>6 DEF NoBreak
<1>17. PICK x : x = use.start + 1 + frames[s].base
  OBVIOUS
<1>18. PICK y : y = use.start + 1 + frames[w.f].base
  OBVIOUS
<1>19. x \in Int /\ y \in Int /\ x < y /\ y < x + NumSeq /\ NumSeq \in Nat \ {0}
  <2>1. use.start \in Int
    BY <1>1, UseType DEF Number
  <2> QED BY <1>3, <1>6, <1>14, <1>15, <1>17, <1>18, <2>1, Constants
<1>20. x % NumSeq # y % NumSeq
  BY <1>19, Apart
<1> QED BY <1>9, <1>16, <1>17, <1>18, <1>20

LEMMA SmoothSame ==
  ASSUME SmoothInv, UNCHANGED <<use, frames, net, hand, arrived, waiting, play, shown, dropped>>
  PROVE  SmoothInv'
<1>1. /\ Sent' = Sent
      /\ \A p : SentUpTo(p)' = SentUpTo(p) /\ Timed(p)' = Timed(p)
      /\ \A f : PacketsOf(f)' = PacketsOf(f)
  BY SentSame
<1>2. Arriving'
  BY <1>1 DEF SmoothInv, Arriving
<1>3. Collecting'
  BY <1>1 DEF SmoothInv, Collecting, HandedOver
<1>4. InARow'
  BY <1>1 DEF SmoothInv, InARow, HandedOver
<1> QED BY <1>2, <1>3, <1>4 DEF SmoothInv

LEMMA SendSmooth ==
  ASSUME IInv, Playable(use), ~use.server, ClientInv, Smooth, SmoothInv, Send, Smooth'
  PROVE  SmoothInv'
<1>1. TypeOK /\ Known /\ InLine(frames, use) /\ Len(frames) <= use.frames
  BY DEF IInv, Known
<1>2. Collected /\ Done /\ OnlyWhole /\ Arriving /\ Collecting /\ InARow
  BY DEF ClientInv, SmoothInv
<1>3. PICK fr, gone : Sends(fr, gone)
  BY <1>1, SendSends
<1>4. PICK l : l = Len(frames) + 1
  OBVIOUS
<1>5. /\ Adds(fr) /\ use' = use /\ Described(fr, use) /\ fr \in Frame /\ fr.base = Total
      /\ (fr.ts # 0 => fr.at > Clock) /\ Between
  BY <1>3 DEF Sends, Adds
<1>6. /\ DOMAIN frames' = DOMAIN frames \cup {l} /\ l \notin DOMAIN frames
      /\ \A f \in DOMAIN frames : frames'[f] = frames[f] /\ PacketsOf(f)' = PacketsOf(f)
      /\ frames'[l] = fr
  BY <1>1, <1>4, <1>5, AddsKeeps
<1>7. /\ Sent' = Sent \cup New(fr.n) /\ Sent \cap New(fr.n) = {}
      /\ \A p \in Sent : SentUpTo(p)' = SentUpTo(p) /\ Timed(p)' = Timed(p)
  BY <1>1, <1>4, <1>5, AddsPackets
<1>8. /\ \A p \in net \cup hand : Total + fr.n - 1 - SentUpTo(p) <= use.late
      /\ Cardinality(gone) \in Nat /\ (Cardinality(gone) = 0 => gone = {})
      /\ trouble' = [trouble EXCEPT !.losses = @ + Cardinality(gone)]
      /\ ~fr.exact => net' = net \cup {p \in New(fr.n) : p[2] \notin gone}
      /\ UNCHANGED <<waiting, play, shown, dropped, hand, arrived>>
  BY <1>3 DEF Sends, playing
<1>9. net' = net \cup New(fr.n)
  <2>1. trouble'.losses = trouble.losses + Cardinality(gone) /\ trouble.losses = 0 /\ trouble'.losses = 0
    BY <1>1, <1>8 DEF Smooth, TypeOK
  <2>2. gone = {}
    BY <1>8, <2>1
  <2>3. ~fr.exact
    BY <1>5 DEF Described, Playable
  <2> QED BY <1>8, <2>2, <2>3
<1>10. /\ net \subseteq Sent /\ arrived \subseteq Sent /\ hand \subseteq Sent
       /\ \A w \in waiting : w.f \in DOMAIN frames
       /\ \A i \in DOMAIN shown : shown[i] \in DOMAIN frames
       /\ \A p \in Sent : p[1] \in DOMAIN frames
  BY <1>1, SentType DEF Known
<1>11. /\ \A f \in DOMAIN frames : f < l /\ f \in Nat /\ frames[f].ts \in Nat /\ frames[f].at \in Nat
       /\ l \in Nat /\ fr.ts \in Nat /\ fr.n \in Nat /\ Clock \in Nat
  BY <1>1, <1>4, <1>5, FrameType, ClockType DEF Frame
<1>12. Arriving'
  <2>1. Sent' \subseteq net' \cup arrived' /\ net' \cap arrived' = {}
    BY <1>2, <1>7, <1>8, <1>9, <1>10 DEF Arriving
  <2>2. SUFFICES ASSUME NEW p \in net' \cup hand', Timed(p)',
                        NEW g \in DOMAIN frames', p[1] < g, frames'[g].ts # 0
                 PROVE  frames'[g].base + frames'[g].n - 1 - SentUpTo(p)' <= use.late
    BY <1>5, <2>1 DEF Arriving
  <2>3. CASE p \in net \cup hand
    <3>1. p \in Sent /\ SentUpTo(p)' = SentUpTo(p) /\ Timed(p)
      BY <1>7, <1>10, <2>2, <2>3
    <3>2. CASE g = l
      BY <1>5, <1>6, <1>8, <2>3, <3>1, <3>2
    <3>3. CASE g \in DOMAIN frames
      BY <1>2, <1>6, <2>2, <2>3, <3>1, <3>3 DEF Arriving
    <3> QED BY <1>6, <3>2, <3>3
  <2>4. CASE p \in New(fr.n)
    <3>1. p[1] = l
      BY <1>4, <2>4 DEF New
    <3> QED BY <1>6, <1>11, <2>2, <3>1
  <2> QED BY <1>8, <1>9, <2>3, <2>4
<1>13. \A f : HandedOver(f)' <=> HandedOver(f)
  BY <1>8 DEF HandedOver
<1>14. Collecting'
  <2>1. /\ \A w \in waiting : frames'[w.f] = frames[w.f]
        /\ \A p \in arrived : (Timed(p)' <=> Timed(p)) /\ frames'[p[1]] = frames[p[1]]
    BY <1>6, <1>7, <1>10
  <2> QED BY <1>2, <1>8, <1>13, <2>1 DEF Collecting
<1>15. InARow'
  <2>1. \A i \in DOMAIN shown : frames'[shown[i]] = frames[shown[i]] /\ PacketsOf(shown[i])' = PacketsOf(shown[i])
    <3>1. SUFFICES ASSUME NEW i \in DOMAIN shown
                   PROVE  frames'[shown[i]] = frames[shown[i]] /\ PacketsOf(shown[i])' = PacketsOf(shown[i])
      OBVIOUS
    <3>2. PICK f \in DOMAIN frames : f = shown[i]
      BY <1>10
    <3>3. frames'[f] = frames[f] /\ PacketsOf(f)' = PacketsOf(f)
      BY <1>6
    <3>4. PacketsOf(shown[i])' = PacketsOf(f)'
      BY <1>8, <3>2 DEF PacketsOf
    <3> QED BY <3>2, <3>3, <3>4
  <2>2. ASSUME NEW i \in DOMAIN shown, frames[shown[i]].ts # 0
        PROVE  /\ \E g \in DOMAIN frames' : HandedOver(g) /\ frames'[g].ts = play.ts
               /\ \A f \in DOMAIN frames' :
                    shown[i] <= f /\ frames'[f].ts # 0 /\ frames'[f].ts <= play.ts => HandedOver(f)
    <3>1. PICK g \in DOMAIN frames : HandedOver(g) /\ frames[g].ts = play.ts
      BY <1>2, <2>2 DEF InARow
    <3>2. \A f \in DOMAIN frames :
            shown[i] <= f /\ frames[f].ts # 0 /\ frames[f].ts <= play.ts => HandedOver(f)
      BY <1>2, <2>2 DEF InARow
    <3>3. fr.ts # 0 => play.ts < fr.ts
      <4>1. frames[g].at <= Clock /\ frames[g].ts <= frames[g].at
        BY <1>1, <1>11, LastFrame DEF InLine, Described
      <4>2. fr.ts # 0 => fr.ts = fr.at
        BY <1>5 DEF Described
      <4> QED BY <1>5, <1>11, <3>1, <4>1, <4>2
    <3> QED BY <1>6, <1>11, <3>1, <3>2, <3>3
  <2> QED BY <1>2, <1>8, <1>13, <2>1, <2>2 DEF InARow
<1> QED BY <1>12, <1>14, <1>15 DEF SmoothInv

LEMMA HearSmooth ==
  ASSUME IInv, ~use.server, ClientInv, Smooth, SmoothInv, NEW p \in net, Hear(p), Smooth'
  PROVE  SmoothInv'
<1>1. TypeOK /\ Known /\ InLine(frames, use)
  BY DEF IInv
<1>2. Collected /\ Done /\ OnlyWhole /\ Arriving /\ Collecting /\ InARow
  BY DEF ClientInv, SmoothInv
<1>3. hand = {} /\ hand' = {p}
  BY <1>1, HearsOne DEF ClientInv
<1>4. /\ arrived' = arrived \cup {p} /\ net' = net \ {p}
      /\ UNCHANGED <<use, frames, waiting, play, shown, dropped>>
  <2>1. trouble' # [trouble EXCEPT !.dups = @ + 1, !.again = TRUE]
    BY <1>1 DEF Smooth, TypeOK
  <2> QED BY <2>1 DEF Hear, sender, playing
<1>5. /\ Sent' = Sent
      /\ \A q : SentUpTo(q)' = SentUpTo(q) /\ Timed(q)' = Timed(q)
      /\ \A f : PacketsOf(f)' = PacketsOf(f) /\ (HandedOver(f)' <=> HandedOver(f))
  BY <1>4, SentSame DEF HandedOver
<1>6. p \notin arrived
  BY <1>2 DEF Arriving
<1>7. Arriving'
  BY <1>2, <1>3, <1>4, <1>5 DEF Arriving
<1>8. Collecting'
  <2>1. \A w \in waiting : \A i \in w.filled : <<w.f, i>> # p
    BY <1>2, <1>6 DEF Collected
  <2>2. arrived' \ hand' = arrived \ hand
    BY <1>3, <1>4, <1>6
  <2> QED BY <1>2, <1>3, <1>4, <1>5, <2>1, <2>2 DEF Collecting
<1>9. InARow'
  <2>1. \A i \in DOMAIN shown : PacketsOf(shown[i]) \cap hand' = {}
    BY <1>2, <1>3, <1>6 DEF OnlyWhole
  <2> QED BY <1>2, <1>4, <1>5, <2>1 DEF InARow
<1> QED BY <1>7, <1>8, <1>9 DEF SmoothInv

LEMMA CollectSmooth ==
  ASSUME IInv, Playable(use), ClientInv, SmoothInv, NEW p \in hand, Collect(p)
  PROVE  SmoothInv'
<1>1. TypeOK /\ Known /\ InLine(frames, use) /\ Len(frames) <= use.frames
  BY DEF IInv, Known
<1>2. OneAtATime /\ Collected /\ Done /\ Arriving /\ Collecting /\ InARow
  BY DEF ClientInv, SmoothInv
<1>3. p \in Sent /\ p \in arrived
  BY <1>1 DEF Known
<1>4. PICK f : f = p[1]
  OBVIOUS
<1>5. PICK ts : ts = frames[f].ts
  OBVIOUS
<1>6. PICK first : first = (SeqNo(p) - p[2]) % NumSeq
  OBVIOUS
<1>7. PICK mine : mine = {w \in waiting : frames[w.f].ts = ts}
  OBVIOUS
<1>8. PICK new : new = [f |-> f, first |-> first, filled |-> {p[2]}, late |-> ts = 0]
  OBVIOUS
<1>9. /\ f \in DOMAIN frames /\ p = <<f, p[2]>> /\ p[2] \in 0 .. frames[f].n - 1 /\ ts \in Nat
      /\ p \in PacketsOf(f)
  <2>1. f \in DOMAIN frames /\ p = <<f, p[2]>> /\ p[2] \in 0 .. frames[f].n - 1
    BY <1>1, <1>3, <1>4, SentType
  <2>2. p \in PacketsOf(f)
    BY <2>1 DEF PacketsOf
  <2> QED BY <1>1, <1>5, <2>1, <2>2, FrameType
<1>10. hand = {p} /\ hand' = {} /\ ~taking
  <2>1. hand' = hand \ {p}
    BY DEF Collect
  <2> QED BY <1>2, <2>1 DEF OneAtATime
<1>11. UNCHANGED <<use, frames, net, shown, dropped, arrived>>
  BY DEF Collect, sender, network
<1>12. /\ play.ts \in Nat /\ play \in [ts : Nat, wait : Number \cup {None}, key : BOOLEAN]
       /\ \A w \in waiting : w.f \in DOMAIN frames /\ frames[w.f].ts # 0
       /\ \A g \in DOMAIN frames : frames[g].ts \in Nat
  BY <1>1, <1>2, <1>10, FrameType DEF Known, OneAtATime, TypeOK
<1>13. \/ ts < play.ts /\ ts > 0 /\ UNCHANGED <<waiting, play>>
       \/ /\ waiting' = IF mine = {} THEN waiting \cup {new}
                        ELSE {IF w \in mine THEN [w EXCEPT !.filled = @ \cup {p[2]}] ELSE w : w \in waiting}
          /\ play' = IF ts > 0 /\ play.ts = 0 THEN [play EXCEPT !.ts = ts - 1, !.wait = first] ELSE play
  BY <1>4, <1>5, <1>6, <1>7, <1>8 DEF Collect
<1>14. play'.ts >= play.ts /\ play'.key = play.key /\ (play.ts # 0 => play' = play)
  <2>1. play.ts >= play.ts
    BY <1>12
  <2>2. ts > 0 /\ play.ts = 0 => /\ [play EXCEPT !.ts = ts - 1, !.wait = first].ts >= play.ts
                                 /\ [play EXCEPT !.ts = ts - 1, !.wait = first].key = play.key
    BY <1>9, <1>12
  <2> QED BY <1>13, <2>1, <2>2
<1>15. /\ Sent' = Sent
       /\ \A q : SentUpTo(q)' = SentUpTo(q) /\ Timed(q)' = Timed(q)
       /\ \A g : PacketsOf(g)' = PacketsOf(g) /\ (HandedOver(g)' <=> HandedOver(g))
  BY <1>11, SentSame DEF HandedOver
<1>16. Arriving'
  BY <1>2, <1>10, <1>11, <1>15 DEF Arriving
<1>17. InARow'
  <2>1. ASSUME NEW i \in DOMAIN shown, frames[shown[i]].ts # 0
        PROVE  play' = play
    <3>1. shown[i] \in DOMAIN frames /\ HandedOver(shown[i])
      BY <1>1 DEF Known, HandedOver
    <3>2. frames[shown[i]].ts <= play.ts
      BY <1>2, <2>1, <3>1 DEF Done
    <3> QED BY <1>12, <1>14, <2>1, <3>1, <3>2
  <2> QED BY <1>2, <1>10, <1>11, <1>14, <1>15, <2>1 DEF InARow
<1>18. \A q \in arrived : q # p =>
         IF Timed(q)
         THEN frames[q[1]].ts > play'.ts => \E w \in waiting : w.f = q[1] /\ q[2] \in w.filled
         ELSE HandedOver(q[1]) \/ \E w \in waiting : w.f = q[1]
  <2>1. SUFFICES ASSUME NEW q \in arrived, q # p
                 PROVE  IF Timed(q)
                        THEN frames[q[1]].ts > play'.ts => \E w \in waiting : w.f = q[1] /\ q[2] \in w.filled
                        ELSE HandedOver(q[1]) \/ \E w \in waiting : w.f = q[1]
    OBVIOUS
  <2>2. q \in arrived \ hand
    BY <1>10, <2>1
  <2>3. frames[q[1]].ts \in Nat /\ play'.ts \in Nat
    <3>1. q[1] \in DOMAIN frames
      BY <1>1, SentType DEF Known
    <3>2. play'.ts \in Nat
      BY CollectInv DEF IInv, TypeOK
    <3> QED BY <1>12, <3>1, <3>2
  <2>4. frames[q[1]].ts > play'.ts => frames[q[1]].ts > play.ts
    BY <1>12, <1>14, <2>3
  <2> QED BY <1>2, <2>2, <2>4 DEF Collecting
<1>19. ~HandedOver(f)
  <2>1. \A i \in DOMAIN shown : shown[i] # f
    BY <1>2, <1>9, <1>10 DEF InARow
  <2> QED BY <2>1 DEF HandedOver
<1>20. \A w \in waiting : (w.late => frames[w.f].ts = 0) /\ ~HandedOver(w.f)
  BY <1>2 DEF Collecting
<1>21. CASE ts < play.ts /\ ts > 0 /\ UNCHANGED <<waiting, play>>
  <2>1. Timed(p) /\ ~ (frames[p[1]].ts > play'.ts)
    BY <1>4, <1>5, <1>9, <1>12, <1>21 DEF Timed
  <2>2. \A q \in arrived :
         IF Timed(q)
         THEN frames[q[1]].ts > play'.ts => \E w \in waiting : w.f = q[1] /\ q[2] \in w.filled
         ELSE HandedOver(q[1]) \/ \E w \in waiting : w.f = q[1]
    BY <1>18, <2>1
  <2>3. Collecting'
    BY <1>10, <1>11, <1>15, <1>20, <1>21, <2>2 DEF Collecting
  <2> QED BY <1>16, <1>17, <2>3 DEF SmoothInv
<1>22. CASE mine = {} /\ waiting' = waiting \cup {new}
  <2>1. new.f = f /\ new.filled = {p[2]} /\ (new.late <=> ts = 0)
    BY <1>8
  <2>2. \A w \in waiting' : (w.late => frames[w.f].ts = 0) /\ ~HandedOver(w.f)
    BY <1>5, <1>19, <1>20, <1>22, <2>1
  <2>3. \A q \in arrived :
         IF Timed(q)
         THEN frames[q[1]].ts > play'.ts => \E w \in waiting' : w.f = q[1] /\ q[2] \in w.filled
         ELSE HandedOver(q[1]) \/ \E w \in waiting' : w.f = q[1]
    BY <1>4, <1>18, <1>22, <2>1
  <2>4. Collecting'
    BY <1>10, <1>11, <1>15, <2>2, <2>3 DEF Collecting
  <2> QED BY <1>16, <1>17, <2>4 DEF SmoothInv
<1>23. CASE /\ mine # {}
            /\ waiting' = {IF w \in mine THEN [w EXCEPT !.filled = @ \cup {p[2]}] ELSE w : w \in waiting}
  <2> DEFINE g(w) == IF w \in mine THEN [w EXCEPT !.filled = @ \cup {p[2]}] ELSE w
  <2>1. waiting' = {g(w) : w \in waiting}
    BY <1>23
  <2>2. \A w \in waiting : /\ g(w).f = w.f /\ g(w).late = w.late
                           /\ w.filled \subseteq g(w).filled
                           /\ w \in mine => p[2] \in g(w).filled
    <3>1. \A w \in waiting : w \in [f : 1 .. MaxFrames, first : Number, filled : SUBSET Nat, late : BOOLEAN]
      BY <1>1 DEF TypeOK
    <3> QED BY <3>1
  <2> HIDE DEF g
  <2>3. \A w \in waiting' : (w.late => frames[w.f].ts = 0) /\ ~HandedOver(w.f)
    BY <1>20, <2>1, <2>2
  <2>4. \A q \in arrived : q # p =>
         IF Timed(q)
         THEN frames[q[1]].ts > play'.ts => \E w \in waiting' : w.f = q[1] /\ q[2] \in w.filled
         ELSE HandedOver(q[1]) \/ \E w \in waiting' : w.f = q[1]
    BY <1>18, <2>1, <2>2
  <2>5. \E w \in waiting' : w.f = p[1] /\ p[2] \in w.filled
    <3>1. PICK w \in mine : TRUE
      BY <1>23
    <3>2. w \in waiting /\ frames[w.f].ts = ts /\ frames[w.f].ts # 0 /\ w.f \in DOMAIN frames
      BY <1>7, <1>12
    <3>3. w.f = f
      BY <1>1, <1>5, <1>9, <3>2, TimeIsOnes
    <3>4. g(w) \in waiting' /\ g(w).f = p[1] /\ p[2] \in g(w).filled
      BY <1>4, <2>1, <2>2, <3>1, <3>2, <3>3
    <3> QED BY <3>4
  <2>6. \A q \in arrived :
         IF Timed(q)
         THEN frames[q[1]].ts > play'.ts => \E w \in waiting' : w.f = q[1] /\ q[2] \in w.filled
         ELSE HandedOver(q[1]) \/ \E w \in waiting' : w.f = q[1]
    BY <2>4, <2>5
  <2>7. Collecting'
    BY <1>10, <1>11, <1>15, <2>3, <2>6 DEF Collecting
  <2> QED BY <1>16, <1>17, <2>7 DEF SmoothInv
<1> QED BY <1>13, <1>21, <1>22, <1>23

\* The frame with the lowest timestamp is taken: what is over a frame that
\* waited is shown, and what waits is another frame.
LEMMA TakenAway ==
  ASSUME TypeOK, Known, ClientInv, Collecting, Arriving, InARow, NEW w \in waiting, Take(w),
         shown' = Append(shown, w.f), dropped' = dropped, ~play'.key,
         play'.ts \in Nat, play'.ts >= play.ts,
         frames[w.f].ts # 0 => play'.ts = frames[w.f].ts
  PROVE  /\ Arriving' /\ Collecting' /\ dropped' = {} /\ ~play'.key
         /\ \A i \in DOMAIN shown' : (PacketsOf(shown[i]) \cap hand)' = {}
         /\ \A i, j \in DOMAIN shown' : shown'[i] = shown'[j] => i = j
<1>1. OneAtATime /\ Collected
  BY DEF ClientInv
<1>2. /\ taking /\ waiting' = waiting \ {w}
      /\ UNCHANGED <<use, frames, net, hand, arrived>>
  BY DEF Take, sender, network
<1>3. hand = {} /\ hand' = {}
  BY <1>1, <1>2 DEF OneAtATime
<1>4. /\ w.f \in DOMAIN frames /\ DOMAIN shown = 1 .. Len(shown) /\ Len(shown) \in Nat
      /\ play.ts \in Nat
      /\ \A v \in waiting : v.f \in DOMAIN frames
      /\ \A f \in DOMAIN frames : frames[f].ts \in Nat
  BY WaitingType, FrameType
<1>5. /\ DOMAIN shown' = 1 .. Len(shown) + 1 /\ shown'[Len(shown) + 1] = w.f
      /\ \A i \in 1 .. Len(shown) : shown'[i] = shown[i]
      /\ \A f : HandedOver(f)' <=> HandedOver(f) \/ f = w.f
  BY <1>4, ShowsOne
<1>6. /\ Sent' = Sent
      /\ \A q : SentUpTo(q)' = SentUpTo(q) /\ Timed(q)' = Timed(q)
      /\ \A g : PacketsOf(g)' = PacketsOf(g)
  BY <1>2, SentSame
<1>7. \A v \in waiting' : v.f # w.f
  BY <1>1, <1>2 DEF Collected
<1>8. Arriving'
  BY <1>2, <1>3, <1>6 DEF Arriving
<1>9. Collecting'
  <2>1. \A v \in waiting' : (v.late => frames[v.f].ts = 0) /\ ~HandedOver(v.f)'
    BY <1>2, <1>5, <1>7 DEF Collecting
  <2>2. SUFFICES ASSUME NEW q \in arrived
                 PROVE  IF Timed(q)
                        THEN frames[q[1]].ts > play'.ts => \E v \in waiting' : v.f = q[1] /\ q[2] \in v.filled
                        ELSE HandedOver(q[1])' \/ \E v \in waiting' : v.f = q[1]
    BY <1>2, <1>3, <1>6, <2>1 DEF Collecting
  <2>3. q[1] \in DOMAIN frames
    BY SentType DEF Known
  <2>4. CASE Timed(q)
    <3>1. SUFFICES ASSUME frames[q[1]].ts > play'.ts
                   PROVE  \E v \in waiting' : v.f = q[1] /\ q[2] \in v.filled
      BY <2>4
    <3>2. frames[q[1]].ts > play.ts /\ q[1] # w.f
      BY <1>4, <2>3, <2>4, <3>1 DEF Timed
    <3>3. PICK v \in waiting : v.f = q[1] /\ q[2] \in v.filled
      BY <1>3, <2>4, <3>2 DEF Collecting
    <3> QED BY <1>2, <3>2, <3>3
  <2>5. CASE ~Timed(q)
    <3>1. HandedOver(q[1]) \/ \E v \in waiting : v.f = q[1]
      BY <1>3, <2>5 DEF Collecting
    <3> QED BY <1>2, <1>5, <2>5, <3>1
  <2> QED BY <2>4, <2>5
<1>10. \A i, j \in DOMAIN shown' : shown'[i] = shown'[j] => i = j
  <2>1. \A i \in 1 .. Len(shown) : shown[i] # w.f
    BY <1>4 DEF Collecting, HandedOver
  <2> QED BY <1>4, <1>5, <2>1 DEF InARow
<1> QED BY <1>3, <1>8, <1>9, <1>10 DEF InARow

LEMMA TakeUntimedSmooth ==
  ASSUME IInv, ClientInv, SmoothInv, NEW w \in waiting, TakeUntimed(w)
  PROVE  SmoothInv'
<1>1. TypeOK /\ Known /\ Arriving /\ Collecting /\ InARow
  BY DEF IInv, SmoothInv
<1>2. /\ Take(w) /\ shown' = Append(shown, w.f) /\ dropped' = dropped /\ play' = play
      /\ frames[w.f].ts = 0 /\ frames' = frames
  BY DEF TakeUntimed, Untimed, Take, sender
<1>3. play.ts \in Nat /\ ~play.key /\ play.ts >= play.ts
  BY <1>1, WaitingType DEF InARow
<1>4. /\ Arriving' /\ Collecting' /\ dropped' = {} /\ ~play'.key
      /\ \A i \in DOMAIN shown' : (PacketsOf(shown[i]) \cap hand)' = {}
      /\ \A i, j \in DOMAIN shown' : shown'[i] = shown'[j] => i = j
  BY <1>1, <1>2, <1>3, TakenAway
<1>5. /\ w.f \in DOMAIN frames /\ DOMAIN shown = 1 .. Len(shown) /\ Len(shown) \in Nat
  BY <1>1, WaitingType
<1>6. /\ DOMAIN shown' = 1 .. Len(shown) + 1 /\ shown'[Len(shown) + 1] = w.f
      /\ \A i \in 1 .. Len(shown) : shown'[i] = shown[i]
      /\ \A f : HandedOver(f)' <=> HandedOver(f) \/ f = w.f
  BY <1>1, <1>2, <1>5, ShowsOne
<1>7. ASSUME NEW i \in DOMAIN shown', frames[shown'[i]].ts # 0
      PROVE  /\ \E g \in DOMAIN frames : HandedOver(g)' /\ frames[g].ts = play.ts
             /\ \A f \in DOMAIN frames :
                  shown'[i] <= f /\ frames[f].ts # 0 /\ frames[f].ts <= play.ts => HandedOver(f)'
  <2>1. i \in DOMAIN shown /\ shown'[i] = shown[i]
    BY <1>2, <1>5, <1>6, <1>7
  <2> QED BY <1>1, <1>6, <1>7, <2>1 DEF InARow
<1>8. InARow'
  BY <1>2, <1>4, <1>7 DEF InARow
<1> QED BY <1>4, <1>8 DEF SmoothInv

LEMMA TakeInTurnSmooth ==
  ASSUME IInv, Playable(use), ClientInv, Smooth, SmoothInv, NEW w \in waiting,
         frames[w.f].ts # 0, TakeInTurn(w)
  PROVE  SmoothInv'
<1>1. TypeOK /\ Known /\ InLine(frames, use) /\ Arriving /\ Collecting /\ InARow
  BY DEF IInv, SmoothInv
<1>2. OneAtATime /\ Collected /\ Done
  BY DEF ClientInv
<1>3. /\ Take(w) /\ First(w) /\ taking /\ frames' = frames
  BY DEF TakeInTurn, Take, sender
<1>4. /\ shown' = Append(shown, w.f) /\ dropped' = dropped /\ ~play'.key
      /\ play'.ts = frames[w.f].ts /\ InTurn(w)
  BY <1>1, TakesTimed DEF InARow, Shows
<1>5. hand = {}
  BY <1>2, <1>3 DEF OneAtATime
<1>6. /\ w.f \in DOMAIN frames /\ DOMAIN shown = 1 .. Len(shown) /\ Len(shown) \in Nat
      /\ play.ts \in Nat
      /\ \A i \in DOMAIN shown : shown[i] \in DOMAIN frames
      /\ \A f \in DOMAIN frames : f \in Nat /\ frames[f].ts \in Nat
  BY <1>1, WaitingType, FrameType
<1>7. frames[w.f].ts >= play.ts /\ frames[w.f].ts \in Nat
  BY <1>2, <1>6 DEF Collected
<1>8. /\ Arriving' /\ Collecting' /\ dropped' = {} /\ ~play'.key
      /\ \A i \in DOMAIN shown' : (PacketsOf(shown[i]) \cap hand)' = {}
      /\ \A i, j \in DOMAIN shown' : shown'[i] = shown'[j] => i = j
  BY <1>1, <1>3, <1>4, <1>7, TakenAway
<1>9. /\ DOMAIN shown' = 1 .. Len(shown) + 1 /\ shown'[Len(shown) + 1] = w.f
      /\ \A i \in 1 .. Len(shown) : shown'[i] = shown[i]
      /\ \A f : HandedOver(f)' <=> HandedOver(f) \/ f = w.f
  BY <1>1, <1>4, <1>6, ShowsOne
<1>10. ASSUME NEW i \in DOMAIN shown', frames[shown'[i]].ts # 0,
              NEW f \in DOMAIN frames, shown'[i] <= f, frames[f].ts # 0, frames[f].ts <= frames[w.f].ts
       PROVE  HandedOver(f)'
  <2>1. SUFFICES ASSUME f # w.f
                 PROVE  HandedOver(f)
    BY <1>9
  <2>2. frames[f].ts < frames[w.f].ts
    <3>1. frames[f].ts # frames[w.f].ts
      BY <1>1, <1>6, <1>10, <2>1, TimeIsOnes
    <3> QED BY <1>6, <1>7, <1>10, <3>1
  <2>3. f < w.f
    BY <1>1, <1>6, <1>10, <2>2, TimeIsOnes
  <2>4. i \in DOMAIN shown /\ shown'[i] = shown[i]
    BY <1>6, <1>9, <1>10, <2>3
  <2>5. PICK g \in DOMAIN frames : HandedOver(g) /\ frames[g].ts = play.ts
    BY <1>1, <1>10, <2>4 DEF InARow
  <2>6. frames[g].ts # 0
    BY <1>2, <2>5, <1>6, play.ts > 0 DEF Collected
  <2>7. ~ (frames[f].ts > play.ts)
    <3>1. SUFFICES ASSUME frames[f].ts > play.ts
                   PROVE  FALSE
      OBVIOUS
    <3>2. frames[f].ts >= frames[w.f].ts
      BY <1>3, <1>4, <1>5, <1>10, <2>5, <2>6, <3>1, TurnIsNext
    <3> QED BY <1>6, <1>7, <2>2, <3>2
  <2>8. frames[f].ts <= play.ts
    BY <1>6, <2>7
  <2> QED BY <1>1, <1>10, <2>4, <2>8 DEF InARow
<1>11. HandedOver(w.f)'
  BY <1>9
<1>12. InARow'
  BY <1>3, <1>4, <1>6, <1>8, <1>10, <1>11 DEF InARow
<1> QED BY <1>8, <1>12 DEF SmoothInv

LEMMA SmoothInit ==
  ASSUME Init
  PROVE  SmoothInv
<1>1. /\ frames = <<>> /\ net = {} /\ arrived = {} /\ hand = {} /\ waiting = {} /\ dropped = {}
      /\ shown = <<>> /\ DOMAIN shown = {} /\ DOMAIN frames = {}
      /\ play = [ts |-> 0, wait |-> None, key |-> FALSE]
  BY DEF Init
<1>2. Sent = {}
  BY <1>1 DEF Sent
<1> QED BY <1>1, <1>2 DEF SmoothInv, Arriving, Collecting, InARow

LEMMA SmoothStep ==
  ASSUME IInv, Playable(use), ~use.server, ClientInv, Smooth => SmoothInv, [Next]_vars
  PROVE  Smooth' => SmoothInv'
<1>1. SUFFICES ASSUME Smooth, SmoothInv, Smooth'
               PROVE  SmoothInv'
  BY SmoothBack
<1>2. TypeOK /\ Known /\ InLine(frames, use)
  BY DEF IInv
<1>3. /\ trouble \in [losses : 0 .. use.losses, dups : 0 .. use.dups,
                      again : BOOLEAN, hurt : BOOLEAN, late : BOOLEAN]
      /\ trouble.losses = 0 /\ use.reenter = {}
  BY <1>1, <1>2 DEF TypeOK, Smooth
<1>4. CASE UNCHANGED <<use, frames, net, hand, arrived, waiting, play, shown, dropped>>
  BY <1>1, <1>4, SmoothSame
<1>5. CASE Send
  BY <1>1, <1>5, SendSmooth
<1>6. CASE Reenter
  BY <1>3, <1>6 DEF Reenter
<1>7. CASE Reply
  <2>1. PICK again, gone : Answers(again, gone)
    BY <1>2, <1>7, ReplyAnswers
  <2>2. /\ trouble' = [trouble EXCEPT !.losses = @ + Cardinality(gone),
                                !.again = @ \/ again # {},
                                !.hurt = @ \/ gone # {}]
        /\ net' = net \cup (again \ gone)
        /\ UNCHANGED <<sender, playing, hand, arrived>>
    BY <2>1 DEF Answers
  <2>3. trouble'.again <=> trouble.again \/ again # {}
    BY <1>3, <2>2
  <2>4. again = {}
    BY <1>1, <2>3 DEF Smooth
  <2> QED BY <1>4, <2>2, <2>4 DEF sender, playing
<1>8. ASSUME NEW r \in nak, LoseRequest(r) PROVE FALSE
  <2>1. trouble' = [trouble EXCEPT !.losses = @ + 1, !.hurt = TRUE]
    BY <1>8 DEF LoseRequest
  <2>2. trouble'.losses = 1
    BY <1>3, <2>1
  <2> QED BY <1>1, <2>2 DEF Smooth
<1>9. CASE \E p \in net : Hear(p)
  BY <1>1, <1>9, HearSmooth
<1>10. CASE \E p \in hand : Keep(p)
  BY <1>10 DEF Keep
<1>11. CASE \E p \in hand : Collect(p)
  BY <1>1, <1>11, CollectSmooth
<1>12. ASSUME NEW w \in waiting, Expire(w) PROVE FALSE
  <2>1. trouble' = [trouble EXCEPT !.late = TRUE]
    BY <1>12 DEF Expire
  <2>2. trouble'.late
    BY <1>3, <2>1
  <2> QED BY <1>1, <2>2 DEF Smooth
<1>13. CASE \E w \in waiting : TakeUntimed(w)
  BY <1>1, <1>13, TakeUntimedSmooth
<1>14. ASSUME NEW w \in waiting, ~Untimed(w)
       PROVE  frames[w.f].ts # 0
  <2>1. SUFFICES ASSUME frames[w.f].ts = 0
                 PROVE  Whole(w)
    BY <1>14 DEF Untimed
  <2>2. w.filled = {0} /\ w.f \in DOMAIN frames
    BY <1>2, <2>1 DEF ClientInv, Collected, Known
  <2>3. frames[w.f].n = 1 /\ 0 .. 1 - 1 = {0}
    BY <1>2, <2>1, <2>2, PlayableFrame
  <2> QED BY <2>2, <2>3 DEF Whole
<1>15. CASE \E w \in waiting : TakeInTurn(w)
  <2>1. PICK w \in waiting : TakeInTurn(w)
    BY <1>15
  <2>2. frames[w.f].ts # 0
    BY <1>14, <2>1 DEF TakeInTurn
  <2> QED BY <1>1, <2>1, <2>2, TakeInTurnSmooth
<1>16. ASSUME NEW w \in waiting, TakeExpired(w) PROVE FALSE
  <2>1. frames[w.f].ts # 0 /\ w.late
    BY <1>14, <1>16 DEF TakeExpired
  <2> QED BY <1>1, <2>1 DEF SmoothInv, Collecting
<1>17. CASE TakeNothing
  BY <1>4, <1>17 DEF TakeNothing, sender, network
<1>18. CASE UNCHANGED vars
  BY <1>4, <1>18 DEF vars, sender, network, playing
<1> QED BY <1>5, <1>6, <1>7, <1>8, <1>9, <1>10, <1>11, <1>12, <1>13, <1>15, <1>16, <1>17, <1>18 DEF Next

-----------------------------------------------------------------------------
(* What the application gets to see. *)

PlayInv ==
  IInv /\ IF use.server THEN waiting = {} /\ shown = <<>>
          ELSE ClientInv /\ (Smooth => SmoothInv)

LEMMA PlayInit ==
  ASSUME Init
  PROVE  PlayInv
<1>1. IInv
  BY InitInv
<1>2. /\ waiting = {} /\ shown = <<>> /\ dropped = {} /\ hand = {} /\ DOMAIN shown = {}
      /\ play = [ts |-> 0, wait |-> None, key |-> FALSE]
  BY DEF Init
<1>3. OneAtATime /\ Collected /\ InOrder /\ OnlyWhole /\ Decodable
  BY <1>2 DEF OneAtATime, Collected, InOrder, OnlyWhole, Decodable
<1>4. Done
  BY <1>2 DEF Done, HandedOver
<1> QED BY <1>1, <1>2, <1>3, <1>4, SmoothInit DEF PlayInv, ClientInv

\* The server collects nothing.
LEMMA ServerShows ==
  ASSUME use.server, waiting = {}, shown = <<>>, [Next]_vars
  PROVE  waiting' = {} /\ shown' = <<>>
<1>1. CASE Send
  <2>1. UNCHANGED playing
    BY <1>1 DEF Send, SendFrame
  <2> QED BY <2>1 DEF playing
<1>2. CASE Reply
  <2>1. UNCHANGED playing
    BY <1>2 DEF Reply, Answer
  <2> QED BY <2>1 DEF playing
<1> QED BY <1>1, <1>2 DEF Next, Reenter, LoseRequest, Hear, Keep, Collect, TakeNothing, vars, playing

LEMMA PlayStep ==
  ASSUME \A u \in Uses : ~u.server => Playable(u), PlayInv, Fresh, [Next]_vars
  PROVE  PlayInv'
<1>1. IInv /\ IInv' /\ use \in Uses /\ use' = use
  <2>1. IInv /\ IInv'
    BY StepInv DEF PlayInv
  <2> QED BY <2>1, SameUse DEF IInv, TypeOK
<1>2. CASE use.server
  BY <1>1, <1>2, ServerShows DEF PlayInv
<1>3. CASE ~use.server
  <2>1. Playable(use) /\ ClientInv /\ (Smooth => SmoothInv)
    BY <1>1, <1>3 DEF PlayInv
  <2> QED BY <1>1, <1>3, <2>1, ClientStep, SmoothStep DEF PlayInv
<1> QED BY <1>2, <1>3

\* All is quiet and every packet has come: a frame that was not shown would
\* be the one in turn, whole, and would have been taken.
LEMMA QuietPlayed ==
  ASSUME IInv, Playable(use), ~use.server, ClientInv, Smooth => SmoothInv
  PROVE  Played
<1>1. SUFFICES ASSUME use.reenter = {}, Quiet, trouble.losses = 0, ~trouble.late, ~trouble.again,
                      NEW f \in DOMAIN frames, NEW i \in DOMAIN shown,
                      shown[i] <= f, frames[shown[i]].ts # 0
               PROVE  Cardinality({k \in DOMAIN shown : shown[k] = f}) = 1
  BY DEF Played
<1>2. TypeOK /\ Known /\ InLine(frames, use) /\ NoBreak /\ Len(frames) <= use.frames
  BY DEF IInv, Known
<1>3. Smooth /\ SmoothInv
  BY <1>1 DEF Smooth
<1>4. OneAtATime /\ Collected /\ Done /\ Arriving /\ Collecting /\ InARow
  BY <1>3 DEF ClientInv, SmoothInv
<1>5. net = {} /\ hand = {} /\ ~taking
  BY <1>1 DEF Quiet
<1>6. /\ play.ts \in Nat
      /\ \A g \in DOMAIN frames : /\ g \in Nat /\ frames[g].ts \in Nat /\ frames[g].n \in Nat
                                  /\ frames[g].n > 0
      /\ \A w \in waiting : w.f \in DOMAIN frames
      /\ shown[i] \in DOMAIN frames
  BY <1>2, WaitingType, FrameType
<1>7. \A g \in DOMAIN frames : \A k \in 0 .. frames[g].n - 1 : <<g, k>> \in arrived \ hand
  BY <1>4, <1>5, SentOf DEF Arriving
<1>8. \A w \in waiting : frames[w.f].ts # 0 /\ (First(w) => ~InTurn(w))
  BY <1>4, <1>5 DEF OneAtATime
<1>9. HandedOver(f)
  <2>1. CASE frames[f].ts = 0
    <3>1. <<f, 0>> \in arrived \ hand
      BY <1>6, <1>7
    <3>2. PICK p \in arrived \ hand : p[1] = f
      BY <3>1
    <3>3. ~Timed(p)
      BY <2>1, <3>2 DEF Timed
    <3>4. HandedOver(f) \/ \E w \in waiting : w.f = f
      BY <1>4, <3>2, <3>3 DEF Collecting
    <3> QED BY <1>8, <2>1, <3>4
  <2>2. CASE frames[f].ts # 0
    <3>1. SUFFICES ASSUME frames[f].ts > play.ts
                   PROVE  FALSE
      BY <1>1, <1>4, <1>6, <2>2 DEF InARow
    <3>2. PICK g \in DOMAIN frames : HandedOver(g) /\ frames[g].ts = play.ts
      BY <1>1, <1>4 DEF InARow
    <3>3. play.ts > 0 /\ frames[g].ts # 0
      <4>1. HandedOver(shown[i])
        BY DEF HandedOver
      <4>2. frames[shown[i]].ts <= play.ts
        BY <1>1, <1>4, <1>6, <4>1 DEF Done
      <4> QED BY <1>1, <1>6, <3>2, <4>2
    <3>4. g < f
      BY <1>2, <1>6, <2>2, <3>1, <3>2, <3>3, TimeIsOnes
    <3>5. PICK s \in DOMAIN frames :
            /\ g < s /\ frames[s].ts # 0
            /\ \A h \in DOMAIN frames : g < h /\ frames[h].ts # 0 => s <= h
            /\ frames[s].first = (frames[g].first + frames[g].n) % NumSeq
      BY <1>1, <1>2, <2>2, <3>3, <3>4, NextFrame
    <3>6. frames[s].ts > play.ts
      <4>1. frames[g].ts < frames[s].ts
        BY <1>2, <3>3, <3>5, TimeIsOnes
      <4> QED BY <1>6, <3>2, <4>1
    <3>7. ASSUME NEW k \in 0 .. frames[s].n - 1
          PROVE  \E w \in waiting : w.f = s /\ k \in w.filled
      <4>1. PICK p \in arrived \ hand : p = <<s, k>>
        BY <1>7
      <4>2. p[1] = s /\ p[2] = k /\ Timed(p)
        BY <3>5, <4>1 DEF Timed
      <4> QED BY <1>4, <3>6, <4>1, <4>2 DEF Collecting
    <3>8. PICK w \in waiting : w.f = s
      <4>1. 0 \in 0 .. frames[s].n - 1
        BY <1>6
      <4> QED BY <3>7, <4>1
    <3>9. Whole(w)
      <4>1. 0 .. frames[s].n - 1 \subseteq w.filled
        <5>1. SUFFICES ASSUME NEW k \in 0 .. frames[s].n - 1
                       PROVE  k \in w.filled
          OBVIOUS
        <5>2. PICK v \in waiting : v.f = s /\ k \in v.filled
          BY <3>7
        <5>3. v = w
          BY <1>4, <3>8, <5>2 DEF Collected
        <5> QED BY <5>2, <5>3
      <4>2. w.filled \subseteq 0 .. frames[s].n - 1
        <5>1. SUFFICES ASSUME NEW k \in w.filled
                       PROVE  k \in 0 .. frames[s].n - 1
          OBVIOUS
        <5>2. <<s, k>> \in Sent
          BY <1>2, <1>4, <3>8 DEF Collected, Known
        <5>3. PICK p \in Sent : p = <<s, k>>
          BY <5>2
        <5>4. p[2] \in 0 .. frames[p[1]].n - 1
          BY <1>2, SentType
        <5> QED BY <5>3, <5>4
      <4> QED BY <3>8, <4>1, <4>2 DEF Whole
    <3>10. First(w)
      <4>1. SUFFICES ASSUME NEW v \in waiting
                     PROVE  frames[w.f].ts <= frames[v.f].ts
        BY DEF First
      <4>2. frames[v.f].ts >= play.ts /\ frames[v.f].ts # 0 /\ v.f \in DOMAIN frames
        BY <1>4, <1>6, <1>8 DEF Collected
      <4>3. frames[v.f].ts # play.ts
        <5>1. SUFFICES ASSUME frames[v.f].ts = play.ts
                       PROVE  FALSE
          OBVIOUS
        <5>2. v.f = g
          BY <1>2, <3>2, <3>3, <4>2, <5>1, TimeIsOnes
        <5> QED BY <1>4, <3>2, <5>2 DEF Collecting
      <4>4. g < v.f
        BY <1>2, <1>6, <3>2, <3>3, <4>2, <4>3, TimeIsOnes
      <4>5. s <= v.f
        BY <3>5, <4>2, <4>4
      <4>6. s = v.f \/ frames[s].ts < frames[v.f].ts
        BY <1>2, <1>6, <3>5, <4>2, <4>5, TimeIsOnes
      <4> QED BY <1>6, <3>8, <4>2, <4>6
    <3>11. InTurn(w)
      <4>1. w.first = frames[s].first
        BY <1>4, <3>5, <3>8 DEF Collected
      <4>2. play.wait = (frames[g].first + frames[g].n) % NumSeq
        BY <1>4, <3>2, <3>3 DEF Done
      <4> QED BY <3>5, <3>9, <4>1, <4>2 DEF InTurn
    <3> QED BY <1>8, <3>10, <3>11
  <2> QED BY <2>1, <2>2
<1>10. PICK k \in DOMAIN shown : shown[k] = f
  BY <1>9 DEF HandedOver
<1>11. {j \in DOMAIN shown : shown[j] = f} = {k}
  BY <1>4, <1>10 DEF InARow
<1> QED BY <1>11, FS_Singleton

\* A client hands the frames over in order, only whole ones, no delta frame
\* after one that was given up until a key frame came, and every frame from
\* the first one once if nothing was lost, late or doubled: whatever overtakes
\* what, as long as no packet comes that is older by Stale than what is shown.
THEOREM StreamPlays ==
  ASSUME \A u \in Uses : ~u.server => Playable(u)
  PROVE  Spec /\ []Fresh => []Playback
<1>1. PlayInv /\ Fresh /\ [Next]_vars => PlayInv'
  BY PlayStep
<1>2. PlayInv => Playback
  <2>1. SUFFICES ASSUME PlayInv
                 PROVE  InOrder /\ OnlyWhole /\ Decodable /\ Played
    BY DEF Playback
  <2>2. CASE use.server
    <3>1. shown = <<>> /\ DOMAIN shown = {}
      BY <2>1, <2>2 DEF PlayInv
    <3> QED BY <2>2, <3>1 DEF InOrder, OnlyWhole, Decodable, Played
  <2>3. CASE ~use.server
    <3>1. IInv /\ ClientInv /\ (Smooth => SmoothInv) /\ use \in Uses
      BY <2>1, <2>3 DEF PlayInv, IInv, TypeOK
    <3>2. Played
      BY <2>3, <3>1, QuietPlayed
    <3> QED BY <3>1, <3>2 DEF ClientInv
  <2> QED BY <2>2, <2>3
<1> QED BY <1>1, <1>2, PlayInit, PTL DEF Spec

-----------------------------------------------------------------------------
(* A stream that goes on without pauses. *)

\* No frame has more than r packets and none comes r packets late.
Within(u, r) == Ring <= r /\ u.late < r /\ u.sizes \subseteq 1 .. r

\* Frames follow each other within d, and r of them take less than Stale.
Goes(u, r, d) == Within(u, r) /\ u.steps \subseteq 1 .. d /\ d * (r - 1) < Stale

Prompt(u) == \E r, d \in Nat : Goes(u, r, d)

\* What may still come is one of the sender's last packets; what its ring
\* holds, one of the last Ring.
Recent(r) ==
  /\ \A p \in net \cup hand : Timed(p) => Age(p) < r
  /\ \A s \in 0 .. Ring - 1 : ring[s] # NoPacket =>
       /\ Timed(ring[s]) /\ SeqNo(ring[s]) % Ring = s
       /\ Age(ring[s]) \in 0 .. Ring - 1 /\ On(cur, SeqNo(ring[s]), Age(ring[s]))

\* The clock goes on by no more than d for each later packet.
Paced(d) ==
  \A f \in DOMAIN frames : frames[f].ts # 0 =>
    Clock - frames[f].ts <= d * (Total - EndOf(frames[f]))

PromptInv ==
  /\ IInv
  /\ IF use.server THEN waiting = {} /\ play.ts = 0 ELSE play.ts <= Clock
  /\ ~use.server => \A r, d \in Nat : Goes(use, r, d) => Recent(r) /\ Paced(d)

LEMMA Times ==
  ASSUME NEW d \in Nat, NEW x \in Int, NEW y \in Int, x <= y
  PROVE  d * x \in Int /\ d * y \in Int /\ d * x <= d * y
<1>1. d * y = d * x + d * (y - x)
  BY Z3
<1>2. d * (y - x) >= 0
  BY y - x >= 0, Z3
<1>3. d * x \in Int /\ d * y \in Int /\ d * (y - x) \in Int
  BY y - x \in Int
<1> QED BY <1>1, <1>2, <1>3

\* A frame that is sent moves the clock by one of the steps, an untimed one
\* not at all.
LEMMA SendClock ==
  ASSUME IInv, NEW d \in Nat, use.steps \subseteq 1 .. d, Send
  PROVE  Clock' <= Clock + d /\ (Total' = Total => Clock' = Clock)
<1>1. PICK kind \in use.kinds, n \in use.sizes \cup use.messages, step \in use.steps,
           exact \in {FALSE, use.exact} :
             /\ n \in (IF kind = "untimed" THEN use.messages ELSE use.sizes)
             /\ \E gone \in SUBSET (0 .. n - 1) : SendFrame(kind, n, step, exact, gone)
  BY DEF Send
<1>2. PICK gone \in SUBSET (0 .. n - 1) : SendFrame(kind, n, step, exact, gone)
  BY <1>1
<1>3. PICK fr : fr = NewFrame(kind, n, step, exact)
  OBVIOUS
<1>4. TypeOK /\ InLine(frames, use)
  BY DEF IInv
<1>5. Adds(fr)
  BY <1>1, <1>2, <1>3, <1>4, SendAdds
<1>6. Clock' = fr.at /\ Total' = EndOf(fr)
  BY <1>4, <1>5, AddsInLine
<1>7. fr.at \in {Clock, Clock + step} /\ step \in 1 .. d /\ Clock \in Nat
  BY <1>1, <1>3, <1>4, ClockType DEF NewFrame
<1>8. Total' = Total => fr.ts = 0
  <2>1. fr.base = Total /\ Total \in Nat /\ fr.n \in Nat /\ fr.n > 0
    BY <1>4, <1>5, ClockType DEF Adds, Frame
  <2> QED BY <1>6, <2>1 DEF EndOf
<1>9. fr.ts = 0 => fr.at = Clock
  BY <1>3, <1>7 DEF NewFrame
<1> QED BY <1>6, <1>7, <1>8, <1>9

LEMMA SendRecent ==
  ASSUME IInv, NEW r \in Nat, Within(use, r), Recent(r), Send
  PROVE  Recent(r)'
<1>1. TypeOK /\ Known /\ InLine(frames, use) /\ Len(frames) <= use.frames
  BY DEF IInv, Known
<1>2. PICK fr, gone : Sends(fr, gone)
  BY <1>1, SendSends
<1>3. PICK l : l = Len(frames) + 1
  OBVIOUS
<1>4. Adds(fr) /\ fr \in Frame /\ fr.n \in Nat /\ fr.n > 0 /\ fr.ts \in Nat
  BY <1>2 DEF Sends, Adds, Frame
<1>5. /\ Total' = EndOf(fr) /\ Total \in Nat /\ fr.base = Total
      /\ use.late \in Nat /\ use.late < r /\ Ring <= r /\ Ring \in Nat
  BY <1>1, <1>4, AddsInLine, ClockType, UseType, Constants DEF Adds, Within
<1>6. /\ Sent' = Sent \cup New(fr.n)
      /\ \A p \in Sent : SeqNo(p)' = SeqNo(p) /\ SentUpTo(p)' = SentUpTo(p) /\ Timed(p)' = Timed(p)
      /\ \A i \in 0 .. fr.n - 1 :
           /\ SeqNo(<<l, i>>)' = (IF fr.ts = 0 THEN 0 ELSE (fr.first + i) % NumSeq)
           /\ SentUpTo(<<l, i>>)' = Total + i /\ Timed(<<l, i>>)' = (fr.ts # 0)
  BY <1>1, <1>3, <1>4, AddsPackets
<1>7. /\ \A p \in net \cup hand : Total + fr.n - 1 - SentUpTo(p) <= use.late
      /\ net' \subseteq net \cup New(fr.n) /\ hand' = hand
      /\ fr.ts = 0 => ring' = ring
      /\ fr.ts # 0 => \A s \in 0 .. Ring - 1 : RingAfter(fr, s)
  BY <1>2 DEF Sends
<1>8. New(fr.n) = {<<l, i>> : i \in 0 .. fr.n - 1}
  BY <1>3 DEF New
<1>9. /\ net \cup hand \subseteq Sent
      /\ \A s \in 0 .. Ring - 1 : ring[s] \in Sent \cup {NoPacket}
  BY <1>1 DEF Known
<1>10. \A p \in Sent : SeqNo(p) \in Int /\ SentUpTo(p) \in Nat
  BY <1>1, SentType DEF Number
<1>11. ASSUME NEW p \in net \cup hand, Timed(p)'
       PROVE  Age(p)' < r
  <2>1. Age(p)' = Total' - 1 - SentUpTo(p) /\ SentUpTo(p) \in Nat
    BY <1>6, <1>9, <1>10 DEF Age
  <2>2. Total' <= Total + fr.n /\ Total' \in Nat
    BY <1>4, <1>5 DEF EndOf
  <2>3. Total + fr.n - 1 - SentUpTo(p) <= use.late
    BY <1>7
  <2> QED BY <1>4, <1>5, <2>1, <2>2, <2>3
<1>12. CASE fr.ts = 0
  <2>1. Total' = Total /\ cur' = cur /\ ring' = ring
    BY <1>4, <1>5, <1>7, <1>12 DEF EndOf, Adds
  <2>2. \A p \in New(fr.n) : ~Timed(p)'
    BY <1>6, <1>8, <1>12
  <2>3. \A p \in net' \cup hand' : Timed(p)' => Age(p)' < r
    BY <1>7, <1>11, <2>2
  <2>4. \A p \in Sent : Age(p)' = Age(p)
    BY <1>6, <2>1 DEF Age
  <2>5. ASSUME NEW s \in 0 .. Ring - 1, ring'[s] # NoPacket
        PROVE  /\ Timed(ring[s])' /\ SeqNo(ring[s])' % Ring = s
               /\ Age(ring[s])' \in 0 .. Ring - 1 /\ On(cur', SeqNo(ring[s])', Age(ring[s])')
    <3>1. PICK p : p = ring[s]
      OBVIOUS
    <3>2. p \in Sent /\ p = ring'[s]
      BY <1>9, <2>1, <2>5, <3>1
    <3>3. Timed(p)' /\ SeqNo(p)' % Ring = s /\ Age(p)' \in 0 .. Ring - 1 /\ On(cur', SeqNo(p)', Age(p)')
      <4>1. /\ Timed(p) /\ SeqNo(p) % Ring = s
            /\ Age(p) \in 0 .. Ring - 1 /\ On(cur, SeqNo(p), Age(p))
        BY <2>1, <2>5, <3>1 DEF Recent
      <4> QED BY <1>6, <2>1, <2>4, <3>2, <4>1
    <3> QED BY <3>2, <3>3 DEF Timed, SeqNo, Age, SentUpTo
  <2> QED BY <2>3, <2>5 DEF Recent
<1>13. CASE fr.ts # 0
  <2>1. /\ On(fr.first, cur, 1) /\ On(cur', cur, fr.n)
        /\ Total' = Total + fr.n /\ cur \in Int
    BY <1>1, <1>4, <1>5, <1>13 DEF Adds, On, TypeOK, Number, EndOf
  <2>2. ASSUME NEW i \in 0 .. fr.n - 1, NEW p, p = <<l, i>>
        PROVE  /\ Timed(p)' /\ Age(p)' = fr.n - 1 - i /\ On(cur', SeqNo(p)', Age(p)')
               /\ SeqNo(p)' = (fr.first + i) % NumSeq
    <3>1. Timed(p)' /\ SeqNo(p)' = (fr.first + i) % NumSeq /\ SentUpTo(p)' = Total + i
      BY <1>6, <1>13, <2>2
    <3>2. Age(p)' = fr.n - 1 - i
      <4>1. Age(p)' = Total' - 1 - SentUpTo(p)'
        BY DEF Age
      <4> QED BY <1>4, <1>5, <2>1, <3>1, <4>1
    <3>3. PICK y : y = (fr.first + i) % NumSeq
      OBVIOUS
    <3>4. PICK k : k = fr.n - 1 - i
      OBVIOUS
    <3>5. PICK e : e = fr.n - 1
      OBVIOUS
    <3>6. /\ k \in Int /\ i \in Int /\ e \in Int /\ 1 \in Int
          /\ i + k = e /\ 1 + e = fr.n
      BY <1>4, <3>4, <3>5
    <3>7. y \in Int /\ fr.first \in Int
      <4>1. fr.first \in Int
        BY <1>4 DEF Frame, Number
      <4>2. fr.first + i \in Int
        BY <3>6, <4>1
      <4> QED BY <3>3, <4>1, <4>2, NumberMod DEF Number
    <3>8. PICK c : c = (y + k) % NumSeq
      OBVIOUS
    <3>9. On(y, fr.first, i) /\ On(c, y, k)
      BY <3>3, <3>8 DEF On
    <3>10. On(c, fr.first, i + k)
      BY <3>6, <3>7, <3>9, OnOn
    <3>11. On(c, cur, 1 + e)
      BY <2>1, <3>6, <3>10, OnOn
    <3>12. c = cur'
      BY <2>1, <3>6, <3>11 DEF On
    <3> QED BY <3>1, <3>2, <3>3, <3>4, <3>9, <3>12
  <2>3. ASSUME NEW p \in net' \cup hand', Timed(p)'
        PROVE  Age(p)' < r
    <3>1. CASE p \in net \cup hand
      BY <1>11, <2>3, <3>1
    <3>2. CASE p \in New(fr.n)
      <4>1. PICK i \in 0 .. fr.n - 1 : p = <<l, i>>
        BY <1>8, <3>2
      <4>2. fr.n <= r
        <5>1. fr.n \in use.sizes
          BY <1>4, <1>13 DEF Adds, Described
        <5> QED BY <5>1 DEF Within
      <4>3. Age(p)' = fr.n - 1 - i
        BY <2>2, <4>1
      <4> QED BY <1>4, <4>2, <4>3
    <3> QED BY <1>7, <2>3, <3>1, <3>2
  <2>4. ASSUME NEW s \in 0 .. Ring - 1, ring'[s] # NoPacket
        PROVE  /\ Timed(ring[s])' /\ SeqNo(ring[s])' % Ring = s
               /\ Age(ring[s])' \in 0 .. Ring - 1 /\ On(cur', SeqNo(ring[s])', Age(ring[s])')
    <3>1. PICK p : p = ring'[s]
      OBVIOUS
    <3>2. CASE Slots(fr, s) = {}
      <4>1. p = ring[s] /\ p \in Sent
        BY <1>7, <1>9, <1>13, <2>4, <3>1, <3>2 DEF RingAfter
      <4>2. PICK x, a : x = SeqNo(p) /\ a = Age(p)
        OBVIOUS
      <4>3. Timed(p) /\ x % Ring = s /\ a \in 0 .. Ring - 1 /\ On(cur, x, a)
        BY <2>4, <3>1, <4>1, <4>2 DEF Recent
      <4>4. \A i \in 0 .. fr.n - 1 : ((fr.first + i) % NumSeq) % Ring # x % Ring
        BY <3>2, <4>3 DEF Slots, Slot
      <4>5. x \in Int /\ a \in Int /\ fr.n \in Int
        BY <1>4, <1>10, <4>1, <4>2, <4>3
      <4>6. a + fr.n < Ring
        BY <1>4, <2>1, <4>3, <4>4, <4>5, StaysInRing
      <4>7. On(cur', x, a + fr.n)
        BY <2>1, <4>3, <4>5, OnOn
      <4>8. Age(p)' = a + fr.n
        <5>1. Age(p)' = Total' - 1 - SentUpTo(p)' /\ a = Total - 1 - SentUpTo(p)
          BY <4>2 DEF Age
        <5> QED BY <1>4, <1>5, <1>6, <1>10, <2>1, <4>1, <5>1
      <4>9. /\ Timed(p)' /\ SeqNo(p)' % Ring = s
            /\ Age(p)' \in 0 .. Ring - 1 /\ On(cur', SeqNo(p)', Age(p)')
        <5>1. SeqNo(p)' = x /\ Timed(p)'
          BY <1>6, <4>1, <4>2, <4>3
        <5>2. a + fr.n \in 0 .. Ring - 1
          BY <1>4, <1>5, <4>3, <4>6
        <5> QED BY <4>3, <4>7, <4>8, <5>1, <5>2
      <4> QED BY <3>1, <4>9 DEF Timed, SeqNo, Age, SentUpTo
    <3>3. CASE Slots(fr, s) # {}
      <4>1. PICK i \in Slots(fr, s) : p = <<l, i>> /\ \A j \in Slots(fr, s) : j <= i
        BY <1>3, <1>7, <1>13, <3>1, <3>3 DEF RingAfter
      <4>2. i \in 0 .. fr.n - 1 /\ ((fr.first + i) % NumSeq) % Ring = s
        BY DEF Slots, Slot
      <4>3. /\ Timed(p)' /\ Age(p)' = fr.n - 1 - i /\ On(cur', SeqNo(p)', Age(p)')
            /\ SeqNo(p)' = (fr.first + i) % NumSeq
        BY <2>2, <4>1, <4>2
      <4>4. fr.n - 1 - i < Ring
        <5>1. SUFFICES ASSUME i + Ring <= fr.n - 1
                       PROVE  FALSE
          BY <1>4, <1>5, <4>2
        <5>2. PICK j : j = i + Ring
          OBVIOUS
        <5>3. j \in 0 .. fr.n - 1 /\ j > i
          BY <1>4, <4>2, <5>1, <5>2, Constants
        <5>4. PICK x : x = fr.first + i
          OBVIOUS
        <5>5. x \in Int /\ fr.first + j = x + Ring * 1
          <6>1. fr.first \in Int /\ i \in Int /\ Ring \in Nat
            BY <1>4, <4>2, Constants DEF Frame, Number
          <6> QED BY <5>2, <5>4, <6>1
        <5>6. (x + Ring * 1) % Ring = x % Ring
          <6>1. Ring \in Nat \ {0} /\ 1 \in Int
            BY Constants
          <6> QED BY <5>5, <6>1, Multiple, Zenon
        <5>7. PICK z : z = x + Ring * 1
          OBVIOUS
        <5>8. z \in Int
          BY <5>5, <5>7, Constants
        <5>9. NumSeq \in Nat \ {0} /\ Ring \in Nat \ {0} /\ NumSeq % Ring = 0
          BY Constants
        <5>10. (x % NumSeq) % Ring = x % Ring /\ (z % NumSeq) % Ring = z % Ring
          BY <5>5, <5>8, <5>9, ModMod
        <5>11. ((fr.first + j) % NumSeq) % Ring = s
          BY <4>2, <5>4, <5>5, <5>6, <5>7, <5>10
        <5>12. j \in Slots(fr, s)
          BY <5>3, <5>11 DEF Slots, Slot
        <5> QED BY <4>1, <4>2, <5>3, <5>12
      <4>5. Age(p)' \in 0 .. Ring - 1
        BY <1>4, <1>5, <4>2, <4>3, <4>4
      <4>6. SeqNo(p)' % Ring = s
        BY <4>2, <4>3
      <4> QED BY <3>1, <4>3, <4>5, <4>6 DEF Timed, SeqNo, Age, SentUpTo
    <3> QED BY <3>2, <3>3
  <2> QED BY <2>3, <2>4 DEF Recent
<1> QED BY <1>12, <1>13

LEMMA SendPaced ==
  ASSUME IInv, NEW r \in Nat, NEW d \in Nat, Goes(use, r, d), Paced(d), Send
  PROVE  Paced(d)'
<1>1. TypeOK /\ InLine(frames, use) /\ Len(frames) <= use.frames
  BY DEF IInv, Known
<1>2. PICK fr, gone : Sends(fr, gone)
  BY <1>1, SendSends
<1>3. PICK l : l = Len(frames) + 1
  OBVIOUS
<1>4. Adds(fr) /\ fr.n \in Nat /\ fr.n > 0 /\ fr.ts \in Nat /\ fr.at \in Nat
  BY <1>2 DEF Sends, Adds, Frame
<1>5. /\ Total' = EndOf(fr) /\ Clock' = fr.at /\ Total \in Nat /\ Clock \in Nat /\ fr.base = Total
      /\ (fr.ts # 0 => fr.ts = fr.at)
  BY <1>1, <1>4, AddsInLine, ClockType DEF Adds, Described
<1>6. /\ DOMAIN frames' = DOMAIN frames \cup {l} /\ frames'[l] = fr
      /\ \A f \in DOMAIN frames : frames'[f] = frames[f]
  BY <1>1, <1>3, <1>4, AddsKeeps
<1>7. Clock' <= Clock + d
  BY SendClock DEF Goes
<1>8. ASSUME NEW f \in DOMAIN frames, frames[f].ts # 0
      PROVE  Clock' - frames[f].ts <= d * (Total' - EndOf(frames[f]))
  <2>1. PICK t, x : t = frames[f].ts /\ x = Total - EndOf(frames[f])
    OBVIOUS
  <2>2. t \in Nat /\ x \in Int /\ Clock - t <= d * x /\ EndOf(frames[f]) \in Nat
    <3>1. frames[f].ts \in Nat /\ EndOf(frames[f]) \in Nat
      BY <1>1, FrameType, LastFrame
    <3>2. Clock - t <= d * x
      BY <1>8, <2>1 DEF Paced
    <3> QED BY <1>5, <2>1, <3>1, <3>2
  <2>3. CASE fr.ts = 0
    <3>1. Total' = Total
      BY <1>5, <2>3 DEF EndOf
    <3>2. Clock' = Clock
      BY <3>1, SendClock DEF Goes
    <3> QED BY <2>1, <2>2, <3>1, <3>2
  <2>4. CASE fr.ts # 0
    <3>1. PICK y : y = Total' - EndOf(frames[f])
      OBVIOUS
    <3>2. y \in Int /\ x + 1 <= y /\ x + 1 \in Int
      BY <1>4, <1>5, <2>1, <2>2, <2>4, <3>1 DEF EndOf
    <3>3. d * (x + 1) <= d * y /\ d * y \in Int /\ d * (x + 1) \in Int /\ d * x \in Int
      BY <2>2, <3>2, Times
    <3>4. d * (x + 1) = d * x + d
      BY <2>2, Z3
    <3>5. Clock' - t <= d * y
      BY <1>4, <1>5, <1>7, <2>2, <3>3, <3>4
    <3> QED BY <2>1, <3>1, <3>5
  <2> QED BY <2>3, <2>4
<1>9. fr.ts # 0 => Clock' - fr.ts <= d * (Total' - EndOf(fr))
  <2>1. d * 0 = 0
    BY Z3
  <2>2. EndOf(fr) \in Nat
    BY <1>4, <1>5 DEF EndOf
  <2>3. Total' - EndOf(fr) = 0
    BY <1>5, <2>2
  <2> QED BY <1>4, <1>5, <2>1, <2>3
<1> QED BY <1>6, <1>8, <1>9 DEF Paced, EndOf

\* Steps of the sender and the network that send no frame.
LEMMA StillRecent ==
  ASSUME IInv, NEW r \in Nat, Within(use, r), Recent(r),
         UNCHANGED frames,
         \/ UNCHANGED <<cur, ring>>
         \/ ring' = [s \in 0 .. Ring - 1 |-> NoPacket],
         net' \cup hand' \subseteq Pending
  PROVE  Recent(r)'
<1>1. /\ Total' = Total
      /\ \A p : SeqNo(p)' = SeqNo(p) /\ SentUpTo(p)' = SentUpTo(p) /\ Timed(p)' = Timed(p)
  BY SentSame
<1>2. \A p : Age(p)' = Age(p)
  BY <1>1 DEF Age
<1>3. Ring <= r /\ Ring \in Nat /\ Ring > 0
  BY Constants DEF Within
<1>4. ASSUME NEW p \in net' \cup hand', Timed(p)'
      PROVE  Age(p)' < r
  <2>1. CASE p \in net \cup hand
    BY <1>1, <1>2, <1>4, <2>1 DEF Recent
  <2>2. CASE \E s \in 0 .. Ring - 1 : p = ring[s] /\ p # NoPacket
    <3>1. Age(p) \in 0 .. Ring - 1
      BY <2>2 DEF Recent
    <3> QED BY <1>2, <1>3, <3>1
  <2> QED BY <1>4, <2>1, <2>2 DEF Pending
<1>5. ASSUME NEW s \in 0 .. Ring - 1, ring'[s] # NoPacket
      PROVE  /\ Timed(ring[s])' /\ SeqNo(ring[s])' % Ring = s
             /\ Age(ring[s])' \in 0 .. Ring - 1 /\ On(cur', SeqNo(ring[s])', Age(ring[s])')
  <2>1. cur' = cur /\ ring' = ring
    BY <1>5
  <2>2. PICK p : p = ring[s]
    OBVIOUS
  <2>3. /\ Timed(p) /\ SeqNo(p) % Ring = s
        /\ Age(p) \in 0 .. Ring - 1 /\ On(cur, SeqNo(p), Age(p))
    BY <1>5, <2>1, <2>2 DEF Recent
  <2>4. /\ Timed(p)' /\ SeqNo(p)' % Ring = s
        /\ Age(p)' \in 0 .. Ring - 1 /\ On(cur', SeqNo(p)', Age(p)')
    BY <1>1, <1>2, <2>1, <2>3
  <2> QED BY <2>1, <2>2, <2>4 DEF Timed, SeqNo, Age, SentUpTo
<1> QED BY <1>4, <1>5 DEF Recent

\* Only sending changes the frames.
LEMMA SendsOnly ==
  ASSUME [Next]_vars
  PROVE  Send \/ frames' = frames
<1>1. Reply => frames' = frames
  BY DEF Reply, Answer, sender
<1>2. Reenter \/ TakeNothing \/ UNCHANGED vars => frames' = frames
  BY DEF Reenter, TakeNothing, vars, sender
<1>3. \A x : LoseRequest(x) \/ Hear(x) \/ Keep(x) \/ Collect(x) \/ Expire(x) => frames' = frames
  BY DEF LoseRequest, Hear, Keep, Collect, Expire, sender
<1>4. \A w : TakeUntimed(w) \/ TakeInTurn(w) \/ TakeExpired(w) => frames' = frames
  BY DEF TakeUntimed, TakeInTurn, TakeExpired, Take, sender
<1> QED BY <1>1, <1>2, <1>3, <1>4 DEF Next

LEMMA RecentStep ==
  ASSUME IInv, NEW r \in Nat, Within(use, r), Recent(r), [Next]_vars
  PROVE  Recent(r)'
<1>1. TypeOK /\ Known /\ Len(frames) <= use.frames
  BY DEF IInv, Known
<1>2. CASE Send
  BY <1>2, SendRecent
<1>3. net \cup hand \subseteq Pending
  BY <1>1, SentType DEF Known, Pending
<1>4. CASE Reenter
  <2>1. /\ frames' = frames /\ net' = net /\ hand' = hand
        /\ ring' = [s \in 0 .. Ring - 1 |-> NoPacket]
    BY <1>4 DEF Reenter, network
  <2> QED BY <1>3, <2>1, StillRecent
<1>5. CASE Reply
  <2>1. PICK again, gone : Answers(again, gone)
    BY <1>1, <1>5, ReplyAnswers
  <2>2. /\ UNCHANGED <<frames, cur, ring>> /\ hand' = hand
        /\ net' \subseteq net \cup ({ring[s] : s \in 0 .. Ring - 1} \ {NoPacket})
    BY <2>1 DEF Answers, sender
  <2>3. net' \cup hand' \subseteq Pending
    BY <1>3, <2>2 DEF Pending
  <2> QED BY <2>2, <2>3, StillRecent
<1>6. CASE (\E k \in nak : LoseRequest(k)) \/ (\E p \in net : Hear(p)) \/ (\E p \in hand : Keep(p))
           \/ (\E p \in hand : Collect(p)) \/ (\E w \in waiting : Expire(w))
           \/ (\E w \in waiting : TakeUntimed(w) \/ TakeInTurn(w) \/ TakeExpired(w))
           \/ TakeNothing \/ UNCHANGED vars
  <2> DEFINE still == UNCHANGED <<frames, cur, ring>> /\ net' \cup hand' \subseteq net \cup hand
  <2>1. \A k \in nak : LoseRequest(k) => still
    BY DEF LoseRequest, sender
  <2>2. \A p \in net : Hear(p) => still
    <3>1. SUFFICES ASSUME NEW p \in net, Hear(p)
                   PROVE  still
      OBVIOUS
    <3>2. UNCHANGED sender /\ hand' = hand \cup {p} /\ (net' = net \ {p} \/ net' = net)
      BY <3>1 DEF Hear
    <3> QED BY <3>2 DEF sender
  <2>3. \A p \in hand : Keep(p) \/ Collect(p) => still
    BY DEF Keep, Collect, sender, network
  <2>4. \A w \in waiting : Expire(w) => still
    BY DEF Expire, sender
  <2>5. \A w \in waiting : TakeUntimed(w) \/ TakeInTurn(w) \/ TakeExpired(w) => still
    BY DEF TakeUntimed, TakeInTurn, TakeExpired, Take, sender, network
  <2>6. TakeNothing \/ UNCHANGED vars => still
    BY DEF TakeNothing, vars, sender, network
  <2>7. still
    BY <1>6, <2>1, <2>2, <2>3, <2>4, <2>5, <2>6
  <2> QED BY <1>3, <2>7, StillRecent
<1> QED BY <1>2, <1>4, <1>5, <1>6 DEF Next

\* What a client shows was sent.
LEMMA ShowsSent ==
  ASSUME IInv, ~use.server, play.ts <= Clock, [Next]_vars
  PROVE  play'.ts <= Clock'
<1>1. TypeOK /\ Known /\ InLine(frames, use) /\ Len(frames) <= use.frames
  BY DEF IInv, Known
<1>2. /\ Clock \in Nat /\ play.ts \in Nat
      /\ play \in [ts : Nat, wait : Number \cup {None}, key : BOOLEAN]
      /\ \A f \in DOMAIN frames : frames[f].ts <= Clock /\ frames[f].ts \in Nat
  <2>1. ASSUME NEW f \in DOMAIN frames
        PROVE  frames[f].ts <= Clock /\ frames[f].ts \in Nat
    <3>1. frames[f].ts = 0 \/ frames[f].ts = frames[f].at
      BY <1>1 DEF InLine, Described
    <3> QED BY <1>1, <3>1, LastFrame, ClockType, FrameType
  <2> QED BY <1>1, <2>1, ClockType DEF TypeOK
<1>3. CASE Send
  <2>1. PICK fr, gone : Sends(fr, gone)
    BY <1>1, <1>3, SendSends
  <2>2. Clock' >= Clock /\ Clock' \in Nat /\ play' = play
    <3>1. Adds(fr) /\ play' = play
      BY <2>1 DEF Sends, playing
    <3> QED BY <1>1, <3>1, AddsInLine DEF Adds, Frame
  <2> QED BY <1>2, <2>2
<1>4. ASSUME frames' = frames, play' = play
      PROVE  play'.ts <= Clock'
  BY <1>4, SentSame
<1>5. CASE Reenter \/ Reply \/ (\E r \in nak : LoseRequest(r)) \/ (\E p \in net : Hear(p))
           \/ (\E p \in hand : Keep(p)) \/ TakeNothing \/ (\E w \in waiting : Expire(w)) \/ UNCHANGED vars
  <2>1. Reply => frames' = frames /\ play' = play
    BY DEF Reply, Answer, sender, playing
  <2>2. Reenter \/ TakeNothing \/ UNCHANGED vars => frames' = frames /\ play' = play
    BY DEF Reenter, TakeNothing, vars, sender, playing
  <2>3. \A k \in nak : LoseRequest(k) => frames' = frames /\ play' = play
    BY DEF LoseRequest, sender, playing
  <2>4. \A p : Hear(p) \/ Keep(p) \/ Expire(p) => frames' = frames /\ play' = play
    BY DEF Hear, Keep, Expire, sender, playing
  <2> QED BY <1>4, <1>5, <2>1, <2>2, <2>3, <2>4
<1>6. ASSUME NEW p \in hand, Collect(p)
      PROVE  play'.ts <= Clock'
  <2>1. p[1] \in DOMAIN frames
    BY <1>1, SentType DEF Known
  <2>2. /\ frames' = frames
        /\ \/ play' = play
           \/ play'.ts = frames[p[1]].ts - 1
    <3>1. frames' = frames
      BY <1>6 DEF Collect, sender
    <3> DEFINE old == frames[p[1]].ts < play.ts /\ frames[p[1]].ts > 0 /\ play.ts - frames[p[1]].ts < Stale
               some == frames[p[1]].ts > 0 /\ play.ts = 0
    <3>2. IF old THEN play' = play
          ELSE play' = IF some
                       THEN [play EXCEPT !.ts = frames[p[1]].ts - 1, !.wait = (SeqNo(p) - p[2]) % NumSeq]
                       ELSE play
      BY <1>6 DEF Collect
    <3> HIDE DEF old, some
    <3>3. CASE play' = play
      BY <3>1, <3>3
    <3>4. CASE play' = [play EXCEPT !.ts = frames[p[1]].ts - 1, !.wait = (SeqNo(p) - p[2]) % NumSeq]
      BY <1>2, <3>1, <3>4
    <3> QED BY <3>2, <3>3, <3>4
  <2>3. Clock' = Clock
    BY <2>2, SentSame
  <2> QED BY <1>2, <2>1, <2>2, <2>3
<1>7. ASSUME NEW w \in waiting, TakeUntimed(w) \/ TakeInTurn(w) \/ TakeExpired(w)
      PROVE  play'.ts <= Clock'
  <2>1. Takes(w) /\ w.f \in DOMAIN frames
    BY <1>1, <1>7, TakesOne DEF Known
  <2>2. frames' = frames /\ (play' = play \/ play'.ts = frames[w.f].ts)
    BY <2>1 DEF Takes, Take, sender
  <2>3. Clock' = Clock
    BY <2>2, SentSame
  <2> QED BY <1>2, <2>1, <2>2, <2>3
<1> QED BY <1>3, <1>5, <1>6, <1>7 DEF Next

LEMMA PromptInit ==
  ASSUME Init
  PROVE  PromptInv
<1>1. /\ waiting = {} /\ play.ts = 0 /\ net = {} /\ hand = {} /\ frames = <<>> /\ DOMAIN frames = {}
      /\ ring = [s \in 0 .. Ring - 1 |-> NoPacket]
  BY DEF Init
<1>2. Clock = 1
  BY <1>1 DEF Clock
<1>3. \A r, d \in Nat : Recent(r) /\ Paced(d)
  BY <1>1 DEF Recent, Paced
<1> QED BY <1>1, <1>2, <1>3, InitInv DEF PromptInv

LEMMA PromptStep ==
  ASSUME PromptInv, [Next]_vars
  PROVE  PromptInv'
<1>1. IInv /\ IInv' /\ TypeOK /\ Known
  BY StepInv DEF PromptInv, IInv
<1>2. use' = use
  BY SameUse
<1>3. CASE use.server
  <2>1. waiting = {} /\ play.ts = 0
    BY <1>3 DEF PromptInv
  <2>2. Send => UNCHANGED playing
    BY DEF Send, SendFrame
  <2>3. Reply => UNCHANGED playing
    BY DEF Reply, Answer
  <2>4. waiting' = {} /\ play' = play
    BY <1>3, <2>1, <2>2, <2>3 DEF Next, Reenter, LoseRequest, Hear, Keep, Collect, TakeNothing, vars, playing
  <2> QED BY <1>1, <1>2, <1>3, <2>1, <2>4 DEF PromptInv
<1>4. CASE ~use.server
  <2>1. play'.ts <= Clock'
    BY <1>1, <1>4, ShowsSent DEF PromptInv
  <2>2. SUFFICES ASSUME NEW r \in Nat, NEW d \in Nat, Goes(use, r, d), Recent(r), Paced(d)
                 PROVE  Recent(r)' /\ Paced(d)'
    BY <1>1, <1>2, <1>4, <2>1 DEF PromptInv
  <2>3. Recent(r)'
    BY <1>1, <2>2, RecentStep DEF Goes
  <2>4. Paced(d)'
    <3>1. CASE frames' = frames
      <4>1. Clock' = Clock /\ Total' = Total
        BY <3>1, SentSame
      <4> QED BY <2>2, <3>1, <4>1 DEF Paced
    <3>2. CASE Send
      BY <1>1, <2>2, <3>2, SendPaced
    <3> QED BY <3>1, <3>2, SendsOnly
  <2> QED BY <2>3, <2>4
<1> QED BY <1>3, <1>4

\* No packet of such a stream is too old to be known as old.
LEMMA PromptFresh ==
  ASSUME \A u \in Uses : ~u.server => Prompt(u), PromptInv
  PROVE  Fresh
<1>1. TypeOK /\ Known /\ InLine(frames, use) /\ use \in Uses /\ Stale \in Nat /\ Stale > 0
  <2>1. Stale \in Nat /\ Stale > 0
    BY RtpStreamAssumption
  <2>2. IInv
    BY DEF PromptInv
  <2>3. TypeOK /\ Known /\ InLine(frames, use)
    BY <2>2 DEF IInv
  <2> QED BY <2>1, <2>3 DEF TypeOK
<1>2. SUFFICES ASSUME NEW p \in hand, Timed(p)
               PROVE  play.ts - frames[p[1]].ts < Stale
  BY DEF Fresh
<1>3. /\ p \in Sent /\ p[1] \in DOMAIN frames /\ p[2] \in 0 .. frames[p[1]].n - 1
      /\ SentUpTo(p) = frames[p[1]].base + p[2]
  BY <1>1, SentType DEF Known, SentUpTo
<1>4. PICK f : f = p[1]
  OBVIOUS
<1>5. /\ frames[f].ts \in Nat /\ frames[f].n \in Nat /\ frames[f].base \in Nat /\ play.ts \in Nat
      /\ Clock \in Nat /\ Total \in Nat
  BY <1>1, <1>3, <1>4, FrameType, ClockType DEF TypeOK
<1>6. CASE use.server
  <2>1. play.ts = 0
    BY <1>6 DEF PromptInv
  <2> QED BY <1>1, <1>4, <1>5, <2>1
<1>7. CASE ~use.server
  <2>1. PICK r, d \in Nat : Goes(use, r, d)
    BY <1>1, <1>7 DEF Prompt
  <2>2. Recent(r) /\ Paced(d) /\ play.ts <= Clock
    BY <1>7, <2>1 DEF PromptInv
  <2>3. Age(p) < r
    BY <2>2, <1>2 DEF Recent
  <2>4. Clock - frames[f].ts <= d * (Total - EndOf(frames[f]))
    BY <1>2, <1>3, <1>4, <2>2 DEF Paced, Timed
  <2>5. PICK x : x = Total - EndOf(frames[f])
    OBVIOUS
  <2>6. x \in Int /\ x <= r - 1 /\ r - 1 \in Int
    BY <1>2, <1>3, <1>4, <1>5, <2>1, <2>3, <2>5 DEF Age, EndOf, Timed
  <2>7. d * x <= d * (r - 1) /\ d * x \in Int /\ d * (r - 1) \in Int
    BY <2>1, <2>6, Times
  <2>8. d * (r - 1) < Stale
    BY <2>1 DEF Goes
  <2> QED BY <1>1, <1>4, <1>5, <2>2, <2>4, <2>5, <2>7, <2>8
<1> QED BY <1>6, <1>7

\* The same of a client whose sender goes on without long pauses, in all
\* behaviours: whatever is lost, overtaken, doubled or sent again.
THEOREM StreamPlaysPrompt ==
  ASSUME \A u \in Uses : ~u.server => Playable(u) /\ Prompt(u)
  PROVE  Spec => []Playback
<1>1. PromptInv /\ [Next]_vars => PromptInv'
  BY PromptStep
<1>2. PromptInv => Fresh
  BY PromptFresh
<1>3. Spec /\ []Fresh => []Playback
  BY StreamPlays
<1> QED BY <1>1, <1>2, <1>3, PromptInit, PTL DEF Spec
-----------------------------------------------------------------------------
(* A receiver that asks for what is missing. *)

\* The numbers tell a packet that is late by less than r places, or early by
\* less than w, from a later or an earlier one, and a sender that stays from
\* one that has come back.
Tells(r, w) ==
  /\ r <= Half /\ w <= Half /\ Half + r <= NumSeq /\ Half + w <= NumSeq
  /\ 1 < r /\ 1 < MaxResend /\ r + 4 * w <= NumSeq
  /\ \A a \in Restart, b \in Settled : r <= b - a /\ b - a <= NumSeq - w

\* No packet is w places or more ahead of the last one that came, which is
\* the last one counted unless that was forgotten.
Close(w) ==
  \A p \in net : Timed(p) /\ (\E a \in arrived : Timed(a)) =>
    \E a \in arrived : Timed(a) /\ last \in {None, SeqNo(a)} /\ SentUpTo(p) - SentUpTo(a) < w

\* Number m is that of place x of a stream whose sender stays.
Place(m, x) == On(m, use.start + 1, x)

\* Packet l is the last one counted: none that came is r places ahead of it,
\* and what is between is not expected to come.
Counted(l, r) ==
  /\ Timed(l) /\ SeqNo(l) = last
  /\ \A a \in arrived : Timed(a) => SentUpTo(a) - SentUpTo(l) < r
  /\ \A q \in Overtaken \ passed : Timed(q) => SentUpTo(q) <= SentUpTo(l)

Receives(r) ==
  IF last = None THEN \A q \in Overtaken : Timed(q) => q \in passed
  ELSE \E l \in arrived : Counted(l, r)

\* Place e was overtaken, by no more than b.
Upto(e, b) ==
  /\ \E a \in arrived : Timed(a) /\ e < SentUpTo(a)
  /\ \A a \in arrived : Timed(a) => SentUpTo(a) - e <= b

\* How far behind entry k may be: it is counted by every later packet, the
\* second entry only when the first is not asked for.
Lag(k, r, w) ==
  IF k = 1 THEN IF expect[1].count = 0 THEN r ELSE r + w
  ELSE IF expect[2].count = 0
    THEN IF expect[1].count = 1 THEN r ELSE r + w
    ELSE IF expect[1].count = 1 THEN r + 2 * w ELSE r + 3 * w

Expects(r, w) ==
  /\ use.server => expect[2].seq = None
  /\ \A k \in 1 .. 2 :
       IF expect[k].seq = None THEN expect[k].count = 0
       ELSE \E e \in Nat : Place(expect[k].seq, e) /\ Upto(e, Lag(k, r, w))

\* Number m is expected or asked for.
Wanted(m) == (\E k \in 1 .. 2 : expect[k].seq = m) \/ (\E q \in nak : m \in Asked(q))

Missing(p) ==
  /\ p \notin arrived /\ p \notin net /\ p \notin passed
  /\ Timed(p) /\ HasAttach(p) /\ Behind(p) /\ Held(p)

Asks == \A p \in Sent : Missing(p) => Wanted(SeqNo(p))

LEMMA PlaceOf ==
  ASSUME IInv, use.reenter = {}, NEW p \in Sent, Timed(p)
  PROVE  Place(SeqNo(p), SentUpTo(p))
<1>1. TypeOK /\ Known /\ NoBreak
  BY DEF IInv
<1>2. PICK f, i : f = p[1] /\ i = p[2]
  OBVIOUS
<1>3. f \in DOMAIN frames /\ i \in 0 .. frames[f].n - 1
  BY <1>1, <1>2, SentType DEF Known
<1>4. frames[f].n \in Nat /\ frames[f].base \in Nat /\ i \in Int /\ use.start \in Int
  BY <1>1, <1>3, FrameType, UseType DEF Number
<1>5. PICK c : c = use.start + 1 + frames[f].base
  OBVIOUS
<1>6. c \in Int /\ c + i = (use.start + 1) + (frames[f].base + i)
  BY <1>4, <1>5
<1>7. frames[f].first = c % NumSeq
  BY <1>1, <1>2, <1>3, <1>5 DEF NoBreak, Timed
<1>8. ((c % NumSeq) + i) % NumSeq = (c + i) % NumSeq
  <2>1. NumSeq \in Nat \ {0}
    BY Constants
  <2> QED BY <1>4, <1>6, <2>1, SumMod
<1>9. SeqNo(p) = (frames[f].first + i) % NumSeq /\ SentUpTo(p) = frames[f].base + i
  BY <1>2 DEF SeqNo, SentUpTo, Timed
<1> QED BY <1>6, <1>7, <1>8, <1>9 DEF Place, On

\* One number is that of one place among NumSeq.
LEMMA OnePlace ==
  ASSUME TypeOK, NEW m, NEW x \in Int, NEW y \in Int, Place(m, x), Place(m, y),
         x - y < NumSeq, y - x < NumSeq
  PROVE  x = y
<1>1. PICK c : c = use.start + 1
  OBVIOUS
<1>2. c \in Int /\ NumSeq \in Nat \ {0}
  BY <1>1, UseType, Constants DEF Number
<1>3. (c + x) % NumSeq = (c + y) % NumSeq /\ c + x \in Int /\ c + y \in Int
  BY <1>1, <1>2 DEF Place, On
<1>4. ~ (x < y)
  <2>1. x < y => c + x < c + y /\ c + y < (c + x) + NumSeq
    BY <1>2
  <2> QED BY <1>2, <1>3, <2>1, Apart
<1>5. ~ (y < x)
  <2>1. y < x => c + y < c + x /\ c + x < (c + y) + NumSeq
    BY <1>2
  <2> QED BY <1>2, <1>3, <2>1, Apart
<1> QED BY <1>4, <1>5

LEMMA SentPlace ==
  ASSUME IInv, NEW p \in Sent
  PROVE  /\ SentUpTo(p) \in Nat /\ Total \in Nat /\ SeqNo(p) \in Number
         /\ Timed(p) => SentUpTo(p) < Total
<1>1. TypeOK /\ Known /\ InLine(frames, use) /\ Len(frames) <= use.frames
  BY DEF IInv, Known
<1>2. PICK f, i : f = p[1] /\ i = p[2]
  OBVIOUS
<1>3. f \in DOMAIN frames /\ i \in 0 .. frames[f].n - 1 /\ SeqNo(p) \in Number /\ SentUpTo(p) \in Nat
  BY <1>1, <1>2, SentType
<1>4. frames[f].n \in Nat /\ frames[f].base \in Nat /\ Total \in Nat /\ EndOf(frames[f]) <= Total
  BY <1>1, <1>3, FrameType, ClockType, LastFrame
<1>5. Timed(p) => EndOf(frames[f]) = frames[f].base + frames[f].n
  BY <1>2 DEF Timed, EndOf
<1>6. SentUpTo(p) = frames[f].base + i
  BY <1>2 DEF SentUpTo
<1> QED BY <1>3, <1>4, <1>5, <1>6

\* Two packets near each other have the same number only if they are one.
LEMMA SamePacket ==
  ASSUME IInv, use.reenter = {}, NEW p \in Sent, NEW q \in Sent, Timed(p), Timed(q),
         SeqNo(p) = SeqNo(q),
         SentUpTo(p) - SentUpTo(q) < NumSeq, SentUpTo(q) - SentUpTo(p) < NumSeq
  PROVE  p = q
<1>1. TypeOK /\ Known /\ InLine(frames, use)
  BY DEF IInv
<1>2. SentUpTo(p) = SentUpTo(q)
  BY <1>1, PlaceOf, SentPlace, OnePlace
<1> QED BY <1>1, <1>2, PlaceIsOnes

\* What a number less than NumSeq further on can be.
LEMMA FurtherOn ==
  ASSUME NEW x \in Number, NEW k \in Int, - NumSeq < k, k < NumSeq
  PROVE  (x + k) % NumSeq \in {x + k, x + k - NumSeq, x + k + NumSeq}
<1>1. NumSeq \in Nat \ {0} /\ x \in 0 .. NumSeq - 1
  BY Constants DEF Number
<1>2. PICK y : y = (x + k) % NumSeq
  OBVIOUS
<1>3. y \in 0 .. NumSeq - 1 /\ x + k \in Int
  BY <1>1, <1>2, Division
<1>4. ASSUME NEW e \in {-1, 0, 1}, x + k + e * NumSeq \in 0 .. NumSeq - 1
      PROVE  y = x + k + e * NumSeq
  <2>1. PICK z : z = x + k + e * NumSeq
    OBVIOUS
  <2>2. z \in 0 .. NumSeq - 1 /\ x + k = z + NumSeq * (0 - e)
    BY <1>1, <1>3, <1>4, <2>1
  <2>3. (z + NumSeq * (0 - e)) % NumSeq = z % NumSeq
    <3>1. z \in Int /\ 0 - e \in Int
      BY <2>2
    <3> QED BY <1>1, <3>1, Multiple, Zenon
  <2>4. z % NumSeq = z
    BY <1>1, <2>2
  <2> QED BY <1>2, <2>1, <2>2, <2>3, <2>4
<1>5. CASE x + k < 0
  BY <1>1, <1>2, <1>4, <1>5
<1>6. CASE x + k >= NumSeq
  BY <1>1, <1>2, <1>4, <1>6
<1>7. CASE x + k \in 0 .. NumSeq - 1
  BY <1>1, <1>2, <1>4, <1>7
<1> QED BY <1>1, <1>3, <1>5, <1>6, <1>7

\* What the numbers of the last packet counted and of the one that comes say
\* of their places.
LEMMA HowFar ==
  ASSUME TypeOK, NEW r \in Nat, NEW w \in Nat, Tells(r, w),
         last \in Number, NEW seq \in Number, NEW x \in Int, NEW y \in Int,
         Place(last, x), Place(seq, y), x - y < r, y - x < w,
         NEW next, next = (last + 1) % NumSeq
  PROVE  /\ next \in Number /\ Place(next, x + 1)
         /\ seq = next <=> y = x + 1
         /\ ~ (seq \in Restart /\ last \in Settled)
         /\ y > x + 1 => /\ (seq - next) % NumSeq = y - x - 1
                         /\ \/ seq > next /\ seq - next < Half /\ seq - next = y - x - 1
                            \/ next > seq /\ next - seq > Half
         /\ y < x + 1 => /\ ~ (seq > next /\ seq - next < Half)
                         /\ ~ (next > seq /\ next - seq > Half)
<1>1. PICK c, d : c = use.start + 1 /\ d = y - x
  OBVIOUS
<1>2. /\ c \in Int /\ d \in Int /\ NumSeq \in Nat \ {0} /\ Half \in Nat
      /\ last \in 0 .. NumSeq - 1 /\ seq \in 0 .. NumSeq - 1
      /\ 0 - r < d /\ d < w /\ r <= Half /\ w <= Half /\ Half + r <= NumSeq /\ Half + w <= NumSeq
  BY <1>1, UseType, Constants DEF Number, Tells
<1>3. next \in 0 .. NumSeq - 1 /\ next \in Number
  <2>1. last + 1 \in Int
    BY <1>2
  <2> QED BY <2>1, NumberMod DEF Number
<1>4. last = (c + x) % NumSeq /\ seq = (c + y) % NumSeq
  BY <1>1 DEF Place, On
<1>5. next = (c + (x + 1)) % NumSeq
  <2>1. (((c + x) % NumSeq) + 1) % NumSeq = ((c + x) + 1) % NumSeq
    <3>1. c + x \in Int /\ 1 \in Int
      BY <1>2
    <3> QED BY <1>2, <3>1, SumMod, Zenon
  <2>2. (c + x) + 1 = c + (x + 1)
    BY <1>2
  <2> QED BY <1>4, <2>1, <2>2
<1>6. seq = (last + d) % NumSeq
  <2>1. (((c + x) % NumSeq) + d) % NumSeq = ((c + x) + d) % NumSeq
    <3>1. c + x \in Int
      BY <1>2
    <3> QED BY <1>2, <3>1, SumMod, Zenon
  <2>2. (c + x) + d = c + y
    BY <1>1, <1>2
  <2> QED BY <1>4, <2>1, <2>2
<1>7. seq = (next + (d - 1)) % NumSeq
  <2>1. (((c + (x + 1)) % NumSeq) + (d - 1)) % NumSeq = ((c + (x + 1)) + (d - 1)) % NumSeq
    <3>1. c + (x + 1) \in Int /\ d - 1 \in Int
      BY <1>2
    <3> QED BY <1>2, <3>1, SumMod, Zenon
  <2>2. (c + (x + 1)) + (d - 1) = c + y
    BY <1>1, <1>2
  <2> QED BY <1>4, <1>5, <2>1, <2>2
<1>8. seq \in {last + d, last + d - NumSeq, last + d + NumSeq}
  BY <1>2, <1>6, FurtherOn
<1>9. seq \in {next + d - 1, next + d - 1 - NumSeq, next + d - 1 + NumSeq}
  <2>1. - NumSeq < d - 1 /\ d - 1 < NumSeq /\ d - 1 \in Int
    <3>1. r \in Nat /\ w \in Nat /\ 0 - r < d /\ d < w /\ (0 < Half => r < NumSeq)
      BY <1>2
    <3>2. Half > 0 /\ Half < NumSeq
      BY RtpStreamAssumption
    <3> QED BY <1>2, <3>1, <3>2
  <2>2. seq \in {next + (d - 1), next + (d - 1) - NumSeq, next + (d - 1) + NumSeq}
    BY <1>3, <1>7, <2>1, FurtherOn
  <2> QED BY <1>2, <1>3, <2>2
<1>10. ~ (seq \in Restart /\ last \in Settled)
  <2>1. SUFFICES ASSUME r <= last - seq, last - seq <= NumSeq - w
                 PROVE  FALSE
    BY DEF Tells
  <2> QED BY <1>2, <1>8, <2>1
<1>11. seq = next <=> d = 1
  BY <1>2, <1>3, <1>9
<1>12. d > 1 => (seq - next) % NumSeq = d - 1
  <2>1. SUFFICES ASSUME d > 1
                 PROVE  (seq - next) % NumSeq = d - 1
    OBVIOUS
  <2>2. (((next + (d - 1)) % NumSeq) + (0 - next)) % NumSeq = ((next + (d - 1)) + (0 - next)) % NumSeq
    <3>1. next + (d - 1) \in Int /\ 0 - next \in Int
      BY <1>2, <1>3
    <3> QED BY <1>2, <3>1, SumMod, Zenon
  <2>3. (next + (d - 1)) + (0 - next) = d - 1 /\ seq + (0 - next) = seq - next
    BY <1>2, <1>3
  <2>4. (d - 1) % NumSeq = d - 1
    BY <1>2, <2>1, d - 1 \in 0 .. NumSeq - 1
  <2> QED BY <1>7, <2>2, <2>3, <2>4
<1>13. d > 1 => \/ seq > next /\ seq - next < Half /\ seq - next = d - 1
                \/ next > seq /\ next - seq > Half
  BY <1>2, <1>3, <1>9
<1>14. d < 1 => ~ (seq > next /\ seq - next < Half) /\ ~ (next > seq /\ next - seq > Half)
  BY <1>2, <1>3, <1>9
<1>15. (y = x + 1 <=> d = 1) /\ (y > x + 1 <=> d > 1) /\ (y < x + 1 <=> d < 1) /\ y - x - 1 = d - 1
  BY <1>1, <1>2
<1>16. Place(next, x + 1)
  BY <1>1, <1>5 DEF Place, On
<1> QED BY <1>3, <1>10, <1>11, <1>12, <1>13, <1>14, <1>15, <1>16

-----------------------------------------------------------------------------
(* Requests and what is expected. *)

\* The request for one number asks for that number.
LEMMA AskedOne ==
  ASSUME NEW m \in Number, NEW q, q = [seq |-> (m + 1) % NumSeq, count |-> 1]
  PROVE  Asked(q) = {m}
<1>1. m \in 0 .. NumSeq - 1 /\ NumSeq \in Nat \ {0}
  BY Constants DEF Number
<1>2. (((m + 1) % NumSeq) + (0 - 1)) % NumSeq = ((m + 1) + (0 - 1)) % NumSeq
  <2>1. m + 1 \in Int /\ 0 - 1 \in Int
    BY <1>1
  <2> QED BY <1>1, <2>1, SumMod, Zenon
<1>3. PICK z : z = (m + 1) % NumSeq
  OBVIOUS
<1>4. z \in Int
  <2>1. m + 1 \in Int
    BY <1>1
  <2> QED BY <1>3, <2>1, NumberMod DEF Number
<1>5. (z - 1) % NumSeq = m
  <2>1. (m + 1) + (0 - 1) = m /\ z + (0 - 1) = z - 1 /\ m % NumSeq = m
    BY <1>1, <1>4
  <2> QED BY <1>2, <1>3, <2>1
<1>6. Asked(q) = (z - 1) % NumSeq .. (z - 1) % NumSeq
  BY <1>3 DEF Asked
<1> QED BY <1>1, <1>5, <1>6

\* The request for a row of numbers that does not pass the last one asks for
\* these numbers.
LEMMA AskedRow ==
  ASSUME NEW seq \in Number, NEW n \in Nat, n > 0, n <= seq,
         NEW q, q = [seq |-> seq % NumSeq, count |-> n]
  PROVE  Asked(q) = seq - n .. seq - 1
<1>1. seq \in 0 .. NumSeq - 1 /\ NumSeq \in Nat \ {0}
  BY Constants DEF Number
<1>2. seq % NumSeq = seq /\ (seq - n) % NumSeq = seq - n /\ (seq - 1) % NumSeq = seq - 1
  BY <1>1, seq - n \in 0 .. NumSeq - 1, seq - 1 \in 0 .. NumSeq - 1
<1> QED BY <1>2 DEF Asked

\* The entries after one more packet was counted.
LEMMA WaitedIs ==
  ASSUME TypeOK, Patient, NEW k \in 1 .. 2
  PROVE  /\ k \in Due => Waited[k] = NoExpect
         /\ k \notin Due => Waited[k].seq = expect[k].seq
         /\ k \notin Due /\ expect[k].seq = None => Waited[k].count = expect[k].count
         /\ k \notin Due /\ expect[k].seq # None =>
              Waited[k].count = IF 1 \in Due THEN expect[k].count ELSE expect[k].count + 1
         /\ expect[k].seq = None => k \notin Due
         /\ Waited[k].seq \in Number \cup {None} /\ Waited[k].count \in 0 .. 1
         /\ Waited[k] = [seq |-> Waited[k].seq, count |-> Waited[k].count]
<1>1. /\ expect \in [1 .. 2 -> [seq : Number \cup {None}, count : 0 .. 1]]
      /\ Waited \in [1 .. 2 -> [seq : Number \cup {None}, count : 0 .. 1]]
      /\ \A j \in 1 .. 2 : expect[j].count <= Patience
  BY WaitedType DEF TypeOK, Patient
<1>2. /\ expect[k].seq \in Number \cup {None} /\ expect[k].count \in 0 .. 1
      /\ expect[k] = [seq |-> expect[k].seq, count |-> expect[k].count]
  BY <1>1
<1>3. Due \subseteq 1 .. 2 /\ (1 \in Due => 2 \notin Due)
  BY DEF Due
<1>4. k \in Due => Waited[k] = NoExpect
  BY DEF Waited
<1>5. CASE k \notin Due /\ expect[k].seq # None /\ \A d \in Due : k < d
  <2>1. Waited[k] = [expect[k] EXCEPT !.count = @ + 1]
    BY <1>5 DEF Waited
  <2>2. 1 \notin Due
    BY <1>5
  <2> QED BY <1>1, <1>2, <1>5, <2>1, <2>2
<1>6. CASE k \notin Due /\ ~ (expect[k].seq # None /\ \A d \in Due : k < d)
  <2>1. Waited[k] = expect[k]
    BY <1>6 DEF Waited
  <2>2. expect[k].seq # None => 1 \in Due
    <3>1. SUFFICES ASSUME expect[k].seq # None
                   PROVE  1 \in Due
      OBVIOUS
    <3>2. PICK d \in Due : ~ (k < d)
      BY <1>6, <3>1
    <3> QED BY <1>3, <1>6, <3>2
  <2> QED BY <1>1, <1>2, <1>6, <2>1, <2>2
<1>7. expect[k].seq = None => k \notin Due
  BY DEF Due
<1>8. /\ Waited[k].seq \in Number \cup {None} /\ Waited[k].count \in 0 .. 1
      /\ Waited[k] = [seq |-> Waited[k].seq, count |-> Waited[k].count]
  BY <1>1
<1> QED BY <1>4, <1>5, <1>6, <1>7, <1>8

\* What the code does with a gap of one packet, by cases.
LEMMA GapIs ==
  ASSUME NEW seq, NEW first, NEW n \in Nat, NEW asked, Gap(seq, first, n, asked)
  PROVE  \/ n = 0 /\ expect' = Waited /\ nak' = asked
         \/ /\ n = 1 /\ Waited[1].seq = None
            /\ expect' = [Waited EXCEPT ![1] = [seq |-> first, count |-> 0]] /\ nak' = asked
         \/ /\ n = 1 /\ Waited[1].seq # None
            /\ expect' = [Waited EXCEPT ![2] = [seq |-> first, count |-> 0]]
            /\ nak' = asked \cup (IF Waited[2].seq = None THEN {} ELSE Ask(Waited[2].seq + 1, 1))
         \/ n > 1 /\ expect' = Waited /\ nak' = asked \cup Ask(seq, n)
<1>1. CASE n = 0
  BY <1>1 DEF Gap
<1>2. CASE n = 1 /\ Waited[1].seq = None
  BY <1>2 DEF Gap
<1>3. CASE n = 1 /\ Waited[1].seq # None
  BY <1>3 DEF Gap
<1>4. CASE n > 1
  BY <1>4 DEF Gap
<1> QED BY <1>1, <1>2, <1>3, <1>4

\* What was expected or asked for still is, and so is what a gap adds.
LEMMA GapWants ==
  ASSUME TypeOK, Patient, NEW seq, NEW first, NEW n \in Nat, NEW asked,
         nak \cup AskDue \subseteq asked, Gap(seq, first, n, asked), NEW m \in Number,
         \/ Wanted(m) \/ (n = 1 /\ m = first)
         \/ n > 1 /\ \E q \in Ask(seq, n) : m \in Asked(q)
  PROVE  Wanted(m)'
<1>0. \/ n = 0 /\ expect' = Waited /\ nak' = asked
      \/ /\ n = 1 /\ Waited[1].seq = None
         /\ expect' = [Waited EXCEPT ![1] = [seq |-> first, count |-> 0]] /\ nak' = asked
      \/ /\ n = 1 /\ Waited[1].seq # None
         /\ expect' = [Waited EXCEPT ![2] = [seq |-> first, count |-> 0]]
         /\ nak' = asked \cup (IF Waited[2].seq = None THEN {} ELSE Ask(Waited[2].seq + 1, 1))
      \/ n > 1 /\ expect' = Waited /\ nak' = asked \cup Ask(seq, n)
  BY GapIs, Zenon
<1>1. Waited \in [1 .. 2 -> [seq : Number \cup {None}, count : 0 .. 1]]
  BY WaitedType
<1>2. /\ nak \cup AskDue \subseteq nak'
      /\ n > 1 => Ask(seq, n) \subseteq nak'
      /\ n = 1 /\ Waited[1].seq # None /\ Waited[2].seq # None => Ask(Waited[2].seq + 1, 1) \subseteq nak'
  BY <1>0
<1>3. n = 1 => \E k \in 1 .. 2 : expect'[k].seq = first
  BY <1>0, <1>1
<1>4. ASSUME NEW k \in 1 .. 2, Waited[k].seq = m
      PROVE  Wanted(m)'
  <2>1. m # None /\ k \in {1, 2}
    BY <1>4 DEF Number, None
  <2>2. CASE n = 1 /\ Waited[1].seq # None /\ k = 2
    <3>1. Ask(m + 1, 1) \subseteq nak'
      BY <1>2, <1>4, <2>1, <2>2
    <3>2. PICK q : q = [seq |-> (m + 1) % NumSeq, count |-> 1]
      OBVIOUS
    <3>3. q \in nak' /\ m \in Asked(q)
      BY <3>1, <3>2, AskedOne DEF Ask
    <3> QED BY <3>3 DEF Wanted, Asked
  <2>3. CASE ~ (n = 1 /\ Waited[1].seq # None /\ k = 2)
    <3>1. expect'[k] = Waited[k]
      <4>1. CASE n # 1
        BY <4>1, <1>0
      <4>2. CASE n = 1 /\ Waited[1].seq = None
        <5>1. k = 2
          BY <1>4, <2>1, <4>2
        <5>2. expect' = [Waited EXCEPT ![1] = [seq |-> first, count |-> 0]]
          BY <4>2, <1>0
        <5> QED BY <1>1, <5>1, <5>2
      <4>3. CASE n = 1 /\ Waited[1].seq # None
        <5>1. k = 1
          BY <2>1, <2>3, <4>3
        <5>2. expect' = [Waited EXCEPT ![2] = [seq |-> first, count |-> 0]]
          BY <4>3, <1>0
        <5> QED BY <1>1, <5>1, <5>2
      <4> QED BY <4>1, <4>2, <4>3
    <3>2. expect'[k].seq = m
      BY <1>4, <3>1
    <3> QED BY <3>2 DEF Wanted
  <2> QED BY <2>2, <2>3
<1>5. ASSUME NEW k \in 1 .. 2, expect[k].seq = m
      PROVE  Wanted(m)'
  <2>1. CASE k \in Due
    <3>1. PICK q : q = [seq |-> (m + 1) % NumSeq, count |-> 1]
      OBVIOUS
    <3>2. q \in nak' /\ m \in Asked(q)
      <4>1. q \in AskDue
        BY <1>5, <2>1, <3>1 DEF AskDue, Ask
      <4> QED BY <1>2, <3>1, <4>1, AskedOne
    <3> QED BY <3>2 DEF Wanted, Asked
  <2>2. CASE k \notin Due
    BY <1>4, <1>5, <2>2, WaitedIs
  <2> QED BY <2>1, <2>2
<1>6. ASSUME NEW q \in nak', m \in Asked(q)
      PROVE  Wanted(m)'
  BY <1>6 DEF Wanted, Asked
<1>7. Wanted(m) => (\E k \in 1 .. 2 : expect[k].seq = m) \/ \E q \in nak : m \in Asked(q)
  BY DEF Wanted
<1>8. CASE \E k \in 1 .. 2 : expect[k].seq = m
  BY <1>5, <1>8
<1>9. CASE \E q \in nak' : m \in Asked(q)
  BY <1>6, <1>9
<1>10. CASE n = 1 /\ m = first
  BY <1>3, <1>10 DEF Wanted
<1> QED BY <1>2, <1>7, <1>8, <1>9, <1>10

\* What one more packet counted leaves of the entries, and what a gap adds,
\* is not too far behind.
LEMMA GapExpects ==
  ASSUME TypeOK, Patient, use' = use, NEW r \in Nat, NEW w \in Nat, Expects(r, w),
         NEW seq, NEW first \in Number, NEW n \in Nat, NEW asked, Gap(seq, first, n, asked),
         \A e, b, c \in Nat : Upto(e, b) /\ b + w <= c => Upto(e, c)',
         n = 1 => \E e \in Nat : Place(first, e) /\ Upto(e, r)'
  PROVE  Expects(r, w)'
<1>1. \/ n = 0 /\ expect' = Waited /\ nak' = asked
      \/ /\ n = 1 /\ Waited[1].seq = None
         /\ expect' = [Waited EXCEPT ![1] = [seq |-> first, count |-> 0]] /\ nak' = asked
      \/ /\ n = 1 /\ Waited[1].seq # None
         /\ expect' = [Waited EXCEPT ![2] = [seq |-> first, count |-> 0]]
         /\ nak' = asked \cup (IF Waited[2].seq = None THEN {} ELSE Ask(Waited[2].seq + 1, 1))
      \/ n > 1 /\ expect' = Waited /\ nak' = asked \cup Ask(seq, n)
  BY GapIs, Zenon
<1>2. /\ expect \in [1 .. 2 -> [seq : Number \cup {None}, count : 0 .. 1]]
      /\ Waited \in [1 .. 2 -> [seq : Number \cup {None}, count : 0 .. 1]]
  BY WaitedType DEF TypeOK
<1>3. expect' = Waited \/ (n = 1 /\ \E k \in 1 .. 2 : expect' = [Waited EXCEPT ![k] = [seq |-> first, count |-> 0]])
  BY <1>1
<1>4. PICK s1, s2, c1, c2 : s1 = expect[1].seq /\ s2 = expect[2].seq /\ c1 = expect[1].count /\ c2 = expect[2].count
  OBVIOUS
<1>5. /\ c1 \in 0 .. 1 /\ c2 \in 0 .. 1 /\ c1 <= Patience /\ c2 <= Patience /\ Patience \in 0 .. 1
      /\ Patience = IF use.server THEN 0 ELSE 1
      /\ s1 = None => c1 = 0
      /\ s2 = None => c2 = 0
      /\ use.server => s2 = None
  BY <1>2, <1>4 DEF Patient, Patience, Expects
<1>6. /\ 1 \in Due <=> s1 # None /\ c1 = Patience
      /\ 2 \in Due <=> s2 # None /\ c2 = Patience /\ 1 \notin Due
  BY <1>4 DEF Due
<1>7. /\ 1 \in Due => Waited[1].seq = None /\ Waited[1].count = 0
      /\ 1 \notin Due => Waited[1].seq = s1
      /\ 1 \notin Due /\ s1 = None => Waited[1].count = 0
      /\ 1 \notin Due /\ s1 # None => Waited[1].count = c1 + 1
  <2>1. 1 \in 1 .. 2
    OBVIOUS
  <2> QED BY <1>4, <1>5, <2>1, WaitedIs DEF NoExpect
<1>8. /\ 2 \in Due => Waited[2].seq = None /\ Waited[2].count = 0
      /\ 2 \notin Due => Waited[2].seq = s2
      /\ 2 \notin Due /\ s2 = None => Waited[2].count = 0
      /\ 2 \notin Due /\ s2 # None => Waited[2].count = IF 1 \in Due THEN c2 ELSE c2 + 1
  <2>1. 2 \in 1 .. 2
    OBVIOUS
  <2> QED BY <1>4, <1>5, <2>1, WaitedIs DEF NoExpect
<1>9. s1 # None => \E e \in Nat : Place(s1, e) /\ Upto(e, IF c1 = 0 THEN r ELSE r + w)
  BY <1>4 DEF Expects, Lag
<1>10. s2 # None => \E e \in Nat : Place(s2, e) /\
         Upto(e, IF c2 = 0 THEN IF c1 = 1 THEN r ELSE r + w ELSE IF c1 = 1 THEN r + 2 * w ELSE r + 3 * w)
  BY <1>4 DEF Expects, Lag
<1>11. PICK S1, S2, C1, C2 : /\ S1 = expect'[1].seq /\ S2 = expect'[2].seq
                             /\ C1 = expect'[1].count /\ C2 = expect'[2].count
  OBVIOUS
<1>12. \/ /\ n # 1 /\ S1 = Waited[1].seq /\ C1 = Waited[1].count
          /\ S2 = Waited[2].seq /\ C2 = Waited[2].count
       \/ /\ n = 1 /\ Waited[1].seq = None /\ S1 = first /\ C1 = 0
          /\ S2 = Waited[2].seq /\ C2 = Waited[2].count
       \/ /\ n = 1 /\ Waited[1].seq # None /\ S1 = Waited[1].seq /\ C1 = Waited[1].count
          /\ S2 = first /\ C2 = 0
  <2>1. CASE n # 1
    BY <1>1, <1>11, <2>1
  <2>2. CASE n = 1 /\ Waited[1].seq = None
    BY <1>1, <1>2, <1>11, <2>2
  <2>3. CASE n = 1 /\ Waited[1].seq # None
    BY <1>1, <1>2, <1>11, <2>3
  <2> QED BY <2>1, <2>2, <2>3
<1>13. use.server => S2 = None
  BY <1>5, <1>6, <1>7, <1>8, <1>12
<1>14. (S1 = None => C1 = 0) /\ (S2 = None => C2 = 0)
  BY <1>5, <1>7, <1>8, <1>12
<1>15. ASSUME NEW s, NEW b \in Nat, NEW c \in Nat, b + w <= c,
              \E e \in Nat : Place(s, e) /\ Upto(e, b)
       PROVE  \E e \in Nat : Place(s, e) /\ Upto(e, c)'
  BY <1>15
<1>16. S1 # None => \E e \in Nat : Place(S1, e) /\ Upto(e, IF C1 = 0 THEN r ELSE r + w)'
  <2>1. CASE n = 1 /\ Waited[1].seq = None
    BY <1>12, <2>1
  <2>2. CASE ~ (n = 1 /\ Waited[1].seq = None) /\ S1 # None
    <3>1. S1 = s1 /\ s1 # None /\ c1 = 0 /\ C1 = 1
      BY <1>5, <1>6, <1>7, <1>12, <2>2
    <3>2. \E e \in Nat : Place(s1, e) /\ Upto(e, r + w)'
      <4>1. \E e \in Nat : Place(s1, e) /\ Upto(e, r)
        BY <1>9, <3>1
      <4> QED BY <1>15, <4>1
    <3> QED BY <3>1, <3>2
  <2> QED BY <2>1, <2>2
<1>17. S2 # None => \E e \in Nat : Place(S2, e) /\
         Upto(e, IF C2 = 0 THEN IF C1 = 1 THEN r ELSE r + w ELSE IF C1 = 1 THEN r + 2 * w ELSE r + 3 * w)'
  <2>1. CASE n = 1 /\ Waited[1].seq # None
    BY <1>5, <1>6, <1>7, <1>12, <2>1
  <2>2. CASE ~ (n = 1 /\ Waited[1].seq # None) /\ S2 # None
    <3>1. S2 = s2 /\ s2 # None /\ 2 \notin Due /\ C2 = IF 1 \in Due THEN c2 ELSE c2 + 1
      BY <1>8, <1>12, <2>2
    <3>2. CASE 1 \in Due
      <4>1. c1 = 1 /\ C1 = 0 /\ C2 = c2
        BY <1>5, <1>6, <1>7, <1>12, <2>2, <3>1, <3>2
      <4>2. CASE c2 = 0
        <5>1. \E e \in Nat : Place(s2, e) /\ Upto(e, r)
          BY <1>10, <3>1, <4>1, <4>2
        <5>2. \E e \in Nat : Place(s2, e) /\ Upto(e, r + w)'
          BY <1>15, <5>1
        <5> QED BY <3>1, <4>1, <4>2, <5>2
      <4>3. CASE c2 = 1
        <5>1. \E e \in Nat : Place(s2, e) /\ Upto(e, r + 2 * w)
          BY <1>10, <3>1, <4>1, <4>3
        <5>2. \E e \in Nat : Place(s2, e) /\ Upto(e, r + 3 * w)'
          <6>1. r + 2 * w \in Nat /\ r + 3 * w \in Nat /\ (r + 2 * w) + w <= r + 3 * w
            OBVIOUS
          <6> QED BY <1>15, <5>1, <6>1
        <5> QED BY <3>1, <4>1, <4>3, <5>2
      <4> QED BY <1>5, <4>2, <4>3
    <3>3. CASE 1 \notin Due
      <4>1. c2 = 0 /\ C2 = 1 /\ c1 = 0
        BY <1>5, <1>6, <3>1, <3>3
      <4>2. \E e \in Nat : Place(s2, e) /\ Upto(e, r + w)
        BY <1>10, <3>1, <4>1
      <4>3. /\ \E e \in Nat : Place(s2, e) /\ Upto(e, r + 2 * w)'
            /\ \E e \in Nat : Place(s2, e) /\ Upto(e, r + 3 * w)'
        <5>1. /\ r + w \in Nat /\ r + 2 * w \in Nat /\ r + 3 * w \in Nat
              /\ (r + w) + w <= r + 2 * w /\ (r + w) + w <= r + 3 * w
          OBVIOUS
        <5> QED BY <1>15, <4>2, <5>1
      <4> QED BY <3>1, <4>1, <4>3
    <3> QED BY <3>2, <3>3
  <2> QED BY <2>1, <2>2
<1>18. /\ Lag(1, r, w)' = IF C1 = 0 THEN r ELSE r + w
       /\ Lag(2, r, w)' = IF C2 = 0 THEN IF C1 = 1 THEN r ELSE r + w
                          ELSE IF C1 = 1 THEN r + 2 * w ELSE r + 3 * w
  BY <1>11 DEF Lag
<1>19. \A m, e : Place(m, e)' <=> Place(m, e)
  BY DEF Place, On
<1>20. /\ use'.server => expect'[2].seq = None
       /\ expect'[1].seq = None => expect'[1].count = 0
       /\ expect'[2].seq = None => expect'[2].count = 0
       /\ expect'[1].seq # None => \E e \in Nat : Place(expect[1].seq, e)' /\ Upto(e, Lag(1, r, w))'
       /\ expect'[2].seq # None => \E e \in Nat : Place(expect[2].seq, e)' /\ Upto(e, Lag(2, r, w))'
  BY <1>11, <1>13, <1>14, <1>16, <1>17, <1>18, <1>19
<1> QED BY <1>20 DEF Expects
-----------------------------------------------------------------------------
(* What counting one packet does. *)

\* The packet is one of the expected: it no longer is, and nothing else.
Meets(p) ==
  /\ Met(SeqNo(p)) # {}
  /\ \E k \in Met(SeqNo(p)) : expect' = [expect EXCEPT ![k] = NoExpect]
  /\ last' = last /\ passed' = passed /\ nak' = nak

\* Requests asked for whatever came, and those of CLostSeqInfo.
Asking(asked) ==
  /\ nak \cup AskDue \subseteq asked
  /\ use.nak # 2 => asked = nak \cup AskDue

\* Of the m packets before p those it does not give up are expected or asked
\* for.
Leaves(p, first, n, m) ==
  \A q \in Skipped(p, m) : \/ q \in passed'
                           \/ n = 1 /\ SeqNo(q) = first
                           \/ n > 1 /\ \E a \in Ask(SeqNo(p), n) : SeqNo(q) \in Asked(a)

\* What counting does with a packet that is not expected.
CountsFrom(p, seq, next, asked) ==
  LET inTurn == \/ seq = next \/ last = None
                \/ seq \in Restart /\ last \in Settled
      ahead  == ~inTurn /\ seq > next /\ seq - next < Half
      round  == ~inTurn /\ next > seq /\ next - seq > Half
      gap    == IF ahead THEN seq - next ELSE seq + (NumSeq - 1 - next)
      n      == IF use.nak = 0 \/ ~(ahead \/ round) \/ (ahead /\ gap > MaxResend) THEN 0
                ELSE IF gap > MaxResend THEN MaxResend ELSE gap
  IN /\ Asking(asked)
     /\ Gap(seq, next, n, asked)
     /\ last' = IF inTurn \/ ahead \/ round THEN seq ELSE last
     /\ passed \subseteq passed'
     /\ last = None => Earlier(p) \subseteq passed'
     /\ (round /\ use.nak < 2) \/ (ahead /\ gap > MaxResend) =>
          Leaves(p, next, n, (seq - next) % NumSeq)

LEMMA CountIs ==
  ASSUME TypeOK, NEW p, Timed(p), SeqNo(p) \in Number, use.nak > 0, Count(p), ~ Meets(p),
         NEW m, m = SeqNo(p), NEW x, x = IF last = None THEN 0 ELSE (last + 1) % NumSeq
  PROVE  /\ Met(m) = {}
         /\ \E asked : CountsFrom(p, m, x, asked)
<1> DEFINE seq  == SeqNo(p)
           next == IF last = None THEN 0 ELSE (last + 1) % NumSeq
           lost == IF use.nak = 2 THEN Lost(seq) ELSE [rest |-> lost2, ask |-> {}]
           asked == nak \cup (IF use.nak > 0 THEN AskDue ELSE {}) \cup lost.ask
<1>1. use.nak # 0 /\ frames[p[1]].ts # 0
  BY UseType DEF Timed
<1>2. Met(seq) = {}
  <2>1. SUFFICES ASSUME Met(seq) # {}
                 PROVE  Meets(p)
    OBVIOUS
  <2>2. /\ expect' = [expect EXCEPT ![CHOOSE k \in Met(seq) : \A j \in Met(seq) : k <= j] = NoExpect]
        /\ UNCHANGED <<last, lost2, passed, nak>>
    BY <1>1, <2>1 DEF Count
  <2>3. (CHOOSE k \in Met(seq) : \A j \in Met(seq) : k <= j) \in Met(seq)
    <3>1. Met(seq) \subseteq 1 .. 2
      BY DEF Met
    <3>2. \E k \in Met(seq) : \A j \in Met(seq) : k <= j
      BY <2>1, <3>1
    <3> QED BY <3>2
  <2> QED BY <2>1, <2>2, <2>3 DEF Meets
<1>5. Asking(asked)
  <2>1. use.nak # 2 => lost.ask = {}
    OBVIOUS
  <2> HIDE DEF lost
  <2> QED BY <2>1 DEF Asking
<1> DEFINE inTurn == \/ seq = next \/ last = None
                     \/ seq \in Restart /\ last \in Settled
           ahead  == ~inTurn /\ seq > next /\ seq - next < Half
           round  == ~inTurn /\ next > seq /\ next - seq > Half
           gap    == IF ahead THEN seq - next ELSE seq + (NumSeq - 1 - next)
           n      == IF use.nak = 0 \/ ~(ahead \/ round) \/ (ahead /\ gap > MaxResend) THEN 0
                     ELSE IF gap > MaxResend THEN MaxResend ELSE gap
           tail   == IF NumSeq - 1 - next > MaxResend THEN MaxResend ELSE NumSeq - 1 - next
           noted  == IF ~round \/ use.nak < 2 \/ seq - 1 >= MaxResend THEN {}
                     ELSE (NumSeq - 1 - tail .. NumSeq - 1) \cup 1 .. seq - 1
           forgotten == lost2 \ ({seq} \cup lost.rest \cup UNION {Asked(r) : r \in lost.ask})
           wanted == CASE n = 0 -> {} [] n = 1 -> {next} [] n > 1 -> UNION {Asked(r) : r \in Ask(seq, n)}
           left   == CASE last = None \/ (inTurn /\ seq # next) -> Earlier(p)
                       [] round \/ (ahead /\ gap > MaxResend) ->
                            {q \in Skipped(p, (seq - next) % NumSeq) : SeqNo(q) \notin wanted \cup noted}
                       [] OTHER -> {}
<1>6. /\ Gap(seq, next, n, asked)
      /\ last' = IF inTurn \/ ahead \/ round THEN seq ELSE last
      /\ passed' = passed \cup left \cup {q \in Sent : SeqNo(q) \in forgotten}
  <2>1. Count(p) =
          \/ /\ frames[p[1]].ts = 0
             /\ UNCHANGED <<counting, nak>>
          \/ /\ frames[p[1]].ts # 0 /\ use.nak > 0 /\ Met(seq) # {}
             /\ expect' = [expect EXCEPT ![CHOOSE k \in Met(seq) : \A j \in Met(seq) : k <= j] = NoExpect]
             /\ UNCHANGED <<last, lost2, passed, nak>>
          \/ /\ frames[p[1]].ts # 0 /\ (use.nak = 0 \/ Met(seq) = {})
             /\ Gap(seq, next, n, asked)
             /\ last' = IF inTurn \/ ahead \/ round THEN seq ELSE last
             /\ lost2' = CASE use.nak = 2 /\ ahead /\ n > 1 -> Noted(lost.rest, seq - n .. seq - 1)
                           [] use.nak = 2 /\ round /\ seq - 1 >= MaxResend -> {}
                           [] use.nak = 2 /\ round /\ seq - 1 < MaxResend -> Noted(lost.rest, noted)
                           [] OTHER -> lost.rest
             /\ passed' = passed \cup left \cup {q \in Sent : SeqNo(q) \in forgotten}
    BY DEF Count
  <2> HIDE DEF seq, next, asked, inTurn, ahead, round, n, left, forgotten
  <2> QED BY <1>1, <1>2, <2>1
<1>7. n \in Nat /\ seq \in Nat /\ next \in Nat
  <2>1. NumSeq \in Nat \ {0} /\ MaxResend \in Nat
    BY Constants
  <2>2. seq \in 0 .. NumSeq - 1 /\ last \in Number \cup {None} /\ (last # None => last \in 0 .. NumSeq - 1)
    BY DEF TypeOK, Number
  <2>3. next \in 0 .. NumSeq - 1
    BY <2>1, <2>2
  <2> QED BY <2>1, <2>2, <2>3
<1>8. ASSUME (round /\ use.nak < 2) \/ (ahead /\ gap > MaxResend)
      PROVE  Leaves(p, next, n, (seq - next) % NumSeq)
  <2>1. noted = {} /\ ~ inTurn /\ last # None /\ (round \/ (ahead /\ gap > MaxResend))
    BY <1>7, <1>8
  <2>2. left = {q \in Skipped(p, (seq - next) % NumSeq) : SeqNo(q) \notin wanted}
    <3> HIDE DEF inTurn, ahead, round, gap, n, wanted, noted
    <3> QED BY <2>1
  <2>3. SUFFICES ASSUME NEW q \in Skipped(p, (seq - next) % NumSeq), SeqNo(q) \in wanted
                 PROVE  \/ n = 1 /\ SeqNo(q) = next
                        \/ n > 1 /\ \E a \in Ask(seq, n) : SeqNo(q) \in Asked(a)
    <3> HIDE DEF inTurn, ahead, round, gap, n, wanted, noted, left, forgotten
    <3> QED BY <1>6, <2>2 DEF Leaves
  <2> HIDE DEF n
  <2> QED BY <1>7, <2>3
<1>9. passed \subseteq passed' /\ (last = None => Earlier(p) \subseteq passed')
  <2>1. last = None => left = Earlier(p)
    <3>1. last = None => ~ ahead /\ ~ round
      OBVIOUS
    <3> HIDE DEF inTurn, ahead, round, gap, n, wanted, noted
    <3> QED BY <3>1
  <2> HIDE DEF left, forgotten
  <2> QED BY <1>6, <2>1
<1>10. CountsFrom(p, seq, next, asked)
  <2> HIDE DEF tail, noted, forgotten, wanted, left
  <2> QED BY <1>5, <1>6, <1>8, <1>9 DEF CountsFrom
<1> HIDE DEF asked
<1> QED BY <1>2, <1>10

LEMMA CountNone ==
  ASSUME TypeOK, NEW p, Timed(p), SeqNo(p) \in Number, use.nak > 0, Count(p), last = None
  PROVE  \/ Meets(p)
         \/ /\ last' = SeqNo(p) /\ passed \cup Earlier(p) \subseteq passed'
            /\ Met(SeqNo(p)) = {}
            /\ \E asked : Asking(asked) /\ Gap(SeqNo(p), 0, 0, asked)
<1>1. SUFFICES ASSUME ~ Meets(p)
               PROVE  /\ last' = SeqNo(p) /\ passed \cup Earlier(p) \subseteq passed'
                      /\ Met(SeqNo(p)) = {}
                      /\ \E asked : Asking(asked) /\ Gap(SeqNo(p), 0, 0, asked)
  OBVIOUS
<1>2. PICK seq, next : seq = SeqNo(p) /\ next = IF last = None THEN 0 ELSE (last + 1) % NumSeq
  OBVIOUS
<1>3. /\ Met(seq) = {}
      /\ \E asked : CountsFrom(p, seq, next, asked)
  BY <1>1, <1>2, CountIs
<1>4. next = 0
  BY <1>2
<1> QED BY <1>2, <1>3, <1>4 DEF CountsFrom

\* What counting does when the packet is at place y and the last one counted
\* at place x: n packets are expected or asked for.
Counts(p, x, y, first, n) ==
  /\ passed \subseteq passed'
  /\ \/ y = x + 1 /\ n = 0 /\ last' = SeqNo(p)
     \/ y < x + 1 /\ n = 0 /\ last' = last
     \/ y > x + 1 /\ n = y - x - 1 /\ n <= SeqNo(p) /\ last' = SeqNo(p)
     \/ /\ y > x + 1 /\ n <= y - x - 1 /\ (n = 1 => y - x - 1 <= 2) /\ last' = SeqNo(p)
        /\ use.nak < 2 \/ first < SeqNo(p) => Leaves(p, first, n, y - x - 1)

LEMMA CountSome ==
  ASSUME TypeOK, NEW r \in Nat, NEW w \in Nat, Tells(r, w),
         NEW p, Timed(p), use.nak > 0, Count(p), SeqNo(p) \in Number,
         last \in Number, NEW x \in Int, NEW y \in Int,
         Place(last, x), Place(SeqNo(p), y), x - y < r, y - x < w
  PROVE  \/ Meets(p)
         \/ /\ Met(SeqNo(p)) = {}
            /\ \E asked : \E first \in Number, n \in Nat :
                /\ Asking(asked) /\ Gap(SeqNo(p), first, n, asked) /\ Place(first, x + 1)
                /\ Counts(p, x, y, first, n)
<1>1. SUFFICES ASSUME ~ Meets(p)
               PROVE  /\ Met(SeqNo(p)) = {}
                      /\ \E asked : \E first \in Number, n \in Nat :
                          /\ Asking(asked) /\ Gap(SeqNo(p), first, n, asked) /\ Place(first, x + 1)
                          /\ Counts(p, x, y, first, n)
  OBVIOUS
<1>2. PICK seq, next : seq = SeqNo(p) /\ next = IF last = None THEN 0 ELSE (last + 1) % NumSeq
  OBVIOUS
<1>3. /\ Met(seq) = {}
      /\ \E asked : CountsFrom(p, seq, next, asked)
  BY <1>1, <1>2, CountIs
<1>4. last # None /\ next = (last + 1) % NumSeq /\ use.nak # 0
  BY <1>2, UseType DEF Number, None
<1>5. /\ next \in Number /\ Place(next, x + 1)
      /\ seq = next <=> y = x + 1
      /\ ~ (seq \in Restart /\ last \in Settled)
      /\ y > x + 1 => /\ (seq - next) % NumSeq = y - x - 1
                      /\ \/ seq > next /\ seq - next < Half /\ seq - next = y - x - 1
                         \/ next > seq /\ next - seq > Half
      /\ y < x + 1 => /\ ~ (seq > next /\ seq - next < Half)
                      /\ ~ (next > seq /\ next - seq > Half)
  BY <1>2, <1>4, HowFar
<1>. DEFINE Goal == \E asked : \E first \in Number, n \in Nat :
                       /\ Asking(asked) /\ Gap(SeqNo(p), first, n, asked) /\ Place(first, x + 1)
                       /\ Counts(p, x, y, first, n)
<1>0. ASSUME NEW n \in Nat, NEW asked, Asking(asked), Gap(seq, next, n, asked), Counts(p, x, y, next, n)
      PROVE  Goal
  <2>1. /\ Asking(asked) /\ Gap(SeqNo(p), next, n, asked) /\ Place(next, x + 1)
        /\ Counts(p, x, y, next, n)
    BY <1>0, <1>2, <1>5
  <2> QED BY <1>5, <2>1, Zenon
<1> HIDE DEF Goal
<1>6. NumSeq \in Nat \ {0} /\ MaxResend \in Nat \ {0} /\ seq \in 0 .. NumSeq - 1 /\ next \in 0 .. NumSeq - 1
  BY <1>2, <1>5, Constants DEF Number
<1>7. Goal
  <2>7. CASE y = x + 1
    <3>1. \E asked : Asking(asked) /\ Gap(seq, next, 0, asked) /\ last' = seq /\ passed \subseteq passed'
      BY <1>3, <1>4, <1>5, <2>7 DEF CountsFrom
    <3>2. Counts(p, x, y, next, 0)
      BY <1>2, <2>7, <3>1 DEF Counts
    <3> QED BY <1>0, <3>1, <3>2
  <2>8. CASE y < x + 1
    <3>1. \E asked : Asking(asked) /\ Gap(seq, next, 0, asked) /\ last' = last /\ passed \subseteq passed'
      <4>1. seq # next
        BY <1>5, <2>8
      <4> QED BY <1>3, <1>4, <1>5, <2>8, <4>1 DEF CountsFrom
    <3>2. Counts(p, x, y, next, 0)
      BY <1>2, <2>8, <3>1 DEF Counts
    <3> QED BY <1>0, <3>1, <3>2
  <2>9. CASE y > x + 1 /\ seq > next /\ seq - next < Half /\ seq - next = y - x - 1
    <3>1. seq # next /\ ~ (next > seq) /\ (seq - next) % NumSeq = y - x - 1
      BY <1>5, <1>6, <2>9
    <3>2. CASE seq - next > MaxResend
      <4>1. \E asked : /\ Asking(asked) /\ Gap(seq, next, 0, asked) /\ last' = seq
                       /\ passed \subseteq passed' /\ Leaves(p, next, 0, y - x - 1)
        BY <1>3, <1>4, <1>5, <2>9, <3>1, <3>2 DEF CountsFrom
      <4>2. Counts(p, x, y, next, 0)
        BY <1>2, <2>9, <4>1 DEF Counts
      <4> QED BY <1>0, <4>1, <4>2
    <3>3. CASE ~ (seq - next > MaxResend)
      <4>1. \E asked : Asking(asked) /\ Gap(seq, next, seq - next, asked) /\ last' = seq /\ passed \subseteq passed'
        BY <1>3, <1>4, <1>5, <2>9, <3>1, <3>3 DEF CountsFrom
      <4>2. seq - next \in Nat /\ seq - next = y - x - 1 /\ seq - next <= seq
        BY <1>6, <2>9
      <4>3. Counts(p, x, y, next, seq - next)
        BY <1>2, <2>9, <4>1, <4>2 DEF Counts
      <4> QED BY <1>0, <4>1, <4>2, <4>3
    <3> QED BY <3>2, <3>3
  <2>10. CASE y > x + 1 /\ next > seq /\ next - seq > Half
    <3>1. seq # next /\ ~ (seq > next) /\ (seq - next) % NumSeq = y - x - 1
      BY <1>5, <1>6, <2>10
    <3>2. PICK n : n = IF seq + (NumSeq - 1 - next) > MaxResend THEN MaxResend ELSE seq + (NumSeq - 1 - next)
      OBVIOUS
    <3>3. \E asked : /\ Asking(asked) /\ Gap(seq, next, n, asked) /\ last' = seq
                     /\ passed \subseteq passed'
                     /\ use.nak < 2 => Leaves(p, next, n, y - x - 1)
      BY <1>3, <1>4, <1>5, <2>10, <3>1, <3>2 DEF CountsFrom
    <3>4. n \in Nat
      BY <1>6, <3>2
    <3>5. y - x - 1 = seq - next + NumSeq
      <4>1. PICK g : g = seq - next + NumSeq * 1
        OBVIOUS
      <4>2. seq - next \in Int /\ 1 \in Int /\ g = seq - next + NumSeq /\ g \in 0 .. NumSeq - 1
        BY <1>6, <2>10, <4>1
      <4>3. (seq - next + NumSeq * 1) % NumSeq = (seq - next) % NumSeq
        BY <1>6, <4>2, Multiple, Zenon
      <4>4. g % NumSeq = g
        BY <1>6, <4>2
      <4> QED BY <3>1, <4>1, <4>2, <4>3, <4>4
    <3>6. n <= y - x - 1 /\ (n = 1 => y - x - 1 <= 2)
      BY <1>6, <3>2, <3>5 DEF Tells
    <3>7. Counts(p, x, y, next, n)
      BY <1>2, <1>6, <2>10, <3>3, <3>6 DEF Counts
    <3> QED BY <1>0, <3>3, <3>4, <3>7
  <2> QED BY <1>5, <2>7, <2>8, <2>9, <2>10
<1> QED BY <1>2, <1>3, <1>7 DEF Goal
-----------------------------------------------------------------------------
(* A packet comes. *)

\* A receiver of a sender that stays, and what is known of the two.
Repairs(r, w) ==
  /\ use.reenter = {} /\ use.nak > 0 /\ Tells(r, w) /\ Within(use, r)
  /\ Recent(r) /\ Receives(r) /\ Expects(r, w)

LEMMA Comes ==
  ASSUME IInv, NEW r \in Nat, NEW w \in Nat, Repairs(r, w), Close(w), NEW p \in net, Timed(p)
  PROVE  /\ p \in Sent /\ SentUpTo(p) \in Nat /\ SeqNo(p) \in Number
         /\ Place(SeqNo(p), SentUpTo(p)) /\ Total - SentUpTo(p) <= r /\ Total \in Nat
         /\ \A a \in arrived : SentUpTo(a) \in Nat
         /\ \A a \in arrived : Timed(a) => SentUpTo(a) - SentUpTo(p) < r
         /\ (\E a \in arrived : Timed(a)) =>
              \E a \in arrived : /\ Timed(a) /\ last \in {None, SeqNo(a)}
                                 /\ SentUpTo(p) - SentUpTo(a) < w
<1>1. p \in Sent /\ arrived \subseteq Sent /\ use.reenter = {}
  BY DEF IInv, Known, Repairs
<1>2. SentUpTo(p) \in Nat /\ SeqNo(p) \in Number /\ Total \in Nat
  BY <1>1, SentPlace
<1>3. Total - SentUpTo(p) <= r
  <2>1. Age(p) < r
    BY DEF Repairs, Recent
  <2> QED BY <1>2, <2>1 DEF Age
<1>4. \A a \in arrived : SentUpTo(a) \in Nat /\ (Timed(a) => SentUpTo(a) < Total)
  BY <1>1, SentPlace
<1>5. Place(SeqNo(p), SentUpTo(p))
  BY <1>1, PlaceOf
<1> QED BY <1>1, <1>2, <1>3, <1>4, <1>5 DEF Close

LEMMA HearSame ==
  ASSUME TypeOK, NEW p, Hear(p)
  PROVE  /\ use' = use /\ frames' = frames /\ ring' = ring /\ Sent' = Sent /\ Total' = Total
         /\ \A q : /\ SeqNo(q)' = SeqNo(q) /\ SentUpTo(q)' = SentUpTo(q)
                   /\ Timed(q)' <=> Timed(q)
                   /\ HasAttach(q)' <=> HasAttach(q)
                   /\ Held(q)' <=> Held(q)
                   /\ Newest(q)' <=> Newest(q)
         /\ arrived' = arrived \cup {p} /\ net \subseteq net' \cup {p} /\ trouble'.hurt = trouble.hurt
         /\ p \in net /\ Count(p)
<1>1. /\ use' = use /\ frames' = frames /\ ring' = ring
      /\ arrived' = arrived \cup {p} /\ net \subseteq net' \cup {p}
      /\ p \in net /\ Count(p)
  BY DEF Hear, sender
<1>2. trouble'.hurt = trouble.hurt
  <2>1. trouble' = trouble \/ trouble' = [trouble EXCEPT !.dups = @ + 1, !.again = TRUE]
    BY DEF Hear
  <2>2. trouble = [losses |-> trouble.losses, dups |-> trouble.dups, again |-> trouble.again,
                   hurt |-> trouble.hurt, late |-> trouble.late]
    BY DEF TypeOK
  <2> QED BY <2>1, <2>2
<1>3. Sent' = Sent /\ Total' = Total
  BY <1>1 DEF Sent, PacketsOf, Total
<1>4. ASSUME NEW q
      PROVE  /\ SeqNo(q)' = SeqNo(q) /\ SentUpTo(q)' = SentUpTo(q)
             /\ Timed(q)' <=> Timed(q)
             /\ HasAttach(q)' <=> HasAttach(q)
             /\ Held(q)' <=> Held(q)
  BY <1>1 DEF SeqNo, SentUpTo, Timed, HasAttach, Held
<1>5. ASSUME NEW q
      PROVE  Newest(q)' <=> Newest(q)
  BY <1>3, <1>4 DEF Newest
<1> QED BY <1>1, <1>2, <1>3, <1>4, <1>5

\* A place that was overtaken is so by less than w more.
LEMMA UptoNext ==
  ASSUME IInv, NEW r \in Nat, NEW w \in Nat, Repairs(r, w), Close(w),
         NEW p \in net, Timed(p), Hear(p),
         NEW e \in Nat, NEW b \in Nat, NEW c \in Nat, Upto(e, b), b + w <= c
  PROVE  Upto(e, c)'
<1>1. PICK y : y = SentUpTo(p)
  OBVIOUS
<1>2. y \in Nat /\ \A a \in arrived : SentUpTo(a) \in Nat
  BY <1>1, Comes
<1>3. PICK a \in arrived : Timed(a) /\ e < SentUpTo(a)
  BY DEF Upto
<1>4. \A d \in arrived : Timed(d) => SentUpTo(d) - e <= b
  BY DEF Upto
<1>5. PICK d \in arrived : Timed(d) /\ y - SentUpTo(d) < w
  BY <1>1, <1>3, Comes
<1>6. y - e <= c
  <2>1. SentUpTo(d) \in Nat /\ SentUpTo(d) - e <= b
    BY <1>2, <1>4, <1>5
  <2> QED BY <1>2, <1>5, <2>1
<1>7. \A d1 \in arrived : Timed(d1) => SentUpTo(d1) - e <= c
  <2>1. SUFFICES ASSUME NEW d1 \in arrived, Timed(d1)
                 PROVE  SentUpTo(d1) - e <= c
    OBVIOUS
  <2>2. SentUpTo(d1) \in Nat /\ SentUpTo(d1) - e <= b
    BY <1>2, <1>4, <2>1
  <2> QED BY <2>2
<1> QED BY <1>1, <1>3, <1>6, <1>7, HearSame DEF Upto, IInv

\* A packet that is expected was overtaken.
LEMMA MetOvertaken ==
  ASSUME IInv, NEW r \in Nat, NEW w \in Nat, Repairs(r, w), Close(w),
         NEW p \in net, Timed(p), Met(SeqNo(p)) # {}
  PROVE  \E a \in arrived : Timed(a) /\ SentUpTo(p) < SentUpTo(a)
<1>1. PICK y : y = SentUpTo(p)
  OBVIOUS
<1>2. /\ y \in Nat /\ SeqNo(p) \in Number /\ Place(SeqNo(p), y)
      /\ \A a \in arrived : SentUpTo(a) \in Nat
      /\ \A a \in arrived : Timed(a) => SentUpTo(a) - y < r
      /\ r + 4 * w <= NumSeq
  BY <1>1, Comes DEF Repairs, Tells
<1>3. PICK k \in 1 .. 2 : expect[k].seq = SeqNo(p)
  BY DEF Met
<1>4. expect[k].seq # None /\ expect[k].count \in 0 .. 1
  <2>1. TypeOK
    BY DEF IInv
  <2> QED BY <1>2, <1>3, <2>1 DEF TypeOK, Number, None
<1>5. PICK e \in Nat : Place(SeqNo(p), e) /\ Upto(e, Lag(k, r, w))
  BY <1>3, <1>4 DEF Repairs, Expects
<1>6. Lag(k, r, w) \in Nat /\ Lag(k, r, w) <= r + 3 * w
  BY DEF Lag
<1>7. PICK a \in arrived : Timed(a) /\ e < SentUpTo(a)
  BY <1>5 DEF Upto
<1>8. PICK d \in arrived : Timed(d) /\ y - SentUpTo(d) < w
  BY <1>1, <1>7, Comes
<1>9. y - e < NumSeq
  <2>1. SentUpTo(d) \in Nat /\ SentUpTo(d) - e <= Lag(k, r, w) /\ NumSeq \in Nat
    BY <1>2, <1>5, <1>8, Constants DEF Upto
  <2> QED BY <1>2, <1>6, <1>8, <2>1
<1>10. e - y < NumSeq
  <2>1. SentUpTo(a) \in Nat /\ SentUpTo(a) - y < r /\ NumSeq \in Nat
    BY <1>2, <1>7, Constants
  <2> QED BY <1>2, <1>7, <2>1
<1>11. y = e
  BY <1>2, <1>5, <1>9, <1>10, OnePlace DEF IInv
<1> QED BY <1>1, <1>7, <1>11
-----------------------------------------------------------------------------
\* What a packet that comes leaves as it was, for the invariant.
Keeps(r, w) ==
  /\ Receives(r)' /\ Expects(r, w)'
  /\ (~trouble.hurt /\ Asks => Asks')

\* An untimed packet changes nothing.
LEMMA HearUntimed ==
  ASSUME IInv, NEW r \in Nat, NEW w \in Nat, Repairs(r, w), NEW p \in net, ~ Timed(p), Hear(p)
  PROVE  Keeps(r, w)
<1>1. last' = last /\ expect' = expect /\ passed' = passed /\ nak' = nak
  <2>1. frames[p[1]].ts = 0
    BY DEF Timed
  <2> QED BY <2>1, HearSame DEF Count, counting, IInv
<1>2. \A a : a \in arrived' /\ Timed(a)' <=> a \in arrived /\ Timed(a)
  BY HearSame DEF IInv
<1>3. \A q : q \in Overtaken' <=> q \in Overtaken
  BY <1>2, HearSame DEF Overtaken, IInv
<1>4. ASSUME NEW l
      PROVE  l \in arrived /\ Counted(l, r) => l \in arrived' /\ Counted(l, r)'
  BY <1>1, <1>2, <1>3, HearSame DEF Counted, IInv
<1>5. Receives(r)'
  <2>1. CASE last = None
    <3>1. \A q \in Overtaken' : Timed(q)' => q \in passed'
      BY <1>1, <1>3, <2>1, HearSame DEF Repairs, Receives, IInv
    <3> QED BY <1>1, <2>1, <3>1 DEF Receives
  <2>2. CASE last # None
    <3>1. PICK l \in arrived : Counted(l, r)
      BY <2>2 DEF Repairs, Receives
    <3>2. l \in arrived' /\ Counted(l, r)'
      BY <1>4, <3>1
    <3> QED BY <1>1, <2>2, <3>2 DEF Receives
  <2> QED BY <2>1, <2>2
<1>6. Expects(r, w)'
  <2>1. ASSUME NEW e, NEW b
        PROVE  Upto(e, b)' <=> Upto(e, b)
    <3>1. \A a : SentUpTo(a)' = SentUpTo(a)
      BY HearSame DEF IInv
    <3>2. (\E a \in arrived' : Timed(a)' /\ e < SentUpTo(a)') <=> (\E a \in arrived : Timed(a) /\ e < SentUpTo(a))
      BY <1>2, <3>1
    <3>3. (\A a \in arrived' : Timed(a)' => SentUpTo(a)' - e <= b)
            <=> (\A a \in arrived : Timed(a) => SentUpTo(a) - e <= b)
      BY <1>2, <3>1
    <3> QED BY <3>2, <3>3 DEF Upto
  <2>2. \A m, e : Place(m, e)' <=> Place(m, e)
    BY HearSame DEF Place, On, IInv
  <2>3. \A k \in 1 .. 2 : Lag(k, r, w)' = Lag(k, r, w)
    BY <1>1 DEF Lag
  <2>4. use' = use
    BY HearSame DEF IInv
  <2> QED BY <1>1, <2>1, <2>2, <2>3, <2>4 DEF Repairs, Expects
<1>7. ASSUME Asks
      PROVE  Asks'
  <2>1. SUFFICES ASSUME NEW q \in Sent, Missing(q)'
                 PROVE  Wanted(SeqNo(q))'
    BY HearSame DEF Asks, IInv
  <2>2. Missing(q)
    <3>1. q \notin arrived' /\ q \notin net' /\ q # p
      BY <2>1, HearSame DEF Missing, IInv
    <3>2. q \notin arrived /\ q \notin net
      BY <3>1, HearSame DEF IInv
    <3>3. Behind(q)
      BY <1>2, <2>1, HearSame DEF Missing, Behind, IInv
    <3> QED BY <1>1, <2>1, <3>2, <3>3, HearSame DEF Missing, IInv
  <2>3. Wanted(SeqNo(q))
    BY <1>7, <2>2 DEF Asks
  <2> QED BY <1>1, <2>3, HearSame DEF Wanted, Asked, IInv
<1> QED BY <1>5, <1>6, <1>7 DEF Keeps

\* A packet that was expected.
LEMMA HearMet ==
  ASSUME IInv, NEW r \in Nat, NEW w \in Nat, Repairs(r, w), Close(w),
         NEW p \in net, Timed(p), Hear(p), Meets(p)
  PROVE  Keeps(r, w)
<1>1. /\ use' = use /\ frames' = frames /\ ring' = ring /\ Sent' = Sent
      /\ \A q : /\ SeqNo(q)' = SeqNo(q) /\ SentUpTo(q)' = SentUpTo(q)
                /\ Timed(q)' <=> Timed(q)
                /\ HasAttach(q)' <=> HasAttach(q)
                /\ Held(q)' <=> Held(q)
      /\ arrived' = arrived \cup {p} /\ net \subseteq net' \cup {p}
  BY HearSame DEF IInv
<1>2. PICK y : y = SentUpTo(p)
  OBVIOUS
<1>3. /\ y \in Nat /\ SeqNo(p) \in Number /\ p \in Sent
      /\ \A a \in arrived : SentUpTo(a) \in Nat
      /\ \A a \in arrived : Timed(a) => SentUpTo(a) - y < r
      /\ Total - y <= r /\ Total \in Nat
  BY <1>2, Comes
<1>4. PICK over \in arrived : Timed(over) /\ y < SentUpTo(over)
  BY <1>2, MetOvertaken DEF Meets
<1>5. PICK k \in 1 .. 2 : /\ expect[k].seq = SeqNo(p)
                          /\ expect' = [expect EXCEPT ![k] = NoExpect]
                          /\ last' = last /\ passed' = passed /\ nak' = nak
  BY DEF Meets, Met
<1>6. \A q : q \in Overtaken' <=> q \in Overtaken
  <2>1. ASSUME NEW q \in Sent
        PROVE  (\E a \in arrived' : Timed(a) /\ SentUpTo(q) <= SentUpTo(a))
                 <=> (\E a \in arrived : Timed(a) /\ SentUpTo(q) <= SentUpTo(a))
    <3>1. SentUpTo(q) \in Nat
      BY SentPlace
    <3>2. SentUpTo(q) <= y => SentUpTo(q) <= SentUpTo(over)
      BY <1>3, <1>4, <3>1
    <3> QED BY <1>1, <1>2, <1>4, <3>2
  <2> QED BY <1>1, <2>1 DEF Overtaken
<1>7. Receives(r)'
  <2>1. CASE last = None
    <3>1. \A q \in Overtaken' : Timed(q)' => q \in passed'
      BY <1>1, <1>5, <1>6, <2>1 DEF Repairs, Receives
    <3> QED BY <1>5, <2>1, <3>1 DEF Receives
  <2>2. CASE last # None
    <3>1. PICK l \in arrived : Counted(l, r)
      BY <2>2 DEF Repairs, Receives
    <3>2. y - SentUpTo(l) < r
      <4>1. SentUpTo(l) \in Nat /\ SentUpTo(over) \in Nat /\ SentUpTo(over) - SentUpTo(l) < r
        BY <1>3, <1>4, <3>1 DEF Counted
      <4> QED BY <1>3, <1>4, <4>1
    <3>3. \A a \in arrived' : Timed(a)' => SentUpTo(a)' - SentUpTo(l)' < r
      BY <1>1, <1>2, <3>1, <3>2 DEF Counted
    <3>4. Counted(l, r)'
      BY <1>1, <1>5, <1>6, <3>1, <3>3 DEF Counted
    <3> QED BY <1>1, <1>5, <2>2, <3>1, <3>4 DEF Receives
  <2> QED BY <2>1, <2>2
<1>8. ASSUME NEW e \in Nat, NEW b \in Nat, NEW c \in Nat, Upto(e, b), b <= c
      PROVE  Upto(e, c)'
  <2>1. \A a \in arrived : Timed(a) => SentUpTo(a) - e <= c
    <3>1. SUFFICES ASSUME NEW a \in arrived, Timed(a)
                   PROVE  SentUpTo(a) - e <= c
      OBVIOUS
    <3>2. SentUpTo(a) \in Nat /\ SentUpTo(a) - e <= b
      BY <1>3, <1>8, <3>1 DEF Upto
    <3> QED BY <1>8, <3>2
  <2>2. y - e <= c
    <3>1. SentUpTo(over) \in Nat /\ SentUpTo(over) - e <= c
      BY <1>3, <1>4, <2>1
    <3> QED BY <1>3, <1>4, <3>1
  <2>3. \E a \in arrived : Timed(a) /\ e < SentUpTo(a)
    BY <1>8 DEF Upto
  <2> QED BY <1>1, <1>2, <2>1, <2>2, <2>3 DEF Upto
<1>9. expect \in [1 .. 2 -> [seq : Number \cup {None}, count : 0 .. 1]]
  BY DEF IInv, TypeOK
<1>10. Expects(r, w)'
  <2>1. ASSUME NEW j \in 1 .. 2
        PROVE  IF expect'[j].seq = None THEN expect'[j].count = 0
               ELSE \E e \in Nat : Place(expect[j].seq, e)' /\ Upto(e, Lag(j, r, w))'
    <3>1. CASE j = k
      BY <1>5, <1>9, <3>1 DEF NoExpect
    <3>2. CASE j # k
      <4>1. expect'[j] = expect[j]
        BY <1>5, <1>9, <3>2
      <4>2. CASE expect[j].seq = None
        BY <4>1, <4>2 DEF Repairs, Expects
      <4>3. CASE expect[j].seq # None
        <5>1. PICK e \in Nat : Place(expect[j].seq, e) /\ Upto(e, Lag(j, r, w))
          BY <4>3 DEF Repairs, Expects
        <5>2. /\ Lag(j, r, w) \in Nat /\ Lag(j, r, w)' \in Nat
              /\ Lag(j, r, w) <= Lag(j, r, w)'
          <6>1. expect'[k].count = 0 /\ expect'[j].count = expect[j].count /\ k \in {1, 2} /\ j \in {1, 2}
            BY <1>5, <1>9, <4>1 DEF NoExpect
          <6>2. CASE j = 1
            BY <6>1, <6>2 DEF Lag
          <6>3. CASE j = 2 /\ k = 1
            BY <1>9, <6>1, <6>3 DEF Lag
          <6> QED BY <3>2, <6>1, <6>2, <6>3
        <5>3. Upto(e, Lag(j, r, w))'
          <6>1. PICK c : c = Lag(j, r, w)'
            OBVIOUS
          <6>2. Upto(e, c)'
            BY <1>8, <5>1, <5>2, <6>1
          <6> QED BY <6>1, <6>2 DEF Upto
        <5>4. Place(expect[j].seq, e)'
          BY <1>1, <4>1, <5>1 DEF Place, On
        <5> QED BY <4>1, <4>3, <5>3, <5>4
      <4> QED BY <4>2, <4>3
    <3> QED BY <3>1, <3>2
  <2>2. use'.server => expect'[2].seq = None
    BY <1>1, <1>5, <1>9 DEF Repairs, Expects, NoExpect
  <2> QED BY <2>1, <2>2 DEF Expects
<1>11. ASSUME Asks
       PROVE  Asks'
  <2>1. SUFFICES ASSUME NEW q \in Sent, Missing(q)'
                 PROVE  Wanted(SeqNo(q))'
    BY <1>1 DEF Asks
  <2>2. q # p /\ q \notin net /\ q \notin arrived /\ q \notin passed /\ Timed(q) /\ HasAttach(q) /\ Held(q)
    BY <1>1, <1>5, <2>1 DEF Missing
  <2>3. SentUpTo(q) \in Nat /\ SeqNo(q) \in Number
    BY SentPlace
  <2>4. Behind(q)
    <3>1. SentUpTo(q) < y => SentUpTo(q) < SentUpTo(over)
      BY <1>3, <1>4, <2>3
    <3> QED BY <1>1, <1>2, <1>4, <2>1, <3>1 DEF Missing, Behind
  <2>5. Wanted(SeqNo(q))
    BY <1>11, <2>2, <2>4 DEF Asks, Missing
  <2>6. SeqNo(q) # SeqNo(p)
    <3>1. PICK z : z = SentUpTo(q)
      OBVIOUS
    <3>2. Total - z <= Ring /\ z < Total /\ Ring <= r /\ Ring \in Nat
      <4>1. PICK s \in 0 .. Ring - 1 : ring[s] = q
        BY <2>2 DEF Held, IInv, TypeOK
      <4>2. q # NoPacket
        BY <1>3 DEF Sent, PacketsOf, NoPacket, IInv, TypeOK
      <4>3. Age(q) \in 0 .. Ring - 1
        BY <4>1, <4>2 DEF Repairs, Recent
      <4>4. Ring \in Nat /\ Ring <= r
        BY Constants DEF Repairs, Within
      <4> QED BY <1>3, <2>3, <3>1, <4>3, <4>4 DEF Age
    <3>3. y < Total
      BY <1>2, SentPlace, <1>3
    <3>4. z - y < NumSeq /\ y - z < NumSeq
      <4>1. r + 4 * w <= NumSeq /\ NumSeq \in Nat /\ z \in Nat
        BY <2>3, <3>1, Constants DEF Repairs, Tells
      <4> QED BY <1>3, <3>2, <3>3, <4>1
    <3> QED BY <1>2, <1>3, <2>2, <3>1, <3>4, SamePacket DEF Repairs
  <2>7. Wanted(SeqNo(q))' <=> \/ \E j \in 1 .. 2 : expect'[j].seq = SeqNo(q)
                              \/ \E n \in nak' : SeqNo(q) \in Asked(n)
    BY <1>1 DEF Wanted, Asked
  <2>8. ASSUME NEW j \in 1 .. 2, expect[j].seq = SeqNo(q)
        PROVE  expect'[j].seq = SeqNo(q)
    BY <1>5, <1>9, <2>6, <2>8
  <2> QED BY <1>5, <2>5, <2>7, <2>8 DEF Wanted
<1> QED BY <1>7, <1>10, <1>11 DEF Keeps
-----------------------------------------------------------------------------
\* Counting asks for what is due and for what a gap adds.
LEMMA Wanting ==
  ASSUME IInv, NEW p \in net, Hear(p), NEW first \in Number, NEW n \in Nat, NEW asked,
         Asking(asked), Gap(SeqNo(p), first, n, asked), NEW q \in Sent,
         \/ Wanted(SeqNo(q)) \/ (n = 1 /\ SeqNo(q) = first)
         \/ n > 1 /\ n <= SeqNo(p) /\ SeqNo(q) \in SeqNo(p) - n .. SeqNo(p) - 1
         \/ n > 1 /\ \E a \in Ask(SeqNo(p), n) : SeqNo(q) \in Asked(a)
  PROVE  Wanted(SeqNo(q))'
<1>1. PICK m, seq : m = SeqNo(q) /\ seq = SeqNo(p)
  OBVIOUS
<1>2. m \in Number /\ seq \in Number
  <2>1. p \in Sent
    BY DEF IInv, Known
  <2> QED BY <1>1, <2>1, SentPlace
<1>3. TypeOK /\ Patient /\ nak \cup AskDue \subseteq asked /\ Gap(seq, first, n, asked)
  BY <1>1 DEF IInv, Asking
<1>4. n > 1 /\ n <= seq /\ m \in seq - n .. seq - 1 => \E a \in Ask(seq, n) : m \in Asked(a)
  <2>1. SUFFICES ASSUME n > 1, n <= seq, m \in seq - n .. seq - 1
                 PROVE  \E a \in Ask(seq, n) : m \in Asked(a)
    OBVIOUS
  <2>2. PICK a : a = [seq |-> seq % NumSeq, count |-> n]
    OBVIOUS
  <2>3. Asked(a) = seq - n .. seq - 1
    <3>1. n > 0
      BY <2>1
    <3> QED BY <1>2, <2>1, <2>2, <3>1, AskedRow
  <2> QED BY <2>1, <2>2, <2>3 DEF Ask
<1>5. \/ Wanted(m) \/ (n = 1 /\ m = first)
      \/ n > 1 /\ \E a \in Ask(seq, n) : m \in Asked(a)
  BY <1>1, <1>4
<1>6. Wanted(m)'
  BY <1>2, <1>3, <1>5, GapWants
<1>7. SeqNo(q)' = m
  BY <1>1, HearSame DEF IInv
<1> QED BY <1>6, <1>7 DEF Wanted, Asked

\* The first packet counted.
LEMMA HearFirst ==
  ASSUME IInv, NEW r \in Nat, NEW w \in Nat, Repairs(r, w), Close(w),
         NEW p \in net, Timed(p), Hear(p), last = None, ~ Meets(p)
  PROVE  Keeps(r, w)
<1>1. /\ use' = use /\ frames' = frames /\ ring' = ring /\ Sent' = Sent
      /\ \A q : /\ SeqNo(q)' = SeqNo(q) /\ SentUpTo(q)' = SentUpTo(q)
                /\ Timed(q)' <=> Timed(q)
                /\ HasAttach(q)' <=> HasAttach(q)
                /\ Held(q)' <=> Held(q)
      /\ arrived' = arrived \cup {p} /\ net \subseteq net' \cup {p}
  BY HearSame DEF IInv
<1>2. PICK y : y = SentUpTo(p)
  OBVIOUS
<1>3. /\ y \in Nat /\ SeqNo(p) \in Number /\ p \in Sent
      /\ \A a \in arrived : SentUpTo(a) \in Nat
      /\ \A a \in arrived : Timed(a) => SentUpTo(a) - y < r
      /\ 0 < r
  BY <1>2, Comes DEF Repairs, Tells
<1>4. PICK asked : /\ last' = SeqNo(p) /\ passed \cup Earlier(p) \subseteq passed'
                   /\ Asking(asked) /\ Gap(SeqNo(p), 0, 0, asked)
  BY <1>3, CountNone, HearSame DEF Repairs, IInv
<1>5. \A q \in Overtaken : Timed(q) => q \in passed
  BY DEF Repairs, Receives
<1>6. Receives(r)'
  <2>1. \A a \in arrived' : Timed(a)' => SentUpTo(a)' - SentUpTo(p)' < r
    BY <1>1, <1>2, <1>3
  <2>2. ASSUME NEW q \in Overtaken', q \notin passed', Timed(q)
        PROVE  SentUpTo(q) <= y
    <3>1. q \in Sent /\ \E a \in arrived' : Timed(a) /\ SentUpTo(q) <= SentUpTo(a)
      BY <1>1 DEF Overtaken
    <3>2. q \notin Overtaken
      BY <1>4, <1>5, <2>2
    <3> QED BY <1>1, <1>2, <3>1, <3>2 DEF Overtaken
  <2>3. Counted(p, r)'
    BY <1>1, <1>2, <1>4, <2>1, <2>2 DEF Counted
  <2>4. last' # None
    BY <1>3, <1>4 DEF Number, None
  <2> QED BY <1>1, <2>3, <2>4 DEF Receives
<1>7. Expects(r, w)'
  <2>1. \A e, b, c \in Nat : Upto(e, b) /\ b + w <= c => Upto(e, c)'
    BY UptoNext
  <2>2. PICK first, n : first = 0 /\ n = 0
    OBVIOUS
  <2>3. first \in Number /\ n \in Nat /\ n # 1 /\ Gap(SeqNo(p), first, n, asked)
    BY <1>4, <2>2, Constants DEF Number
  <2>4. n = 1 => \E e \in Nat : Place(first, e) /\ Upto(e, r)'
    BY <2>3
  <2> QED BY <1>1, <2>1, <2>3, <2>4, GapExpects DEF IInv, Repairs
<1>8. ASSUME Asks
      PROVE  Asks'
  <2>1. SUFFICES ASSUME NEW q \in Sent, Missing(q)'
                 PROVE  FALSE
    BY <1>1 DEF Asks
  <2>2. q \notin passed /\ q \notin Earlier(p) /\ Timed(q)
    BY <1>1, <1>4, <2>1 DEF Missing
  <2>3. \E a \in arrived : Timed(a) /\ SentUpTo(q) < SentUpTo(a)
    BY <1>1, <2>1, <2>2 DEF Missing, Behind, Earlier
  <2>4. q \in Overtaken
    BY <1>3, <2>3, SentPlace DEF Overtaken
  <2> QED BY <1>5, <2>2, <2>4
<1> QED BY <1>6, <1>7, <1>8 DEF Keeps

\* A packet is counted from the place of the last one counted.
LEMMA NextCounts ==
  ASSUME IInv, NEW r \in Nat, NEW w \in Nat, Repairs(r, w), Close(w),
         NEW p \in net, Timed(p), Hear(p), last # None, ~ Meets(p), NEW y, y = SentUpTo(p)
  PROVE  \E l \in arrived : \E x \in Nat :
           /\ x = SentUpTo(l) /\ Timed(l) /\ SeqNo(l) = last /\ x - y < r /\ y - x < w
           /\ \A a \in arrived : Timed(a) => SentUpTo(a) - x < r
           /\ \A q \in Overtaken \ passed : Timed(q) => SentUpTo(q) <= x
           /\ \E asked : \E first \in Number, n \in Nat :
                /\ Asking(asked) /\ Gap(SeqNo(p), first, n, asked) /\ Place(first, x + 1)
                /\ Counts(p, x, y, first, n) /\ Met(SeqNo(p)) = {}
<1>3. /\ y \in Nat /\ SeqNo(p) \in Number /\ p \in Sent
      /\ \A a \in arrived : SentUpTo(a) \in Nat
      /\ \A a \in arrived : Timed(a) => SentUpTo(a) - y < r
      /\ 1 < r /\ Place(SeqNo(p), y) /\ arrived \subseteq Sent
  BY Comes DEF Repairs, Tells, IInv, Known
<1>4. PICK l \in arrived : Counted(l, r)
  BY DEF Repairs, Receives
<1>5. PICK x : x = SentUpTo(l)
  OBVIOUS
<1>6. /\ x \in Nat /\ Timed(l) /\ last = SeqNo(l) /\ l \in Sent /\ last \in Number /\ Place(last, x)
      /\ \A a \in arrived : Timed(a) => SentUpTo(a) - x < r
      /\ \A q \in Overtaken \ passed : Timed(q) => SentUpTo(q) <= x
  <2>1. l \in Sent /\ use.reenter = {}
    BY <1>3 DEF Repairs
  <2>2. Timed(l) /\ last = SeqNo(l)
    BY <1>4 DEF Counted
  <2> QED BY <1>3, <1>4, <1>5, <2>1, <2>2, PlaceOf, SentPlace DEF Counted
<1>7. x - y < r
  BY <1>3, <1>5, <1>6
<1>8. y - x < w
  <2>1. PICK a \in arrived : Timed(a) /\ last \in {None, SeqNo(a)} /\ y - SentUpTo(a) < w
    BY <1>6, Comes
  <2>2. PICK z : z = SentUpTo(a)
    OBVIOUS
  <2>3. z \in Nat /\ SeqNo(a) = SeqNo(l) /\ a \in Sent /\ z - x < r
    BY <1>3, <1>6, <2>1, <2>2
  <2>4. CASE z <= x
    BY <1>3, <1>6, <2>1, <2>2, <2>3, <2>4
  <2>5. CASE z > x
    <3>1. z - x < NumSeq /\ x - z < NumSeq
      <4>1. r + 4 * w <= NumSeq /\ NumSeq \in Nat
        BY Constants DEF Repairs, Tells
      <4> QED BY <1>6, <2>3, <2>5, <4>1
    <3>2. a = l
      BY <1>5, <1>6, <2>1, <2>2, <2>3, <3>1, SamePacket DEF Repairs
    <3> QED BY <1>5, <2>1, <3>2
  <2> QED BY <1>6, <2>3, <2>4, <2>5
<1>9. \E asked : \E first \in Number, n \in Nat :
         /\ Asking(asked) /\ Gap(SeqNo(p), first, n, asked) /\ Place(first, x + 1)
         /\ Counts(p, x, y, first, n) /\ Met(SeqNo(p)) = {}
  <2>1. use.nak > 0 /\ Tells(r, w) /\ TypeOK /\ Count(p) /\ x \in Int /\ y \in Int
    BY <1>3, <1>6, HearSame DEF Repairs, IInv
  <2>2. /\ Met(SeqNo(p)) = {}
        /\ \E asked : \E first \in Number, n \in Nat :
              /\ Asking(asked) /\ Gap(SeqNo(p), first, n, asked) /\ Place(first, x + 1)
              /\ Counts(p, x, y, first, n)
    BY <1>3, <1>6, <1>7, <1>8, <2>1, CountSome
  <2> QED BY <2>2
<1> QED BY <1>5, <1>6, <1>7, <1>8, <1>9

\* A packet counted after others.
LEMMA HearNext ==
  ASSUME IInv, NEW r \in Nat, NEW w \in Nat, Repairs(r, w), Close(w), Straight,
         NEW p \in net, Timed(p), Hear(p), last # None, ~ Meets(p)
  PROVE  Keeps(r, w)
<1>1. /\ use' = use /\ frames' = frames /\ ring' = ring /\ Sent' = Sent
      /\ \A q : /\ SeqNo(q)' = SeqNo(q) /\ SentUpTo(q)' = SentUpTo(q)
                /\ Timed(q)' <=> Timed(q)
                /\ HasAttach(q)' <=> HasAttach(q)
                /\ Held(q)' <=> Held(q)
      /\ arrived' = arrived \cup {p} /\ net \subseteq net' \cup {p}
  BY HearSame DEF IInv
<1>2. PICK y : y = SentUpTo(p)
  OBVIOUS
<1>3. /\ y \in Nat /\ SeqNo(p) \in Number /\ p \in Sent
      /\ \A a \in arrived : SentUpTo(a) \in Nat
      /\ \A a \in arrived : Timed(a) => SentUpTo(a) - y < r
      /\ 1 < r /\ Place(SeqNo(p), y) /\ arrived \subseteq Sent
  BY <1>2, Comes DEF Repairs, Tells, IInv, Known
<1>4. PICK l \in arrived : \E x \in Nat :
         /\ x = SentUpTo(l) /\ Timed(l) /\ SeqNo(l) = last /\ x - y < r /\ y - x < w
         /\ \A a \in arrived : Timed(a) => SentUpTo(a) - x < r
         /\ \A q \in Overtaken \ passed : Timed(q) => SentUpTo(q) <= x
         /\ \E asked : \E first \in Number, n \in Nat :
              /\ Asking(asked) /\ Gap(SeqNo(p), first, n, asked) /\ Place(first, x + 1)
              /\ Counts(p, x, y, first, n) /\ Met(SeqNo(p)) = {}
  BY <1>2, NextCounts
<1>5. PICK x \in Nat :
         /\ x = SentUpTo(l) /\ Timed(l) /\ SeqNo(l) = last /\ x - y < r /\ y - x < w
         /\ \A a \in arrived : Timed(a) => SentUpTo(a) - x < r
         /\ \A q \in Overtaken \ passed : Timed(q) => SentUpTo(q) <= x
         /\ \E asked : \E first \in Number, n \in Nat :
              /\ Asking(asked) /\ Gap(SeqNo(p), first, n, asked) /\ Place(first, x + 1)
              /\ Counts(p, x, y, first, n) /\ Met(SeqNo(p)) = {}
  BY <1>4
<1>6. /\ x \in Nat /\ Timed(l) /\ last = SeqNo(l) /\ l \in Sent
      /\ \A a \in arrived : Timed(a) => SentUpTo(a) - x < r
      /\ \A q \in Overtaken \ passed : Timed(q) => SentUpTo(q) <= x
  BY <1>3, <1>5
<1>9. PICK asked : \E first \in Number, n \in Nat :
         /\ Asking(asked) /\ Gap(SeqNo(p), first, n, asked) /\ Place(first, x + 1)
         /\ Counts(p, x, y, first, n)
  BY <1>5
<1>10. PICK first \in Number, n \in Nat :
         /\ Asking(asked) /\ Gap(SeqNo(p), first, n, asked) /\ Place(first, x + 1)
         /\ Counts(p, x, y, first, n)
  BY <1>9
<1>11. passed \subseteq passed'
  BY <1>10 DEF Counts
<1>12. Receives(r)'
  <2>1. ASSUME NEW q \in Overtaken', q \notin passed', Timed(q)
        PROVE  SentUpTo(q) <= y \/ SentUpTo(q) <= x
    <3>1. q \in Sent /\ \E a \in arrived' : Timed(a) /\ SentUpTo(q) <= SentUpTo(a)
      BY <1>1, <2>1 DEF Overtaken
    <3>2. q \in Overtaken => SentUpTo(q) <= x
      BY <1>6, <1>11, <2>1
    <3> QED BY <1>1, <1>2, <3>1, <3>2 DEF Overtaken
  <2>2. CASE y > x /\ last' = SeqNo(p)
    <3>1. \A a \in arrived' : Timed(a)' => SentUpTo(a)' - SentUpTo(p)' < r
      BY <1>1, <1>2, <1>3
    <3>2. \A q \in (Overtaken \ passed)' : Timed(q)' => SentUpTo(q)' <= SentUpTo(p)'
      <4>1. SUFFICES ASSUME NEW q \in Overtaken', q \notin passed', Timed(q)
                     PROVE  SentUpTo(q) <= y
        BY <1>1, <1>2
      <4>2. SentUpTo(q) \in Nat
        BY <1>1, <4>1, SentPlace DEF Overtaken
      <4> QED BY <1>3, <1>6, <2>1, <2>2, <4>1, <4>2
    <3>3. Counted(p, r)'
      BY <1>1, <2>2, <3>1, <3>2 DEF Counted
    <3>4. last' # None
      BY <1>3, <2>2 DEF Number, None
    <3> QED BY <1>1, <3>3, <3>4 DEF Receives
  <2>3. CASE y <= x /\ last' = last
    <3>1. \A a \in arrived' : Timed(a)' => SentUpTo(a)' - SentUpTo(l)' < r
      BY <1>1, <1>2, <1>3, <1>5, <1>6, <2>3
    <3>2. \A q \in (Overtaken \ passed)' : Timed(q)' => SentUpTo(q)' <= SentUpTo(l)'
      <4>1. SUFFICES ASSUME NEW q \in Overtaken', q \notin passed', Timed(q)
                     PROVE  SentUpTo(q) <= x
        BY <1>1, <1>5
      <4>2. SentUpTo(q) \in Nat
        BY <1>1, <4>1, SentPlace DEF Overtaken
      <4> QED BY <1>3, <1>6, <2>1, <2>3, <4>1, <4>2
    <3>3. Counted(l, r)'
      BY <1>1, <1>6, <2>3, <3>1, <3>2 DEF Counted
    <3> QED BY <1>1, <2>3, <3>3 DEF Receives
  <2> QED BY <1>3, <1>6, <1>10, <2>2, <2>3 DEF Counts
<1>13. Expects(r, w)'
  <2>1. \A e, b, c \in Nat : Upto(e, b) /\ b + w <= c => Upto(e, c)'
    BY UptoNext
  <2>2. ASSUME n = 1
        PROVE  Place(first, x + 1) /\ Upto(x + 1, r)'
    <3>1. y > x + 1 /\ y - (x + 1) <= r
      BY <1>3, <1>6, <1>10, <2>2 DEF Counts
    <3>2. \A a \in arrived : Timed(a) => SentUpTo(a) - (x + 1) <= r
      <4>1. SUFFICES ASSUME NEW a \in arrived, Timed(a)
                     PROVE  SentUpTo(a) - (x + 1) <= r
        OBVIOUS
      <4>2. SentUpTo(a) \in Nat /\ SentUpTo(a) - x < r
        BY <1>3, <1>6, <4>1
      <4> QED BY <1>6, <4>2
    <3> QED BY <1>1, <1>2, <1>10, <3>1, <3>2 DEF Upto
  <2>3. n = 1 => \E e \in Nat : Place(first, e) /\ Upto(e, r)'
    <3>1. x + 1 \in Nat
      BY <1>6
    <3> QED BY <2>2, <3>1
  <2> QED BY <1>1, <1>10, <2>1, <2>3, GapExpects DEF IInv, Repairs
<1>14. ASSUME Asks
       PROVE  Asks'
  <2>1. SUFFICES ASSUME NEW q \in Sent, Missing(q)'
                 PROVE  Wanted(SeqNo(q))'
    BY <1>1 DEF Asks
  <2>2. /\ q # p /\ q \notin net /\ q \notin arrived /\ q \notin passed' /\ q \notin passed
        /\ Timed(q) /\ HasAttach(q) /\ Held(q)
        /\ \E a \in arrived' : Timed(a) /\ SentUpTo(q) < SentUpTo(a)
    BY <1>1, <1>11, <2>1 DEF Missing, Behind
  <2>3. PICK z : z = SentUpTo(q)
    OBVIOUS
  <2>4. z \in Nat /\ SeqNo(q) \in Number /\ Place(SeqNo(q), z)
    BY <2>2, <2>3, SentPlace, PlaceOf DEF Repairs
  <2>5. CASE Behind(q)
    <3>1. Wanted(SeqNo(q))
      BY <1>14, <2>2, <2>5 DEF Asks, Missing
    <3> QED BY <1>10, <3>1, Wanting
  <2>6. CASE ~ Behind(q)
    <3>1. z < y
      BY <1>1, <1>2, <2>2, <2>3, <2>6 DEF Behind
    <3>2. z > x
      <4>1. ~ (z < x)
        BY <1>5, <1>6, <2>3, <2>6 DEF Behind
      <4>2. z # x
        <5>1. q # l /\ InLine(frames, use) /\ TypeOK /\ Known
          BY <2>2 DEF IInv
        <5> QED BY <1>5, <1>6, <2>2, <2>3, <5>1, PlaceIsOnes
      <4> QED BY <1>6, <2>4, <4>1, <4>2
    <3>3. y > x + 1
      BY <1>3, <1>6, <2>4, <3>1, <3>2
    <3>4. q \in Skipped(p, y - x - 1)
      <4>1. y - z <= y - x - 1
        BY <1>3, <1>6, <2>4, <3>2
      <4> QED BY <1>2, <2>3, <3>1, <4>1 DEF Skipped, Earlier
    <3>5. use.nak < 2 \/ first < SeqNo(p)
      <4>1. SUFFICES ASSUME use.nak = 2
                     PROVE  first < SeqNo(p)
        <5>1. use.nak \in 0 .. 2
          BY RtpStreamAssumption DEF IInv, TypeOK, Use
        <5> QED BY <5>1
      <4>2. use.start + Total < NumSeq /\ use.start \in Nat /\ Total \in Nat /\ y < Total /\ NumSeq \in Nat
        <5>1. use.start + Total < NumSeq
          BY <4>1 DEF Straight
        <5>2. use.start \in 0 .. NumSeq - 1
          BY RtpStreamAssumption DEF IInv, TypeOK, Use
        <5> QED BY <1>2, <1>3, <5>1, <5>2, SentPlace, Constants
      <4>3. use.start + 1 + y \in 0 .. NumSeq - 1 /\ use.start + 1 + (x + 1) \in 0 .. NumSeq - 1
        BY <1>3, <1>6, <3>3, <4>2
      <4>4. SeqNo(p) = use.start + 1 + y /\ first = use.start + 1 + (x + 1)
        BY <1>3, <1>10, <4>2, <4>3 DEF Place, On
      <4> QED BY <1>3, <1>6, <3>3, <4>2, <4>4
    <3>8. CASE Leaves(p, first, n, y - x - 1)
      <4>1. \/ n = 1 /\ SeqNo(q) = first
            \/ n > 1 /\ \E a \in Ask(SeqNo(p), n) : SeqNo(q) \in Asked(a)
        BY <2>2, <3>4, <3>8 DEF Leaves
      <4> QED BY <1>10, <4>1, Wanting
    <3>9. SUFFICES ASSUME n = y - x - 1, n <= SeqNo(p)
                   PROVE  Wanted(SeqNo(q))'
      BY <1>3, <1>6, <1>10, <3>3, <3>5, <3>8 DEF Counts
    <3>6. CASE n = 1
      <4>1. z = x + 1
        BY <1>3, <1>6, <2>4, <3>1, <3>2, <3>9, <3>6
      <4>2. SeqNo(q) = first
        BY <1>10, <2>4, <4>1 DEF Place, On
      <4> QED BY <1>10, <3>6, <4>2, Wanting
    <3>7. CASE n > 1
      <4>1. SeqNo(q) = SeqNo(p) - (y - z)
        <5>1. PICK c : c = use.start + 1
          OBVIOUS
        <5>2. c \in Int /\ NumSeq \in Nat \ {0} /\ c + y \in Int /\ z - y \in Int
          <6>1. TypeOK
            BY DEF IInv
          <6> QED BY <1>3, <2>4, <5>1, <6>1, UseType, Constants DEF Number
        <5>3. SeqNo(p) = (c + y) % NumSeq /\ SeqNo(q) = (c + z) % NumSeq
          BY <1>3, <2>4, <5>1 DEF Place, On
        <5>4. (((c + y) % NumSeq) + (z - y)) % NumSeq = ((c + y) + (z - y)) % NumSeq
          BY <5>2, SumMod, Zenon
        <5>5. (c + y) + (z - y) = c + z
          BY <1>3, <2>4, <5>2
        <5>6. SeqNo(p) + (z - y) \in 0 .. NumSeq - 1
          BY <1>3, <1>6, <2>4, <3>1, <3>2, <3>9, <5>2 DEF Number
        <5>7. (SeqNo(p) + (z - y)) % NumSeq = SeqNo(p) + (z - y)
          BY <5>2, <5>6
        <5>8. SeqNo(q) = SeqNo(p) + (z - y)
          BY <5>3, <5>4, <5>5, <5>7
        <5> QED BY <1>3, <2>4, <5>8 DEF Number
      <4>2. SeqNo(q) \in SeqNo(p) - n .. SeqNo(p) - 1
        BY <1>3, <1>6, <2>4, <3>1, <3>2, <3>9, <4>1 DEF Number
      <4> QED BY <1>10, <3>9, <3>7, <4>2, Wanting
    <3> QED BY <1>3, <1>6, <3>3, <3>9, <3>6, <3>7
  <2> QED BY <2>5, <2>6
<1> QED BY <1>12, <1>13, <1>14 DEF Keeps
-----------------------------------------------------------------------------
(* The other steps. *)

\* The receiver counts nothing; what is sent is later than what was.
Still ==
  /\ use' = use /\ arrived' = arrived /\ expect' = expect
  /\ Sent \subseteq Sent' /\ \A q \in Sent' \ Sent : SentUpTo(q)' \in Nat /\ Total <= SentUpTo(q)'
  /\ \A q \in Sent : /\ SeqNo(q)' = SeqNo(q) /\ SentUpTo(q)' = SentUpTo(q)
                     /\ Timed(q)' = Timed(q) /\ HasAttach(q)' = HasAttach(q)

LEMMA StillReceives ==
  ASSUME IInv, NEW r \in Nat, NEW w \in Nat, Repairs(r, w), Still
  PROVE  /\ Expects(r, w)'
         /\ last' = last /\ passed' = passed => Receives(r)'
<1>1. arrived \subseteq Sent /\ \A a \in arrived : SentUpTo(a) \in Nat
  <2>1. arrived \subseteq Sent
    BY DEF IInv, Known
  <2> QED BY <2>1, SentPlace
<1>2. Expects(r, w)'
  <2>1. ASSUME NEW e, NEW b, Upto(e, b)
        PROVE  Upto(e, b)'
    BY <1>1, <2>1 DEF Upto, Still
  <2>2. ASSUME NEW k \in 1 .. 2
        PROVE  IF expect'[k].seq = None THEN expect'[k].count = 0
               ELSE \E e \in Nat : Place(expect[k].seq, e)' /\ Upto(e, Lag(k, r, w))'
    <3>1. expect' = expect /\ use' = use
      BY DEF Still
    <3>2. CASE expect[k].seq = None
      BY <3>1, <3>2 DEF Repairs, Expects
    <3>3. CASE expect[k].seq # None
      <4>1. PICK e \in Nat : Place(expect[k].seq, e) /\ Upto(e, Lag(k, r, w))
        BY <3>3 DEF Repairs, Expects
      <4>2. PICK b : b = Lag(k, r, w)
        OBVIOUS
      <4>3. Lag(k, r, w)' = b
        BY <3>1, <4>2 DEF Lag
      <4>4. Upto(e, b)'
        BY <2>1, <4>1, <4>2
      <4>5. Upto(e, Lag(k, r, w))'
        BY <4>3, <4>4 DEF Upto
      <4>6. Place(expect[k].seq, e)'
        BY <3>1, <4>1 DEF Place, On
      <4> QED BY <3>1, <3>3, <4>5, <4>6
    <3> QED BY <3>2, <3>3
  <2>3. use'.server => expect'[2].seq = None
    BY DEF Repairs, Expects, Still
  <2> QED BY <2>2, <2>3 DEF Expects
<1>3. ASSUME last' = last, passed' = passed
      PROVE  Receives(r)'
  <2>1. ASSUME NEW q \in Overtaken', Timed(q)'
        PROVE  q \in Overtaken /\ Timed(q) /\ SentUpTo(q)' = SentUpTo(q)
    <3>1. PICK a \in arrived : Timed(a)' /\ SentUpTo(q)' <= SentUpTo(a)'
      BY <2>1 DEF Overtaken, Still
    <3>2. Timed(a) /\ SentUpTo(a)' = SentUpTo(a) /\ SentUpTo(a) < Total /\ Total \in Nat
      BY <1>1, <3>1, SentPlace DEF Still
    <3>3. q \in Sent' /\ (q \notin Sent => SentUpTo(q)' \in Nat /\ Total <= SentUpTo(q)')
      BY <2>1 DEF Overtaken, Still
    <3>4. q \in Sent
      <4>1. SUFFICES ASSUME q \notin Sent
                     PROVE  FALSE
        OBVIOUS
      <4>2. PICK z : z = SentUpTo(q)'
        OBVIOUS
      <4>3. Total <= z /\ z <= SentUpTo(a)
        BY <3>1, <3>2, <3>3, <4>1, <4>2
      <4>4. z \in Int
        BY <3>3, <4>1, <4>2
      <4> QED BY <1>1, <3>2, <4>3, <4>4
    <3> QED BY <2>1, <3>1, <3>2, <3>4 DEF Overtaken, Still
  <2>2. CASE last = None
    <3>1. \A q \in Overtaken' : Timed(q)' => q \in passed'
      BY <1>3, <2>1, <2>2 DEF Repairs, Receives
    <3> QED BY <1>3, <2>2, <3>1 DEF Receives
  <2>3. CASE last # None
    <3>1. PICK l \in arrived : Counted(l, r)
      BY <2>3 DEF Repairs, Receives
    <3>2. \A q \in (Overtaken \ passed)' : Timed(q)' => SentUpTo(q)' <= SentUpTo(l)'
      BY <1>1, <1>3, <2>1, <3>1 DEF Counted, Still
    <3>3. \A a \in arrived' : Timed(a)' => SentUpTo(a)' - SentUpTo(l)' < r
      BY <1>1, <3>1 DEF Counted, Still
    <3>4. Counted(l, r)'
      BY <1>1, <1>3, <3>1, <3>2, <3>3 DEF Counted, Still
    <3> QED BY <1>3, <2>3, <3>1, <3>4 DEF Receives, Still
  <2> QED BY <2>2, <2>3
<1> QED BY <1>2, <1>3

\* What is missing was missing before, unless it is asked for as before.
LEMMA StillAsks ==
  ASSUME IInv, Still, Asks, passed \subseteq passed', net \subseteq net',
         \A q \in Sent : Held(q)' => Held(q),
         \A q \in Sent : Missing(q) /\ q \notin net' /\ Wanted(SeqNo(q)) => \/ \E k \in 1 .. 2 : expect[k].seq = SeqNo(q)
                                                  \/ \E n \in nak' : SeqNo(q) \in Asked(n)
  PROVE  Asks'
<1>1. arrived \subseteq Sent
  BY DEF IInv, Known
<1>2. SUFFICES ASSUME NEW q \in Sent', Missing(q)'
               PROVE  Wanted(SeqNo(q))'
  BY DEF Asks
<1>3. PICK a \in arrived : Timed(a)' /\ SentUpTo(q)' < SentUpTo(a)'
  BY <1>2 DEF Missing, Behind, Still
<1>4. Timed(a) /\ SentUpTo(a)' = SentUpTo(a) /\ SentUpTo(a) < Total /\ Total \in Nat /\ SentUpTo(a) \in Nat
  BY <1>1, <1>3, SentPlace DEF Still
<1>5. q \in Sent
  <2>1. SUFFICES ASSUME q \notin Sent
                 PROVE  FALSE
    OBVIOUS
  <2>2. Total <= SentUpTo(q)' /\ SentUpTo(q)' < SentUpTo(a)
    BY <1>3, <1>4, <2>1 DEF Still
  <2>3. SentUpTo(q)' \in Nat
    BY <1>2, <2>1 DEF Still
  <2> QED BY <1>4, <2>2, <2>3
<1>6. Missing(q) /\ q \notin net'
  BY <1>2, <1>3, <1>4, <1>5 DEF Missing, Behind, Still
<1>7. Wanted(SeqNo(q))
  BY <1>5, <1>6 DEF Asks
<1> QED BY <1>5, <1>6, <1>7 DEF Wanted, Asked, Still

\* The invariant of a stream that is repaired.
RepairInv(r, w) ==
  IInv /\ (use.reenter = {} /\ use.nak > 0 => Repairs(r, w) /\ (~trouble.hurt => Asks))

LEMMA SendStill ==
  ASSUME IInv, Send
  PROVE  /\ Still /\ last' = last /\ passed' = passed /\ nak' = nak /\ net \subseteq net'
         /\ trouble'.hurt = trouble.hurt
         /\ \A q \in Sent : Held(q)' => Held(q)
<1>1. TypeOK /\ Known /\ InLine(frames, use) /\ Len(frames) <= use.frames
  BY DEF IInv, Known
<1>2. PICK fr, gone : Sends(fr, gone)
  BY <1>1, SendSends
<1>3. PICK l : l = Len(frames) + 1
  OBVIOUS
<1>4. Adds(fr) /\ fr \in Frame /\ fr.n \in Nat /\ fr.ts \in Nat /\ Total \in Nat
  BY <1>1, <1>2, ClockType DEF Sends, Adds, Frame
<1>5. /\ Sent' = Sent \cup New(fr.n) /\ Sent \cap New(fr.n) = {}
      /\ \A p \in Sent : /\ SeqNo(p)' = SeqNo(p) /\ SentUpTo(p)' = SentUpTo(p)
                         /\ Timed(p)' = Timed(p) /\ HasAttach(p)' = HasAttach(p)
      /\ \A i \in 0 .. fr.n - 1 : <<l, i>> \in New(fr.n) /\ SentUpTo(<<l, i>>)' = Total + i
  BY <1>1, <1>3, <1>4, AddsPackets
<1>6. /\ use' = use /\ arrived' = arrived /\ expect' = expect /\ last' = last /\ passed' = passed
      /\ nak' = nak /\ net \subseteq net'
  BY <1>2 DEF Sends, Adds, counting
<1>7. Still
  <2>1. ASSUME NEW q \in Sent' \ Sent
        PROVE  SentUpTo(q)' \in Nat /\ Total <= SentUpTo(q)'
    <3>1. PICK i \in 0 .. fr.n - 1 : q = <<l, i>>
      BY <1>3, <1>5, <2>1 DEF New
    <3>2. SentUpTo(q)' = Total + i
      BY <1>5, <3>1
    <3> QED BY <1>4, <3>2
  <2> QED BY <1>5, <1>6, <2>1 DEF Still
<1>8. trouble'.hurt = trouble.hurt
  <2>1. trouble' = [trouble EXCEPT !.losses = @ + Cardinality(gone)]
    BY <1>2 DEF Sends
  <2>2. trouble = [losses |-> trouble.losses, dups |-> trouble.dups, again |-> trouble.again,
                   hurt |-> trouble.hurt, late |-> trouble.late]
    BY <1>1 DEF TypeOK
  <2> QED BY <2>1, <2>2
<1>9. ASSUME NEW q \in Sent, Held(q)'
      PROVE  Held(q)
  <2>1. DOMAIN ring = 0 .. Ring - 1 /\ DOMAIN ring' = 0 .. Ring - 1
    BY <1>1, <1>2 DEF TypeOK, Sends
  <2>2. PICK s \in 0 .. Ring - 1 : ring'[s] = q
    BY <1>9, <2>1 DEF Held
  <2>3. ring'[s] = ring[s] \/ ring'[s] \in New(fr.n)
    <3>1. CASE fr.ts = 0
      BY <1>2, <3>1 DEF Sends
    <3>2. CASE fr.ts # 0
      <4>1. RingAfter(fr, s)
        BY <1>2, <3>2 DEF Sends
      <4> QED BY <1>3, <1>5, <4>1 DEF RingAfter, Slots
    <3> QED BY <3>1, <3>2
  <2> QED BY <1>5, <2>1, <2>2, <2>3 DEF Held
<1> QED BY <1>6, <1>7, <1>8, <1>9

\* The sender answers a request with every packet of it that it still has.
LEMMA ReplyAsks ==
  ASSUME IInv, NEW r \in Nat, NEW w \in Nat, Repairs(r, w), ~trouble.hurt => Asks, Reply
  PROVE  /\ Still /\ last' = last /\ passed' = passed
         /\ ~trouble'.hurt => Asks'
<1>1. PICK k, gone : k \in nak /\ Answer(k, gone)
  BY DEF Reply
<1>2. PICK again : again = {p \in {ring[m % Ring] : m \in Asked(k)} :
                              p # NoPacket /\ SeqNo(p) \in Asked(k) /\ HasAttach(p)}
  OBVIOUS
<1>3. /\ use' = use /\ frames' = frames /\ ring' = ring
      /\ last' = last /\ passed' = passed /\ expect' = expect /\ arrived' = arrived
      /\ nak' = nak \ {k} /\ net' = net \cup (again \ gone)
      /\ trouble' = [trouble EXCEPT !.losses = @ + Cardinality(gone),
                                    !.again = @ \/ again # {},
                                    !.hurt = @ \/ gone # {}]
  BY <1>1, <1>2 DEF Answer, sender, counting
<1>4. Still /\ \A q \in Sent : Held(q)' => Held(q)
  <2>1. \A q : HasAttach(q)' = HasAttach(q) /\ (Held(q)' <=> Held(q))
    BY <1>3 DEF HasAttach, Held
  <2> QED BY <1>3, <2>1, SentSame DEF Still
<1>5. trouble'.hurt = (trouble.hurt \/ gone # {})
  <2>1. trouble = [losses |-> trouble.losses, dups |-> trouble.dups, again |-> trouble.again,
                   hurt |-> trouble.hurt, late |-> trouble.late]
    BY DEF IInv, TypeOK
  <2> QED BY <1>3, <2>1
<1>6. ASSUME ~trouble'.hurt
      PROVE  Asks'
  <2>1. gone = {} /\ Asks
    BY <1>5, <1>6
  <2>2. ASSUME NEW q \in Sent, Missing(q), q \notin net', Wanted(SeqNo(q))
        PROVE  \/ \E j \in 1 .. 2 : expect[j].seq = SeqNo(q)
               \/ \E n \in nak' : SeqNo(q) \in Asked(n)
    <3>1. SeqNo(q) \notin Asked(k)
      <4>1. SUFFICES ASSUME SeqNo(q) \in Asked(k)
                     PROVE  FALSE
        OBVIOUS
      <4>2. PICK s \in 0 .. Ring - 1 : ring[s] = q
        BY <2>2 DEF Missing, Held, IInv, TypeOK
      <4>3. q # NoPacket
        BY DEF Sent, PacketsOf, NoPacket, IInv, TypeOK
      <4>4. SeqNo(q) % Ring = s
        BY <4>2, <4>3 DEF Repairs, Recent
      <4>5. q \in {ring[m % Ring] : m \in Asked(k)}
        BY <4>1, <4>2, <4>4
      <4>6. q \in again
        BY <1>2, <2>2, <4>1, <4>3, <4>5 DEF Missing
      <4> QED BY <1>3, <2>1, <2>2, <4>6
    <3> QED BY <1>3, <2>2, <3>1 DEF Wanted
  <2> QED BY <1>3, <1>4, <2>1, <2>2, StillAsks
<1> QED BY <1>3, <1>4, <1>6

LEMMA CollectAsks ==
  ASSUME IInv, NEW r \in Nat, NEW w \in Nat, Repairs(r, w), ~trouble.hurt => Asks,
         NEW p \in hand, Collect(p)
  PROVE  Still /\ Receives(r)' /\ (~trouble'.hurt => Asks')
<1>1. /\ use' = use /\ frames' = frames /\ ring' = ring /\ net' = net /\ nak' = nak
      /\ trouble' = trouble /\ expect' = expect /\ arrived' = arrived
      /\ \/ last' = last /\ passed' = passed
         \/ last' = None /\ passed' = passed \cup Overtaken
  BY DEF Collect, sender, network
<1>2. Still /\ \A q \in Sent : Held(q)' => Held(q)
  <2>1. \A q : HasAttach(q)' = HasAttach(q) /\ (Held(q)' <=> Held(q))
    BY <1>1 DEF HasAttach, Held
  <2> QED BY <1>1, <2>1, SentSame DEF Still
<1>3. Receives(r)'
  <2>1. CASE last' = last /\ passed' = passed
    BY <1>2, <2>1, StillReceives
  <2>2. CASE last' = None /\ passed' = passed \cup Overtaken
    <3>1. \A q : Timed(q)' = Timed(q) /\ SentUpTo(q)' = SentUpTo(q)
      BY <1>1, SentSame
    <3>2. Overtaken' = Overtaken
      BY <1>1, <3>1, SentSame DEF Overtaken
    <3> QED BY <2>2, <3>2 DEF Receives
  <2> QED BY <1>1, <2>1, <2>2
<1>4. ASSUME Asks
      PROVE  Asks'
  <2>1. passed \subseteq passed'
    BY <1>1
  <2>2. \A q \in Sent : Missing(q) /\ q \notin net' /\ Wanted(SeqNo(q)) =>
          \/ \E k \in 1 .. 2 : expect[k].seq = SeqNo(q)
          \/ \E n \in nak' : SeqNo(q) \in Asked(n)
    BY <1>1 DEF Wanted
  <2> QED BY <1>1, <1>2, <1>4, <2>1, <2>2, StillAsks
<1> QED BY <1>1, <1>2, <1>3, <1>4

\* What is left: a request is lost, the server keeps a packet, a client looks
\* for a frame.
LEMMA OtherAsks ==
  ASSUME IInv, NEW r \in Nat, NEW w \in Nat, Repairs(r, w), ~trouble.hurt => Asks,
         \/ \E k \in nak : LoseRequest(k)
         \/ \E p \in hand : Keep(p)
         \/ \E x \in waiting : Expire(x) \/ TakeUntimed(x) \/ TakeInTurn(x) \/ TakeExpired(x)
         \/ TakeNothing \/ UNCHANGED vars
  PROVE  /\ Still /\ last' = last /\ passed' = passed
         /\ ~trouble'.hurt => Asks'
<1>1. /\ use' = use /\ frames' = frames /\ ring' = ring /\ net' = net
      /\ expect' = expect /\ arrived' = arrived /\ last' = last /\ passed' = passed
      /\ trouble'.hurt \/ (nak' = nak /\ trouble'.hurt = trouble.hurt)
  <2>0. trouble = [losses |-> trouble.losses, dups |-> trouble.dups, again |-> trouble.again,
                   hurt |-> trouble.hurt, late |-> trouble.late]
    BY DEF IInv, TypeOK
  <2>1. CASE \E k \in nak : LoseRequest(k)
    <3>1. trouble' = [trouble EXCEPT !.losses = @ + 1, !.hurt = TRUE]
      BY <2>1 DEF LoseRequest
    <3>2. trouble'.hurt
      BY <2>0, <3>1
    <3> QED BY <2>1, <3>2 DEF LoseRequest, sender, counting
  <2>2. CASE \E p \in hand : Keep(p)
    BY <2>2 DEF Keep, sender, network, counting
  <2>3. CASE \E x \in waiting : Expire(x)
    <3>1. trouble' = [trouble EXCEPT !.late = TRUE]
      BY <2>3 DEF Expire
    <3>2. trouble'.hurt = trouble.hurt
      BY <2>0, <3>1
    <3> QED BY <2>3, <3>2 DEF Expire, sender, counting
  <2>4. CASE \E x \in waiting : TakeUntimed(x) \/ TakeInTurn(x) \/ TakeExpired(x)
    BY <2>4 DEF TakeUntimed, TakeInTurn, TakeExpired, Take, sender, network, counting
  <2>5. CASE TakeNothing \/ UNCHANGED vars
    BY <2>5 DEF TakeNothing, vars, sender, network, counting
  <2> QED BY <2>1, <2>2, <2>3, <2>4, <2>5
<1>2. Still /\ \A q \in Sent : Held(q)' => Held(q)
  <2>1. \A q : HasAttach(q)' = HasAttach(q) /\ (Held(q)' <=> Held(q))
    BY <1>1 DEF HasAttach, Held
  <2> QED BY <1>1, <2>1, SentSame DEF Still
<1>3. ASSUME ~trouble'.hurt
      PROVE  Asks'
  <2>1. nak' = nak /\ Asks
    BY <1>1, <1>3
  <2>2. \A q \in Sent : Missing(q) /\ q \notin net' /\ Wanted(SeqNo(q)) =>
          \/ \E k \in 1 .. 2 : expect[k].seq = SeqNo(q)
          \/ \E n \in nak' : SeqNo(q) \in Asked(n)
    BY <2>1 DEF Wanted
  <2> QED BY <1>1, <1>2, <2>1, <2>2, StillAsks
<1> QED BY <1>1, <1>2, <1>3

LEMMA RepairStep ==
  ASSUME NEW r \in Nat, NEW w \in Nat, RepairInv(r, w), [Next]_vars,
         use.reenter = {} /\ use.nak > 0 => Close(w) /\ Straight
  PROVE  RepairInv(r, w)'
<1>1. IInv /\ IInv' /\ use' = use
  BY StepInv, SameUse DEF RepairInv
<1>2. SUFFICES ASSUME use.reenter = {}, use.nak > 0
               PROVE  Repairs(r, w)' /\ (~trouble'.hurt => Asks')
  BY <1>1 DEF RepairInv
<1>3. Repairs(r, w) /\ Close(w) /\ Straight /\ (~trouble.hurt => Asks)
  BY <1>2 DEF RepairInv
<1>4. Recent(r)'
  BY <1>1, <1>3, RecentStep DEF Repairs
<1>5. SUFFICES Receives(r)' /\ Expects(r, w)' /\ (~trouble'.hurt => Asks')
  BY <1>1, <1>3, <1>4 DEF Repairs, Tells, Within
<1>6. CASE Send
  <2>1. /\ Still /\ last' = last /\ passed' = passed /\ nak' = nak /\ net \subseteq net'
        /\ trouble'.hurt = trouble.hurt
        /\ \A q \in Sent : Held(q)' => Held(q)
    BY <1>1, <1>6, SendStill
  <2>2. Receives(r)' /\ Expects(r, w)'
    BY <1>1, <1>3, <2>1, StillReceives
  <2>3. \A q \in Sent : Missing(q) /\ q \notin net' /\ Wanted(SeqNo(q)) =>
          \/ \E k \in 1 .. 2 : expect[k].seq = SeqNo(q)
          \/ \E n \in nak' : SeqNo(q) \in Asked(n)
    BY <2>1 DEF Wanted
  <2>4. Asks => Asks'
    BY <1>1, <2>1, <2>3, StillAsks
  <2> QED BY <1>3, <2>1, <2>2, <2>4
<1>7. CASE Reply
  <2>1. Still /\ last' = last /\ passed' = passed /\ (~trouble'.hurt => Asks')
    BY <1>1, <1>3, <1>7, ReplyAsks
  <2> QED BY <1>1, <1>3, <2>1, StillReceives
<1>8. CASE Reenter
  BY <1>2, <1>8 DEF Reenter
<1>9. CASE \E p \in net : Hear(p)
  <2>1. PICK p \in net : Hear(p)
    BY <1>9
  <2>2. Keeps(r, w)
    BY <1>1, <1>3, <2>1, HearUntimed, HearMet, HearFirst, HearNext
  <2>3. trouble'.hurt = trouble.hurt
    BY <1>1, <2>1, HearSame DEF IInv
  <2> QED BY <1>3, <2>2, <2>3 DEF Keeps
<1>10. CASE \E p \in hand : Collect(p)
  <2>1. PICK p \in hand : Collect(p)
    BY <1>10
  <2>2. Still /\ Receives(r)' /\ (~trouble'.hurt => Asks')
    BY <1>1, <1>3, <2>1, CollectAsks
  <2> QED BY <1>1, <1>3, <2>2, StillReceives
<1>11. CASE \/ \E k \in nak : LoseRequest(k)
            \/ \E p \in hand : Keep(p)
            \/ \E x \in waiting : Expire(x) \/ TakeUntimed(x) \/ TakeInTurn(x) \/ TakeExpired(x)
            \/ TakeNothing \/ UNCHANGED vars
  <2>1. Still /\ last' = last /\ passed' = passed /\ (~trouble'.hurt => Asks')
    BY <1>1, <1>3, <1>11, OtherAsks
  <2> QED BY <1>1, <1>3, <2>1, StillReceives
<1> QED BY <1>6, <1>7, <1>8, <1>9, <1>10, <1>11 DEF Next

\* When all is quiet, the receiver that expects or asks for what is missing
\* expects it.
LEMMA QuietRepaired ==
  ASSUME NEW r \in Nat, NEW w \in Nat, RepairInv(r, w)
  PROVE  Repaired
<1>1. SUFFICES ASSUME Quiet, ~trouble.hurt, use.nak > 0, use.reenter = {},
                      NEW p \in Sent, p \notin arrived, HasAttach(p), Timed(p), Behind(p), Held(p),
                      p \notin passed
               PROVE  \E k \in 1 .. 2 : expect[k].seq = SeqNo(p)
  BY DEF Repaired, Quiet
<1>2. Missing(p)
  BY <1>1 DEF Missing, Quiet
<1>3. Wanted(SeqNo(p))
  BY <1>1, <1>2 DEF RepairInv, Asks
<1> QED BY <1>1, <1>3 DEF Wanted, Quiet

LEMMA RepairInit ==
  ASSUME NEW r \in Nat, NEW w \in Nat, Tells(r, w), Init,
         \A u \in Uses : u.reenter = {} /\ u.nak > 0 => Within(u, r)
  PROVE  RepairInv(r, w)
<1>1. /\ use \in Uses /\ frames = <<>> /\ DOMAIN frames = {} /\ net = {} /\ hand = {} /\ arrived = {}
      /\ ring = [s \in 0 .. Ring - 1 |-> NoPacket] /\ last = None
      /\ expect = [k \in 1 .. 2 |-> NoExpect]
  BY DEF Init
<1>2. Sent = {}
  BY <1>1 DEF Sent
<1>3. Recent(r)
  BY <1>1 DEF Recent
<1>4. Receives(r) /\ Asks
  BY <1>1, <1>2 DEF Receives, Asks, Overtaken
<1>5. Expects(r, w)
  BY <1>1 DEF Expects, NoExpect
<1> QED BY <1>1, <1>3, <1>4, <1>5, InitInv DEF RepairInv, Repairs

\* When no request and no answer was lost and all is quiet, what is missing
\* from the middle of the stream and still in the sender's ring is expected,
\* or one the receiver does not ask for (passed): for every stream whose
\* packets are less than r late, as long as none comes w or more ahead of the
\* last one, when the numbers can tell packets so far apart.  On across the
\* last number, except with NAK type 2, whose notes there are left to TLC.
THEOREM StreamRepairs ==
  ASSUME NEW r \in Nat, NEW w \in Nat, Tells(r, w),
         \A u \in Uses : u.reenter = {} /\ u.nak > 0 => Within(u, r)
  PROVE  Spec /\ [](Close(w) /\ Straight) => []Repaired
<1>1. Init => RepairInv(r, w)
  BY RepairInit
<1>2. RepairInv(r, w) /\ (Close(w) /\ Straight) /\ [Next]_vars => RepairInv(r, w)'
  BY RepairStep
<1>3. RepairInv(r, w) => Repaired
  BY QuietRepaired
<1> QED BY <1>1, <1>2, <1>3, PTL DEF Spec

\* A stream of at most w numbered packets.
Short(u, w) == \E m \in Nat : u.sizes \subseteq 1 .. m /\ m * u.frames <= w

\* The numbers of such a stream do not come round when it uses the list of
\* the lost.
Stays(u, w) == u.nak = 2 => u.start + w < NumSeq

ShortInv(r, w) ==
  RepairInv(r, w) /\ \A m \in Nat : use.sizes \subseteq 1 .. m => Total <= m * Len(frames)

LEMMA ShortClose ==
  ASSUME NEW r \in Nat, NEW w \in Nat, ShortInv(r, w), use.reenter = {}, use.nak > 0, Short(use, w)
  PROVE  Close(w) /\ (Stays(use, w) => Straight)
<1>1. IInv /\ Repairs(r, w)
  BY DEF ShortInv, RepairInv
<1>2. PICK m \in Nat : use.sizes \subseteq 1 .. m /\ m * use.frames <= w
  BY DEF Short
<1>3. Total <= w
  <2>1. use.frames \in Nat /\ Len(frames) \in Nat /\ Len(frames) <= use.frames /\ Total \in Nat
    <3>1. TypeOK /\ InLine(frames, use) /\ Len(frames) <= use.frames
      BY <1>1 DEF IInv, Known
    <3>2. use.frames \in Nat
      <4>1. use.frames \in 1 .. MaxFrames
        BY <3>1, RtpStreamAssumption DEF TypeOK, Use
      <4> QED BY <4>1
    <3>3. Len(frames) \in Nat
      BY <3>1 DEF TypeOK
    <3> QED BY <3>1, <3>2, <3>3, ClockType
  <2>2. m * Len(frames) <= m * use.frames /\ m * Len(frames) \in Int /\ m * use.frames \in Int
    BY <2>1, Times
  <2>3. Total <= m * Len(frames)
    BY <1>2 DEF ShortInv
  <2> QED BY <1>2, <2>1, <2>2, <2>3
<1>0. Stays(use, w) => Straight
  <2>1. use.start \in 0 .. NumSeq - 1 /\ Total \in Nat /\ NumSeq \in Nat
    <3>1. TypeOK /\ InLine(frames, use)
      BY <1>1 DEF IInv
    <3> QED BY <3>1, ClockType, Constants, RtpStreamAssumption DEF TypeOK, Use
  <2> QED BY <1>3, <2>1 DEF Stays, Straight
<1>4. SUFFICES ASSUME NEW p \in net, Timed(p), NEW b \in arrived, Timed(b)
               PROVE  \E a \in arrived : /\ Timed(a) /\ last \in {None, SeqNo(a)}
                                         /\ SentUpTo(p) - SentUpTo(a) < w
  BY <1>0 DEF Close
<1>5. p \in Sent /\ arrived \subseteq Sent
  BY <1>1 DEF IInv, Known
<1>6. \A a \in arrived : SentUpTo(p) - SentUpTo(a) < w
  <2>1. SUFFICES ASSUME NEW a \in arrived
                 PROVE  SentUpTo(p) - SentUpTo(a) < w
    OBVIOUS
  <2>2. SentUpTo(a) \in Nat /\ SentUpTo(p) \in Nat /\ SentUpTo(p) < Total /\ Total \in Nat
    BY <1>1, <1>4, <1>5, <2>1, SentPlace
  <2> QED BY <1>3, <2>2
<1>7. CASE last = None
  BY <1>4, <1>6, <1>7
<1>8. CASE last # None
  <2>1. PICK l \in arrived : Timed(l) /\ SeqNo(l) = last
    BY <1>1, <1>8 DEF Repairs, Receives, Counted
  <2> QED BY <1>6, <2>1
<1> QED BY <1>7, <1>8

LEMMA ShortStep ==
  ASSUME NEW r \in Nat, NEW w \in Nat, ShortInv(r, w), [Next]_vars,
         \A u \in Uses : u.reenter = {} /\ u.nak > 0 => Short(u, w) /\ Stays(u, w)
  PROVE  ShortInv(r, w)'
<1>1. /\ IInv /\ TypeOK /\ Known /\ InLine(frames, use) /\ Len(frames) <= use.frames
      /\ use' = use /\ use \in Uses
  BY SameUse DEF ShortInv, RepairInv, IInv, Known, TypeOK
<1>2. RepairInv(r, w)'
  <2>1. use.reenter = {} /\ use.nak > 0 => Close(w) /\ Straight
    BY <1>1, ShortClose
  <2> QED BY <2>1, RepairStep DEF ShortInv
<1>3. ASSUME NEW m \in Nat, use.sizes \subseteq 1 .. m
      PROVE  Total' <= m * Len(frames')
  <2>1. Total <= m * Len(frames) /\ Total \in Nat /\ Len(frames) \in Nat
    <3>1. Len(frames) \in Nat
      BY <1>1 DEF TypeOK
    <3> QED BY <1>1, <1>3, <3>1, ClockType DEF ShortInv
  <2>2. CASE Send
    <3>1. PICK fr, gone : Sends(fr, gone)
      BY <1>1, <2>2, SendSends
    <3>2. Adds(fr) /\ fr \in Frame /\ fr.n \in Nat /\ fr.ts \in Nat
      BY <3>1 DEF Sends, Adds, Frame
    <3>3. Total' = EndOf(fr) /\ fr.base = Total
      BY <1>1, <3>2, AddsInLine DEF Adds
    <3>4. fr.ts # 0 => fr.n <= m
      <4>1. fr.ts # 0 => fr.n \in use.sizes
        BY <3>2 DEF Adds, Described
      <4> QED BY <1>3, <4>1
    <3>5. Total' <= Total + m
      BY <2>1, <3>2, <3>3, <3>4 DEF EndOf
    <3>6. Len(frames') = Len(frames) + 1
      BY <1>1, <3>2 DEF Adds, TypeOK
    <3>7. m * (Len(frames) + 1) = m * Len(frames) + m /\ m * Len(frames) \in Int
      BY <2>1, Z3
    <3>8. Total' \in Nat
      BY <2>1, <3>2, <3>3 DEF EndOf
    <3> QED BY <2>1, <3>5, <3>6, <3>7, <3>8
  <2>3. CASE frames' = frames
    BY <2>1, <2>3, SentSame
  <2> QED BY <2>2, <2>3, SendsOnly
<1> QED BY <1>1, <1>2, <1>3 DEF ShortInv

LEMMA ShortInit ==
  ASSUME NEW r \in Nat, NEW w \in Nat, Tells(r, w), Init,
         \A u \in Uses : u.reenter = {} /\ u.nak > 0 => Within(u, r)
  PROVE  ShortInv(r, w)
<1>1. frames = <<>> /\ Total = 0 /\ Len(frames) = 0
  BY DEF Init, Total
<1>2. RepairInv(r, w)
  BY RepairInit
<1>3. \A m \in Nat : m * 0 = 0
  OBVIOUS
<1> QED BY <1>1, <1>2, <1>3 DEF ShortInv

\* The same of streams that are short, with no condition on the network.  With
\* NAK type 2 the numbers of such a stream do not come round.
THEOREM StreamRepairsShort ==
  ASSUME NEW r \in Nat, NEW w \in Nat, Tells(r, w),
         \A u \in Uses : u.reenter = {} /\ u.nak > 0 => Within(u, r) /\ Short(u, w) /\ Stays(u, w)
  PROVE  Spec => []Repaired
<1>1. Init => ShortInv(r, w)
  BY ShortInit
<1>2. ShortInv(r, w) /\ [Next]_vars => ShortInv(r, w)'
  BY ShortStep
<1>3. ShortInv(r, w) => Repaired
  BY QuietRepaired DEF ShortInv
<1> QED BY <1>1, <1>2, <1>3, PTL DEF Spec
-----------------------------------------------------------------------------
(* A receiver that asks for nothing that has come. *)

\* A packet the receiver may wait for, by its number.
Live(q) == Timed(q) /\ Newest(q) /\ q \notin passed

\* What has come is not expected, and nothing is expected twice.
Singly ==
  \A q \in Sent : Live(q) =>
    /\ q \in arrived => \A k \in 1 .. 2 : expect[k].seq # SeqNo(q)
    /\ Behind(q) => expect[1].seq # SeqNo(q) \/ expect[2].seq # SeqNo(q)

\* The request for n numbers before seq asks for no others.
LEMMA AskedBack ==
  ASSUME NEW seq \in Number, NEW n \in Nat, 0 < n, n < NumSeq,
         NEW q, q = [seq |-> seq % NumSeq, count |-> n], NEW m, m \in Asked(q)
  PROVE  \E j \in 1 .. n : m = (seq - j) % NumSeq
<1>1. seq \in 0 .. NumSeq - 1 /\ NumSeq \in Nat \ {0}
  BY Constants DEF Number
<1>2. seq % NumSeq = seq
  BY <1>1
<1>3. m \in (seq - n) % NumSeq .. (seq - 1) % NumSeq
  BY <1>2 DEF Asked
<1>4. CASE seq - n >= 0
  <2>1. (seq - n) % NumSeq = seq - n /\ (seq - 1) % NumSeq = seq - 1
    BY <1>1, <1>4, seq - n \in 0 .. NumSeq - 1, seq - 1 \in 0 .. NumSeq - 1
  <2>2. PICK j : j = seq - m
    OBVIOUS
  <2>3. j \in 1 .. n /\ seq - j = m /\ m \in 0 .. NumSeq - 1
    BY <1>1, <1>3, <1>4, <2>1, <2>2
  <2>4. m % NumSeq = m
    BY <1>1, <2>3
  <2> QED BY <2>3, <2>4
<1>5. ASSUME NEW k \in 1 .. NumSeq - 1, seq - k < 0
      PROVE  (seq - k) % NumSeq = seq - k + NumSeq
  <2>1. PICK z : z = seq - k + NumSeq
    OBVIOUS
  <2>2. z \in 0 .. NumSeq - 1 /\ seq - k \in Int /\ 1 \in Int /\ seq - k + NumSeq * 1 = z
    BY <1>1, <1>5, <2>1
  <2>3. (seq - k + NumSeq * 1) % NumSeq = (seq - k) % NumSeq
    BY <1>1, <2>2, Multiple, Zenon
  <2>4. z % NumSeq = z
    BY <1>1, <2>2
  <2> QED BY <2>1, <2>2, <2>3, <2>4
<1>6. CASE seq - n < 0
  <2>1. (seq - n) % NumSeq = seq - n + NumSeq
    BY <1>1, <1>5, <1>6
  <2>2. seq = 0
    <3>1. SUFFICES ASSUME seq > 0
                   PROVE  FALSE
      BY <1>1
    <3>2. (seq - 1) % NumSeq = seq - 1
      BY <1>1, <3>1, seq - 1 \in 0 .. NumSeq - 1
    <3>3. m \in seq - n + NumSeq .. seq - 1
      BY <1>3, <2>1, <3>2
    <3> QED BY <1>1, <3>3
  <2>3. (seq - 1) % NumSeq = NumSeq - 1
    <3>1. 1 \in 1 .. NumSeq - 1 /\ seq - 1 < 0
      BY <1>1, <2>2
    <3> QED BY <1>1, <1>5, <2>2, <3>1
  <2>4. PICK j : j = NumSeq - m
    OBVIOUS
  <2>5. j \in 1 .. n /\ j \in 1 .. NumSeq - 1 /\ seq - j < 0 /\ seq - j + NumSeq = m
    BY <1>1, <1>3, <2>1, <2>2, <2>3, <2>4
  <2> QED BY <1>5, <2>5
<1> QED BY <1>1, <1>4, <1>6

\* A step of another part leaves it so.
LEMMA StillSingly ==
  ASSUME IInv, Still, Singly, passed \subseteq passed'
  PROVE  Singly'
<1>1. arrived \subseteq Sent
  BY DEF IInv, Known
<1>2. SUFFICES ASSUME NEW q \in Sent', Live(q)'
               PROVE  /\ q \in arrived' => \A k \in 1 .. 2 : expect'[k].seq # SeqNo(q)'
                      /\ Behind(q)' => expect'[1].seq # SeqNo(q)' \/ expect'[2].seq # SeqNo(q)'
  BY DEF Singly
<1>3. CASE q \in Sent
  <2>1. Live(q) /\ SeqNo(q)' = SeqNo(q) /\ expect' = expect /\ arrived' = arrived
    <3>1. Newest(q)' => Newest(q)
      BY <1>3 DEF Newest, Still
    <3> QED BY <1>2, <1>3, <3>1 DEF Live, Still
  <2>2. Behind(q)' => Behind(q)
    BY <1>1, <1>3 DEF Behind, Still
  <2> QED BY <1>3, <2>1, <2>2 DEF Singly
<1>4. CASE q \notin Sent
  <2>1. q \notin arrived'
    BY <1>1, <1>4 DEF Still
  <2>2. ~ Behind(q)'
    <3>1. SUFFICES ASSUME NEW a \in arrived, Timed(a)', SentUpTo(q)' < SentUpTo(a)'
                   PROVE  FALSE
      BY DEF Behind, Still
    <3>2. Timed(a) /\ SentUpTo(a)' = SentUpTo(a)
      BY <1>1, <3>1 DEF Still
    <3>3. SentUpTo(a) < Total /\ Total \in Nat /\ SentUpTo(a) \in Nat
      BY <1>1, <3>2, SentPlace
    <3>4. SentUpTo(q)' \in Nat /\ Total <= SentUpTo(q)'
      BY <1>2, <1>4 DEF Still
    <3> QED BY <3>1, <3>2, <3>3, <3>4
  <2> QED BY <2>1, <2>2
<1> QED BY <1>3, <1>4

\* What counting does to the entries, and the requests it adds.
LEMMA GapAdds ==
  ASSUME TypeOK, Patient, NEW seq, NEW first, NEW n \in Nat, NEW asked,
         asked \subseteq nak \cup AskDue, Gap(seq, first, n, asked)
  PROVE  /\ \A k \in 1 .. 2 : \/ expect'[k].seq \in {None, expect[k].seq}
                              \/ n = 1 /\ expect'[k].seq = first
         /\ \E j \in 1 .. 2 : expect'[j].seq \in {None, expect[j].seq}
         /\ \A a \in nak' \ nak :
              \/ \E k \in 1 .. 2 : expect[k].seq # None /\ a \in Ask(expect[k].seq + 1, 1)
              \/ n > 1 /\ a \in Ask(seq, n)
<1>1. \/ n = 0 /\ expect' = Waited /\ nak' = asked
      \/ /\ n = 1 /\ Waited[1].seq = None
         /\ expect' = [Waited EXCEPT ![1] = [seq |-> first, count |-> 0]] /\ nak' = asked
      \/ /\ n = 1 /\ Waited[1].seq # None
         /\ expect' = [Waited EXCEPT ![2] = [seq |-> first, count |-> 0]]
         /\ nak' = asked \cup (IF Waited[2].seq = None THEN {} ELSE Ask(Waited[2].seq + 1, 1))
      \/ n > 1 /\ expect' = Waited /\ nak' = asked \cup Ask(seq, n)
  BY GapIs, Zenon
<1>2. Waited \in [1 .. 2 -> [seq : Number \cup {None}, count : 0 .. 1]]
  BY WaitedType
<1>3. \A k \in 1 .. 2 : Waited[k].seq \in {None, expect[k].seq}
  BY WaitedIs DEF NoExpect
<1>4. AskDue \subseteq UNION {Ask(expect[k].seq + 1, 1) : k \in {i \in 1 .. 2 : expect[i].seq # None}}
  BY DEF AskDue, Due
<1>5. CASE n # 1
  BY <1>1, <1>3, <1>4, <1>5
<1>6. CASE n = 1 /\ Waited[1].seq = None
  <2>1. expect' = [Waited EXCEPT ![1] = [seq |-> first, count |-> 0]] /\ nak' = asked
    BY <1>1, <1>6
  <2>2. expect'[1].seq = first /\ expect'[2].seq = Waited[2].seq
    BY <1>2, <2>1
  <2>3. \A k \in 1 .. 2 : k = 1 \/ k = 2
    OBVIOUS
  <2> QED BY <1>3, <1>4, <1>6, <2>1, <2>2, <2>3
<1>7. CASE n = 1 /\ Waited[1].seq # None
  <2>1. /\ expect' = [Waited EXCEPT ![2] = [seq |-> first, count |-> 0]]
        /\ nak' = asked \cup (IF Waited[2].seq = None THEN {} ELSE Ask(Waited[2].seq + 1, 1))
    BY <1>1, <1>7
  <2>2. expect'[2].seq = first /\ expect'[1].seq = Waited[1].seq
    BY <1>2, <2>1
  <2>3. \A k \in 1 .. 2 : k = 1 \/ k = 2
    OBVIOUS
  <2> QED BY <1>3, <1>4, <1>7, <2>1, <2>2, <2>3
<1> QED BY <1>5, <1>6, <1>7

\* No request that is added asks for what has come.
Sparing ==
  \A a \in nak' \ nak : \A q \in arrived' \ passed' :
    Timed(q) /\ Newest(q) => SeqNo(q) \notin Asked(a)

\* Every number up to the last one sent is that of a packet.
Dense == \A e \in 0 .. Total - 1 : \E q \in Sent : Timed(q) /\ SentUpTo(q) = e

\* A packet that is the newest of its number is not before a place of that
\* number.
LEMMA NewestPlace ==
  ASSUME IInv, use.reenter = {}, Dense, NEW q \in Sent, Newest(q), NEW e \in Nat, e < Total,
         Place(SeqNo(q), e)
  PROVE  e <= SentUpTo(q)
<1>1. PICK s \in Sent : Timed(s) /\ SentUpTo(s) = e
  <2>1. Total \in Nat
    BY SentPlace
  <2> QED BY <2>1 DEF Dense
<1>2. Place(SeqNo(s), e)
  BY <1>1, PlaceOf
<1>3. SeqNo(s) = SeqNo(q)
  BY <1>2 DEF Place, On
<1> QED BY <1>1, <1>3 DEF Newest

LEMMA UntimedSingly ==
  ASSUME IInv, Singly, NEW p \in net, ~ Timed(p), Hear(p)
  PROVE  Singly' /\ Sparing
<1>1. expect' = expect /\ passed' = passed /\ nak' = nak
  <2>1. frames[p[1]].ts = 0
    BY DEF Timed
  <2> QED BY <2>1, HearSame DEF Count, counting, IInv
<1>2. /\ use' = use /\ frames' = frames /\ ring' = ring /\ Sent' = Sent
      /\ \A q : /\ SeqNo(q)' = SeqNo(q) /\ SentUpTo(q)' = SentUpTo(q)
                /\ Timed(q)' <=> Timed(q)
                /\ Newest(q)' <=> Newest(q)
      /\ arrived' = arrived \cup {p}
  BY HearSame DEF IInv
<1>3. ASSUME NEW q \in Sent, Live(q)'
      PROVE  /\ q \in arrived' => \A k \in 1 .. 2 : expect'[k].seq # SeqNo(q)'
             /\ Behind(q)' => expect'[1].seq # SeqNo(q)' \/ expect'[2].seq # SeqNo(q)'
  <2>1. Live(q) /\ Timed(q)
    BY <1>1, <1>2, <1>3 DEF Live
  <2>2. q \in arrived' => q \in arrived
    BY <1>2, <2>1
  <2>3. Behind(q)' => Behind(q)
    BY <1>2 DEF Behind
  <2> QED BY <1>1, <1>2, <2>1, <2>2, <2>3 DEF Singly
<1> QED BY <1>1, <1>2, <1>3 DEF Singly, Sparing

LEMMA MetSingly ==
  ASSUME IInv, NEW r \in Nat, NEW w \in Nat, Repairs(r, w), Close(w), Singly,
         NEW p \in net, Timed(p), Hear(p), Meets(p)
  PROVE  Singly' /\ Sparing
<1>1. /\ use' = use /\ frames' = frames /\ ring' = ring /\ Sent' = Sent
      /\ \A q : /\ SeqNo(q)' = SeqNo(q) /\ SentUpTo(q)' = SentUpTo(q)
                /\ Timed(q)' <=> Timed(q)
                /\ Newest(q)' <=> Newest(q)
      /\ arrived' = arrived \cup {p}
  BY HearSame DEF IInv
<1>2. PICK y : y = SentUpTo(p)
  OBVIOUS
<1>3. y \in Nat /\ SeqNo(p) \in Number /\ p \in Sent /\ \A a \in arrived : SentUpTo(a) \in Nat
  BY <1>2, Comes
<1>4. PICK over \in arrived : Timed(over) /\ y < SentUpTo(over)
  BY <1>2, MetOvertaken DEF Meets
<1>5. PICK k \in 1 .. 2 : /\ expect[k].seq = SeqNo(p)
                          /\ expect' = [expect EXCEPT ![k] = NoExpect]
                          /\ last' = last /\ passed' = passed /\ nak' = nak
  BY DEF Meets, Met
<1>6. expect \in [1 .. 2 -> [seq : Number \cup {None}, count : 0 .. 1]]
  BY DEF IInv, TypeOK
<1>7. expect'[k].seq = None /\ \A j \in 1 .. 2 : j # k => expect'[j].seq = expect[j].seq
  BY <1>5, <1>6 DEF NoExpect
<1>8. ASSUME NEW q \in Sent, Live(q)'
      PROVE  /\ q \in arrived' => \A j \in 1 .. 2 : expect'[j].seq # SeqNo(q)'
             /\ Behind(q)' => expect'[1].seq # SeqNo(q)' \/ expect'[2].seq # SeqNo(q)'
  <2>1. Live(q) /\ Timed(q) /\ SeqNo(q) \in Number /\ SeqNo(q) # None /\ SentUpTo(q) \in Nat
    BY <1>1, <1>5, <1>8, SentPlace DEF Live, Number, None
  <2>2. k \in {1, 2}
    BY <1>5
  <2>3. expect'[1].seq # SeqNo(q) \/ expect'[2].seq # SeqNo(q)
    BY <1>7, <2>1, <2>2
  <2>4. CASE q \in arrived
    BY <1>1, <1>7, <1>8, <2>1, <2>3, <2>4 DEF Singly
  <2>5. CASE q = p
    <3>1. Behind(p)
      BY <1>2, <1>4 DEF Behind
    <3>2. expect[1].seq # SeqNo(p) \/ expect[2].seq # SeqNo(p)
      BY <1>3, <2>1, <2>5, <3>1 DEF Singly
    <3>3. \A j \in 1 .. 2 : expect'[j].seq # SeqNo(p)
      BY <1>5, <1>7, <2>1, <2>2, <2>5, <3>2
    <3> QED BY <1>1, <2>5, <3>3
  <2>6. CASE q \notin arrived'
    BY <1>1, <2>3, <2>6
  <2> QED BY <1>1, <2>4, <2>5, <2>6
<1> QED BY <1>1, <1>5, <1>8 DEF Singly, Sparing

LEMMA FirstSingly ==
  ASSUME IInv, NEW r \in Nat, NEW w \in Nat, Repairs(r, w), Close(w), Singly, use.nak = 1,
         NEW p \in net, Timed(p), Hear(p), last = None, ~ Meets(p)
  PROVE  Singly' /\ Sparing
<1>1. /\ use' = use /\ frames' = frames /\ ring' = ring /\ Sent' = Sent
      /\ \A q : /\ SeqNo(q)' = SeqNo(q) /\ SentUpTo(q)' = SentUpTo(q)
                /\ Timed(q)' <=> Timed(q)
                /\ Newest(q)' <=> Newest(q)
      /\ arrived' = arrived \cup {p}
  BY HearSame DEF IInv
<1>2. SeqNo(p) \in Number /\ p \in Sent /\ TypeOK /\ Patient
  BY Comes DEF IInv
<1>3. PICK asked : /\ last' = SeqNo(p) /\ passed \cup Earlier(p) \subseteq passed' /\ Met(SeqNo(p)) = {}
                   /\ Asking(asked) /\ Gap(SeqNo(p), 0, 0, asked)
  BY <1>2, CountNone, HearSame DEF Repairs, IInv
<1>4. asked \subseteq nak \cup AskDue
  BY <1>3 DEF Asking
<1>5. PICK first, n : first = 0 /\ n = 0
  OBVIOUS
<1>6. n \in Nat /\ Gap(SeqNo(p), first, n, asked)
  BY <1>3, <1>5
<1>7. /\ \A k \in 1 .. 2 : expect'[k].seq \in {None, expect[k].seq}
      /\ \A a \in nak' \ nak : \E k \in 1 .. 2 : expect[k].seq # None /\ a \in Ask(expect[k].seq + 1, 1)
  <2>1. /\ \A k \in 1 .. 2 : \/ expect'[k].seq \in {None, expect[k].seq}
                             \/ n = 1 /\ expect'[k].seq = first
        /\ \A a \in nak' \ nak :
              \/ \E k \in 1 .. 2 : expect[k].seq # None /\ a \in Ask(expect[k].seq + 1, 1)
              \/ n > 1 /\ a \in Ask(SeqNo(p), n)
    BY <1>2, <1>4, <1>6, GapAdds
  <2>2. n # 1 /\ ~ (n > 1)
    BY <1>5
  <2> QED BY <2>1, <2>2
<1>8. \A k \in 1 .. 2 : expect[k].seq # SeqNo(p)
  BY <1>3 DEF Met
<1>9. ASSUME NEW q \in Sent, Live(q)'
      PROVE  /\ q \in arrived' => \A k \in 1 .. 2 : expect'[k].seq # SeqNo(q)' /\ expect[k].seq # SeqNo(q)
             /\ Behind(q)' => expect'[1].seq # SeqNo(q)' \/ expect'[2].seq # SeqNo(q)'
  <2>1. Live(q) /\ q \notin Earlier(p) /\ Timed(q) /\ SeqNo(q) # None
    BY <1>1, <1>3, <1>9, SentPlace DEF Live, Number, None
  <2>2. q \in arrived' => \A k \in 1 .. 2 : expect[k].seq # SeqNo(q)
    BY <1>1, <1>8, <2>1 DEF Singly
  <2>3. Behind(q)' => Behind(q)
    BY <1>1, <2>1 DEF Behind, Earlier
  <2>4. Behind(q)' => expect[1].seq # SeqNo(q) \/ expect[2].seq # SeqNo(q)
    BY <2>1, <2>3 DEF Singly
  <2> QED BY <1>1, <1>7, <2>1, <2>2, <2>4
<1>10. Sparing
  <2>1. SUFFICES ASSUME NEW a \in nak' \ nak, NEW q \in arrived', q \notin passed', Timed(q), Newest(q)
                 PROVE  SeqNo(q) \notin Asked(a)
    BY DEF Sparing
  <2>2. PICK k \in 1 .. 2 : expect[k].seq # None /\ a \in Ask(expect[k].seq + 1, 1)
    BY <1>7, <2>1
  <2>3. expect[k].seq \in Number
    BY <1>2, <2>2 DEF TypeOK
  <2>4. Asked(a) = {expect[k].seq}
    BY <2>2, <2>3, AskedOne DEF Ask
  <2>5. q \in Sent /\ Live(q)'
    BY <1>1, <1>2, <2>1 DEF Live, IInv, Known
  <2> QED BY <1>9, <2>1, <2>4, <2>5
<1> QED BY <1>1, <1>9, <1>10 DEF Singly

LEMMA NextSingly ==
  ASSUME IInv, NEW r \in Nat, NEW w \in Nat, Repairs(r, w), Close(w), Dense, Singly, use.nak = 1,
         NEW p \in net, Timed(p), Hear(p), last # None, ~ Meets(p)
  PROVE  Singly' /\ Sparing
<1>1. /\ use' = use /\ frames' = frames /\ ring' = ring /\ Sent' = Sent
      /\ \A q : /\ SeqNo(q)' = SeqNo(q) /\ SentUpTo(q)' = SentUpTo(q)
                /\ Timed(q)' <=> Timed(q)
                /\ Newest(q)' <=> Newest(q)
      /\ arrived' = arrived \cup {p}
  BY HearSame DEF IInv
<1>2. PICK y : y = SentUpTo(p)
  OBVIOUS
<1>3. /\ y \in Nat /\ SeqNo(p) \in Number /\ p \in Sent
      /\ \A a \in arrived : SentUpTo(a) \in Nat
      /\ \A a \in arrived : Timed(a) => SentUpTo(a) - y < r
      /\ Place(SeqNo(p), y) /\ arrived \subseteq Sent
  BY <1>2, Comes DEF IInv, Known
<1>0. PICK l \in arrived : \E x \in Nat :
         /\ x = SentUpTo(l) /\ Timed(l) /\ SeqNo(l) = last /\ x - y < r /\ y - x < w
         /\ \A a \in arrived : Timed(a) => SentUpTo(a) - x < r
         /\ \A q \in Overtaken \ passed : Timed(q) => SentUpTo(q) <= x
         /\ \E asked : \E first \in Number, n \in Nat :
              /\ Asking(asked) /\ Gap(SeqNo(p), first, n, asked) /\ Place(first, x + 1)
              /\ Counts(p, x, y, first, n) /\ Met(SeqNo(p)) = {}
  BY <1>2, NextCounts
<1>4. PICK x \in Nat :
         /\ x = SentUpTo(l) /\ Timed(l) /\ SeqNo(l) = last /\ x - y < r /\ y - x < w
         /\ \A a \in arrived : Timed(a) => SentUpTo(a) - x < r
         /\ \A q \in Overtaken \ passed : Timed(q) => SentUpTo(q) <= x
         /\ \E asked : \E first \in Number, n \in Nat :
              /\ Asking(asked) /\ Gap(SeqNo(p), first, n, asked) /\ Place(first, x + 1)
              /\ Counts(p, x, y, first, n) /\ Met(SeqNo(p)) = {}
  BY <1>0
<1>5. PICK asked : \E first \in Number, n \in Nat :
              /\ Asking(asked) /\ Gap(SeqNo(p), first, n, asked) /\ Place(first, x + 1)
              /\ Counts(p, x, y, first, n) /\ Met(SeqNo(p)) = {}
  BY <1>4
<1>6. PICK first \in Number, n \in Nat :
              /\ Asking(asked) /\ Gap(SeqNo(p), first, n, asked) /\ Place(first, x + 1)
              /\ Counts(p, x, y, first, n) /\ Met(SeqNo(p)) = {}
  BY <1>5
<1>7. /\ \A k \in 1 .. 2 : \/ expect'[k].seq \in {None, expect[k].seq}
                           \/ n = 1 /\ expect'[k].seq = first
      /\ \E j \in 1 .. 2 : expect'[j].seq \in {None, expect[j].seq}
      /\ \A a \in nak' \ nak :
           \/ \E k \in 1 .. 2 : expect[k].seq # None /\ a \in Ask(expect[k].seq + 1, 1)
           \/ n > 1 /\ a \in Ask(SeqNo(p), n)
  <2>1. TypeOK /\ Patient
    BY DEF IInv
  <2>2. asked \subseteq nak \cup AskDue
    BY <1>6 DEF Asking
  <2> QED BY <1>6, <2>1, <2>2, GapAdds
<1>8. passed \subseteq passed' /\ (n > 0 => y > x + 1 /\ n <= y - x - 1)
  BY <1>3, <1>4, <1>6 DEF Counts
<1>9. \A k \in 1 .. 2 : expect[k].seq # SeqNo(p)
  BY <1>6 DEF Met
<1>10. 1 < r /\ r + 4 * w <= NumSeq /\ NumSeq \in Nat /\ Total \in Nat
  BY Comes, Constants DEF Repairs, Tells
<1>11. ASSUME NEW q \in Sent, Timed(q)
       PROVE  SentUpTo(q) \in Nat /\ SeqNo(q) \in Number /\ Place(SeqNo(q), SentUpTo(q))
  BY <1>11, SentPlace, PlaceOf DEF Repairs
<1>12. ASSUME NEW q \in arrived, Timed(q), q \notin passed
       PROVE  SentUpTo(q) <= x
  <2>1. q \in Overtaken
    BY <1>3, <1>12 DEF Overtaken
  <2> QED BY <1>4, <1>12, <2>1
\* An entry is of a place that was overtaken before, and less than NumSeq
\* places back.
<1>13. ASSUME NEW k \in 1 .. 2, expect[k].seq # None
       PROVE  \E e \in Nat : /\ Place(expect[k].seq, e) /\ y - e < NumSeq
                             /\ \A a \in arrived : Timed(a) => SentUpTo(a) - e < NumSeq
                             /\ \E a \in arrived : Timed(a) /\ e < SentUpTo(a)
  <2>1. PICK e \in Nat : Place(expect[k].seq, e) /\ Upto(e, Lag(k, r, w))
    BY <1>13 DEF Repairs, Expects
  <2>2. PICK b : b = Lag(k, r, w)
    OBVIOUS
  <2>3. b \in Nat /\ b <= r + 3 * w
    BY <2>2 DEF Lag
  <2>4. r + 3 * w < NumSeq
    <3>1. r <= Half /\ Half < NumSeq /\ Half \in Nat
      BY RtpStreamAssumption, Constants DEF Repairs, Tells
    <3> QED BY <1>10, <3>1
  <2>5. \A a \in arrived : Timed(a) => SentUpTo(a) - e <= b
    BY <2>1, <2>2 DEF Upto
  <2>6. \A a \in arrived : Timed(a) => SentUpTo(a) - e < NumSeq
    BY <1>3, <1>10, <2>3, <2>4, <2>5
  <2>7. PICK a \in arrived : Timed(a) /\ e < SentUpTo(a)
    BY <2>1 DEF Upto
  <2>8. y - e < NumSeq
    <3>1. x - e <= b
      BY <1>4, <2>5
    <3> QED BY <1>3, <1>4, <1>10, <2>3, <3>1
  <2> QED BY <2>1, <2>6, <2>7, <2>8
\* What is expected and may be waited for was overtaken before.
<1>14. ASSUME NEW q \in Sent, Timed(q), Newest(q), NEW k \in 1 .. 2,
              \E a \in arrived' : SentUpTo(q) <= SentUpTo(a) /\ Timed(a),
              expect[k].seq = SeqNo(q)
       PROVE  Behind(q)
  <2>1. PICK z : z = SentUpTo(q)
    OBVIOUS
  <2>2. z \in Nat /\ SeqNo(q) \in Number /\ SeqNo(q) # None /\ Place(SeqNo(q), z)
    BY <1>11, <1>14, <2>1 DEF Number, None
  <2>3. PICK e \in Nat : /\ Place(SeqNo(q), e) /\ y - e < NumSeq
                         /\ \A a \in arrived : Timed(a) => SentUpTo(a) - e < NumSeq
                         /\ \E a \in arrived : Timed(a) /\ e < SentUpTo(a)
    BY <1>13, <1>14, <2>2
  <2>4. z - e < NumSeq
    <3>1. PICK a \in arrived' : z <= SentUpTo(a) /\ Timed(a)
      BY <1>14, <2>1
    <3>2. CASE a = p
      BY <1>2, <1>3, <1>10, <2>2, <2>3, <3>1, <3>2
    <3>3. CASE a \in arrived
      <4>1. SentUpTo(a) \in Nat /\ SentUpTo(a) - e < NumSeq
        BY <1>3, <2>3, <3>1, <3>3
      <4> QED BY <1>10, <2>2, <2>3, <3>1, <4>1
    <3> QED BY <1>1, <3>1, <3>2, <3>3
  <2>5. e <= z
    <3>1. e < Total
      <4>1. PICK a \in arrived : Timed(a) /\ e < SentUpTo(a)
        BY <2>3
      <4>2. SentUpTo(a) < Total /\ SentUpTo(a) \in Nat
        BY <1>3, <4>1, SentPlace
      <4> QED BY <1>10, <4>1, <4>2
    <3> QED BY <1>14, <2>1, <2>3, <3>1, NewestPlace DEF Repairs
  <2>6. z = e
    BY <1>10, <2>2, <2>3, <2>4, <2>5, OnePlace DEF IInv
  <2> QED BY <2>1, <2>3, <2>6 DEF Behind
\* A gap of one number is the place after the last one counted.
<1>15. ASSUME NEW q \in Sent, Timed(q), Newest(q), n = 1, first = SeqNo(q),
              \E a \in arrived' : SentUpTo(q) <= SentUpTo(a) /\ Timed(a)
       PROVE  SentUpTo(q) = x + 1 /\ y > x + 1
  <2>1. PICK z : z = SentUpTo(q)
    OBVIOUS
  <2>2. z \in Nat /\ Place(SeqNo(q), z) /\ Place(SeqNo(q), x + 1) /\ y > x + 1
    BY <1>6, <1>8, <1>11, <1>15, <2>1
  <2>3. r <= Half /\ w <= Half /\ Half < NumSeq /\ Half \in Nat
    BY RtpStreamAssumption, Constants DEF Repairs, Tells
  <2>4. z - (x + 1) < NumSeq
    <3>1. PICK a \in arrived' : z <= SentUpTo(a) /\ Timed(a)
      BY <1>15, <2>1
    <3>2. CASE a = p
      BY <1>2, <1>3, <1>4, <1>10, <2>2, <2>3, <3>1, <3>2
    <3>3. CASE a \in arrived
      <4>1. SentUpTo(a) \in Nat /\ SentUpTo(a) - x < r
        BY <1>3, <1>4, <3>1, <3>3
      <4> QED BY <1>4, <1>10, <2>2, <2>3, <3>1, <4>1
    <3> QED BY <1>1, <3>1, <3>2, <3>3
  <2>5. x + 1 <= z
    <3>1. x + 1 \in Nat /\ x + 1 < Total
      BY <1>2, <1>3, <1>4, <1>10, <2>2, SentPlace
    <3> QED BY <1>15, <2>1, <2>2, <3>1, NewestPlace DEF Repairs
  <2>6. x + 1 \in Int /\ (x + 1) - z < NumSeq
    BY <1>4, <1>10, <2>2, <2>3, <2>5
  <2> QED BY <2>1, <2>2, <2>4, <2>6, OnePlace DEF IInv
<1>16. ASSUME NEW q \in Sent, Live(q)'
       PROVE  Live(q) /\ Timed(q) /\ Newest(q) /\ q \notin passed /\ SentUpTo(q) \in Nat /\ SeqNo(q) # None
  <2>1. Live(q) /\ SeqNo(q) \in Number /\ SentUpTo(q) \in Nat
    BY <1>1, <1>8, <1>16, SentPlace DEF Live
  <2> QED BY <2>1 DEF Live, Number, None
<1>17. ASSUME NEW q \in Sent, Live(q)', q \in arrived', NEW k \in 1 .. 2, expect'[k].seq = SeqNo(q)
       PROVE  FALSE
  <2>1. /\ Live(q) /\ Timed(q) /\ Newest(q) /\ q \notin passed /\ SentUpTo(q) \in Nat /\ SeqNo(q) # None
        /\ \E a \in arrived' : SentUpTo(q) <= SentUpTo(a) /\ Timed(a)
    BY <1>16, <1>17
  <2>2. q = p \/ q \in arrived
    BY <1>1, <1>17
  <2>3. expect[k].seq # SeqNo(q)
    BY <1>9, <2>1, <2>2 DEF Singly
  <2>4. n = 1 /\ first = SeqNo(q)
    BY <1>7, <1>17, <2>1, <2>3
  <2>5. SentUpTo(q) = x + 1 /\ y > x + 1
    BY <1>15, <2>1, <2>4
  <2>6. q \in arrived => SentUpTo(q) <= x
    BY <1>12, <2>1
  <2> QED BY <1>2, <1>3, <1>4, <2>2, <2>5, <2>6
<1>18. ASSUME NEW q \in Sent, Live(q)', Behind(q)',
              \A k \in 1 .. 2 : expect'[k].seq = SeqNo(q)
       PROVE  FALSE
  <2>1. /\ Live(q) /\ Timed(q) /\ Newest(q) /\ q \notin passed /\ SentUpTo(q) \in Nat /\ SeqNo(q) # None
    BY <1>16, <1>18
  <2>2. \E a \in arrived' : SentUpTo(q) <= SentUpTo(a) /\ Timed(a)
    <3>1. PICK a \in arrived' : Timed(a) /\ SentUpTo(q) < SentUpTo(a)
      BY <1>1, <1>18 DEF Behind
    <3>2. SentUpTo(a) \in Nat
      BY <1>1, <1>2, <1>3, <3>1
    <3> QED BY <2>1, <3>1, <3>2
  <2>3. PICK j \in 1 .. 2 : expect'[j].seq \in {None, expect[j].seq}
    BY <1>7
  <2>4. Behind(q)
    BY <1>14, <1>18, <2>1, <2>2, <2>3
  <2>5. SentUpTo(q) <= x
    <3>1. q \in Overtaken
      <4>1. \A a \in arrived : SentUpTo(a) \in Nat
        BY <1>3
      <4> QED BY <2>1, <2>4, <4>1 DEF Behind, Overtaken
    <3> QED BY <1>4, <2>1, <3>1
  <2>6. ~ (n = 1 /\ first = SeqNo(q))
    BY <1>4, <1>15, <2>1, <2>2, <2>5
  <2>7. \A k \in 1 .. 2 : expect[k].seq = SeqNo(q)
    BY <1>7, <1>18, <2>1, <2>6
  <2> QED BY <2>1, <2>4, <2>7 DEF Singly
<1>19. ASSUME NEW a \in nak' \ nak, NEW q \in arrived', q \notin passed', Timed(q), Newest(q),
              SeqNo(q) \in Asked(a)
       PROVE  FALSE
  <2>1. q \in Sent /\ q \notin passed /\ Live(q) /\ (q = p \/ q \in arrived)
    BY <1>1, <1>3, <1>8, <1>19 DEF Live
  <2>2. CASE \E k \in 1 .. 2 : expect[k].seq # None /\ a \in Ask(expect[k].seq + 1, 1)
    <3>1. PICK k \in 1 .. 2 : expect[k].seq # None /\ a \in Ask(expect[k].seq + 1, 1)
      BY <2>2
    <3>2. expect[k].seq \in Number
      BY <3>1 DEF IInv, TypeOK
    <3>3. Asked(a) = {expect[k].seq}
      BY <3>1, <3>2, AskedOne DEF Ask
    <3> QED BY <1>9, <1>19, <2>1, <3>3 DEF Singly
  <2>3. CASE n > 1 /\ a \in Ask(SeqNo(p), n)
    <3>1. w <= Half /\ Half < NumSeq /\ Half \in Nat
      BY RtpStreamAssumption, Constants DEF Repairs, Tells
    <3>2. y > x + 1 /\ n <= y - x - 1 /\ n < NumSeq
      BY <1>3, <1>4, <1>8, <1>10, <2>3, <3>1
    <3>3. a = [seq |-> SeqNo(p) % NumSeq, count |-> n]
      BY <2>3 DEF Ask
    <3>4. PICK j \in 1 .. n : SeqNo(q) = (SeqNo(p) - j) % NumSeq
      <4>1. 0 < n
        BY <2>3
      <4> QED BY <1>3, <1>19, <3>2, <3>3, <4>1, AskedBack
    <3>5. Place(SeqNo(q), y - j)
      <4>1. PICK c : c = use.start + 1
        OBVIOUS
      <4>2. c \in Int /\ NumSeq \in Nat \ {0} /\ c + y \in Int /\ 0 - j \in Int
        <5>1. TypeOK
          BY DEF IInv
        <5> QED BY <1>3, <4>1, <5>1, UseType, Constants DEF Number
      <4>3. SeqNo(p) = (c + y) % NumSeq
        BY <1>3, <4>1 DEF Place, On
      <4>4. (((c + y) % NumSeq) + (0 - j)) % NumSeq = ((c + y) + (0 - j)) % NumSeq
        BY <4>2, SumMod, Zenon
      <4>5. SeqNo(p) - j = SeqNo(p) + (0 - j) /\ (c + y) + (0 - j) = c + (y - j)
        BY <1>3, <4>2 DEF Number
      <4> QED BY <3>4, <4>1, <4>3, <4>4, <4>5 DEF Place, On
    <3>6. PICK z : z = SentUpTo(q)
      OBVIOUS
    <3>7. z \in Nat /\ Place(SeqNo(q), z) /\ (z <= x \/ z = y)
      BY <1>2, <1>11, <1>12, <1>19, <2>1, <3>6
    <3>8. y - j \in Nat /\ x < y - j /\ y - j < y /\ y - j < Total
      BY <1>2, <1>3, <1>4, <1>10, <3>2, SentPlace
    <3>9. y - j <= z
      BY <1>19, <2>1, <3>5, <3>6, <3>8, NewestPlace DEF Repairs
    <3>10. z = y
      BY <1>3, <1>4, <3>7, <3>8, <3>9
    <3>11. z - (y - j) < NumSeq /\ (y - j) - z < NumSeq
      BY <1>3, <1>10, <3>2, <3>8, <3>10
    <3>12. z = y - j
      BY <3>5, <3>7, <3>8, <3>11, OnePlace DEF IInv
    <3> QED BY <1>3, <3>8, <3>10, <3>12
  <2> QED BY <1>7, <2>2, <2>3
<1>20. Singly'
  <2>1. SUFFICES ASSUME NEW q \in Sent, Live(q)'
                 PROVE  /\ q \in arrived' => \A k \in 1 .. 2 : expect'[k].seq # SeqNo(q)
                        /\ Behind(q)' => expect'[1].seq # SeqNo(q) \/ expect'[2].seq # SeqNo(q)
    BY <1>1 DEF Singly
  <2>2. q \in arrived' => \A k \in 1 .. 2 : expect'[k].seq # SeqNo(q)
    BY <1>17, <2>1
  <2>3. \A k \in 1 .. 2 : k = 1 \/ k = 2
    OBVIOUS
  <2> QED BY <1>18, <2>1, <2>2, <2>3
<1> QED BY <1>19, <1>20 DEF Sparing

\* Only what counts a packet asks; nothing else changes what is expected.
LEMMA AsksNothing ==
  ASSUME IInv, use.reenter = {}, [Next]_vars, \A p \in net : ~ Hear(p)
  PROVE  /\ nak' \subseteq nak
         /\ Still /\ passed \subseteq passed'
<1>1. CASE Send
  BY <1>1, SendStill
<1>2. CASE Reenter
  BY <1>2 DEF Reenter
<1>3. CASE \/ Reply
           \/ \E k \in nak : LoseRequest(k)
           \/ \E p \in hand : Keep(p) \/ Collect(p)
           \/ \E x \in waiting : Expire(x) \/ TakeUntimed(x) \/ TakeInTurn(x) \/ TakeExpired(x)
           \/ TakeNothing \/ UNCHANGED vars
  <2>1. /\ use' = use /\ frames' = frames /\ ring' = ring /\ expect' = expect /\ arrived' = arrived
        /\ passed \subseteq passed' /\ nak' \subseteq nak
    <3>1. CASE Reply
      BY <3>1 DEF Reply, Answer, sender, counting
    <3>2. CASE \E k \in nak : LoseRequest(k)
      BY <3>2 DEF LoseRequest, sender, counting
    <3>3. CASE \E p \in hand : Keep(p) \/ Collect(p)
      BY <3>3 DEF Keep, Collect, sender, network, counting
    <3>4. CASE \E x \in waiting : Expire(x) \/ TakeUntimed(x) \/ TakeInTurn(x) \/ TakeExpired(x)
      BY <3>4 DEF Expire, TakeUntimed, TakeInTurn, TakeExpired, Take, sender, network, counting
    <3>5. CASE TakeNothing \/ UNCHANGED vars
      BY <3>5 DEF TakeNothing, vars, sender, network, counting
    <3> QED BY <1>3, <3>1, <3>2, <3>3, <3>4, <3>5
  <2>2. \A q : HasAttach(q)' = HasAttach(q)
    BY <2>1 DEF HasAttach
  <2> QED BY <2>1, <2>2, SentSame DEF Still
<1> QED BY <1>1, <1>2, <1>3 DEF Next

\* The invariant of a receiver that asks for nothing that has come.
AskInv(r, w) ==
  /\ RepairInv(r, w)
  /\ use.reenter = {} => Dense /\ use.nak < 2 /\ (use.nak > 0 => Singly)

\* The requests that a step adds ask only for what has not come.
AsksMissing ==
  use.reenter = {} => \A r \in nak' \ nak : \A p \in arrived' \ passed' :
    Timed(p) /\ Newest(p) => SeqNo(p) \notin Asked(r)

LEMMA DenseStep ==
  ASSUME IInv, use.reenter = {}, Dense, [Next]_vars
  PROVE  Dense'
<1>1. TypeOK /\ Known /\ InLine(frames, use) /\ Len(frames) <= use.frames
  BY DEF IInv, Known
<1>2. CASE Send
  <2>1. PICK fr, gone : Sends(fr, gone)
    BY <1>1, <1>2, SendSends
  <2>2. PICK l : l = Len(frames) + 1
    OBVIOUS
  <2>3. Adds(fr) /\ fr \in Frame /\ fr.n \in Nat /\ fr.ts \in Nat /\ Total \in Nat
    BY <1>1, <2>1, ClockType DEF Sends, Adds, Frame
  <2>4. /\ Sent' = Sent \cup New(fr.n)
        /\ \A q \in Sent : SentUpTo(q)' = SentUpTo(q) /\ Timed(q)' = Timed(q)
        /\ \A i \in 0 .. fr.n - 1 : <<l, i>> \in New(fr.n) /\ SentUpTo(<<l, i>>)' = Total + i
    BY <1>1, <2>2, <2>3, AddsPackets
  <2>5. Total' = EndOf(fr) /\ fr.base = Total
    BY <1>1, <2>3, AddsInLine DEF Adds
  <2>6. SUFFICES ASSUME NEW e \in 0 .. Total' - 1
                 PROVE  \E q \in Sent' : Timed(q)' /\ SentUpTo(q)' = e
    BY DEF Dense
  <2>7. CASE e < Total
    <3>1. PICK q \in Sent : Timed(q) /\ SentUpTo(q) = e
      BY <2>3, <2>7, e \in 0 .. Total - 1 DEF Dense
    <3> QED BY <2>4, <3>1
  <2>8. CASE e >= Total
    <3>1. fr.ts # 0 /\ e - Total \in 0 .. fr.n - 1 /\ e \in Nat
      BY <2>3, <2>5, <2>8 DEF EndOf
    <3>2. PICK i \in 0 .. fr.n - 1 : i = e - Total
      BY <3>1
    <3>3. <<l, i>> \in Sent' /\ SentUpTo(<<l, i>>)' = e
      BY <2>3, <2>4, <3>1, <3>2
    <3>4. frames'[l] = fr
      BY <1>1, <2>2, <2>3 DEF Adds, TypeOK
    <3>5. Timed(<<l, i>>)'
      BY <3>1, <3>4 DEF Timed
    <3> QED BY <3>3, <3>5
  <2> QED BY <2>3, <2>7, <2>8
<1>3. CASE frames' = frames
  <2>1. Sent' = Sent /\ Total' = Total /\ \A q : SentUpTo(q)' = SentUpTo(q) /\ (Timed(q)' <=> Timed(q))
    BY <1>3, SentSame DEF Sent, PacketsOf, Total, SentUpTo, Timed
  <2> QED BY <2>1 DEF Dense
<1> QED BY <1>2, <1>3, SendsOnly

LEMMA AskStep ==
  ASSUME NEW r \in Nat, NEW w \in Nat, AskInv(r, w), [Next]_vars,
         use.reenter = {} /\ use.nak > 0 => Close(w)
  PROVE  AskInv(r, w)' /\ AsksMissing
<1>1. IInv /\ use' = use /\ RepairInv(r, w) /\ RepairInv(r, w)'
  <2>1. use.reenter = {} => Straight
    BY DEF AskInv, Straight
  <2> QED BY <2>1, SameUse, RepairStep DEF AskInv, RepairInv
<1>2. CASE use.reenter # {}
  BY <1>1, <1>2 DEF AskInv, AsksMissing
<1>3. CASE use.reenter = {}
  <2>1. Dense /\ use.nak \in {0, 1} /\ (use.nak > 0 => Singly)
    <3>1. use.nak \in 0 .. 2
      BY <1>1, RtpStreamAssumption DEF IInv, TypeOK, Use
    <3> QED BY <1>3, <3>1 DEF AskInv
  <2>2. Dense'
    BY <1>1, <1>3, <2>1, DenseStep
  <2>3. (use.nak > 0 => Singly') /\ Sparing
    <3>1. CASE \A p \in net : ~ Hear(p)
      BY <1>1, <1>3, <2>1, <3>1, AsksNothing, StillSingly DEF Sparing
    <3>2. CASE \E p \in net : Hear(p)
      <4>1. PICK p \in net : Hear(p)
        BY <3>2
      <4>2. CASE use.nak = 0
        <5>1. Count(p)
          BY <1>1, <4>1, HearSame DEF IInv
        <5>2. nak' = nak \/ \E seq, first, n : n = 0 /\ Gap(seq, first, n, nak)
          BY <4>2, <5>1 DEF Count
        <5>3. nak' = nak
          <6>1. SUFFICES ASSUME NEW seq, NEW first, NEW n \in Nat, n = 0, Gap(seq, first, n, nak)
                         PROVE  nak' = nak
            BY <5>2
          <6>2. ~ (n = 1) /\ ~ (n > 1)
            BY <6>1
          <6>3. \/ n = 0 /\ expect' = Waited /\ nak' = nak
                \/ n = 1
                \/ n > 1
            BY <6>1, GapIs, Zenon
          <6> QED BY <6>2, <6>3
        <5> QED BY <4>2, <5>3 DEF Sparing
      <4>3. CASE use.nak = 1
        <5>1. Repairs(r, w) /\ Singly /\ Close(w)
          BY <1>1, <1>3, <2>1, <4>3 DEF RepairInv
        <5> QED BY <1>1, <2>1, <4>1, <4>3, <5>1, UntimedSingly, MetSingly, FirstSingly, NextSingly
      <4> QED BY <2>1, <4>2, <4>3
    <3> QED BY <3>1, <3>2
  <2>4. AsksMissing
    BY <2>3 DEF Sparing, AsksMissing
  <2> QED BY <1>1, <2>1, <2>2, <2>3, <2>4 DEF AskInv
<1> QED BY <1>2, <1>3

LEMMA AskInit ==
  ASSUME NEW r \in Nat, NEW w \in Nat, Tells(r, w), Init,
         \A u \in Uses : u.reenter = {} => u.nak < 2 /\ (u.nak > 0 => Within(u, r))
  PROVE  AskInv(r, w)
<1>1. use \in Uses /\ frames = <<>> /\ DOMAIN frames = {}
  BY DEF Init
<1>2. Singly /\ Dense
  BY <1>1 DEF Singly, Dense, Sent, Total
<1> QED BY <1>1, <1>2, RepairInit DEF AskInv

\* A receiver whose packets do not use the list of the lost (m_nNAKType 2)
\* asks for nothing that has come: what it expects is dropped when it comes,
\* and a gap is asked for only up to the packet that showed it.  As above the
\* stream's packets are less than r late and none comes w or more ahead.
THEOREM StreamAsksMissing ==
  ASSUME NEW r \in Nat, NEW w \in Nat, Tells(r, w),
         \A u \in Uses : u.reenter = {} => u.nak < 2 /\ (u.nak > 0 => Within(u, r))
  PROVE  Spec /\ []Close(w) => AskedIsMissing
<1>1. Init => AskInv(r, w)
  BY AskInit
<1>2. AskInv(r, w) /\ Close(w) /\ [Next]_vars => AskInv(r, w)'
  BY AskStep
<1>3. AskInv(r, w) /\ Close(w) /\ [Next]_vars => [AsksMissing]_vars
  BY AskStep
<1> QED BY <1>1, <1>2, <1>3, PTL DEF Spec, AskedIsMissing, AsksMissing

\* The same of streams that are short, with no condition on the network.
THEOREM StreamAsksMissingShort ==
  ASSUME NEW r \in Nat, NEW w \in Nat, Tells(r, w),
         \A u \in Uses : u.reenter = {} => u.nak < 2 /\ (u.nak > 0 => Within(u, r) /\ Short(u, w))
  PROVE  Spec => AskedIsMissing
<1>1. Init => ShortInv(r, w) /\ AskInv(r, w)
  BY ShortInit, AskInit
<1>2. ShortInv(r, w) /\ AskInv(r, w) /\ [Next]_vars =>
        ShortInv(r, w)' /\ AskInv(r, w)' /\ AsksMissing
  <2>1. SUFFICES ASSUME ShortInv(r, w), AskInv(r, w), [Next]_vars
                 PROVE  ShortInv(r, w)' /\ AskInv(r, w)' /\ AsksMissing
    OBVIOUS
  <2>2. use.reenter = {} /\ use.nak > 0 => Close(w)
    <3>1. use \in Uses
      BY <2>1 DEF ShortInv, RepairInv, IInv, TypeOK
    <3> QED BY <2>1, <3>1, ShortClose
  <2>3. \A u \in Uses : u.reenter = {} /\ u.nak > 0 => Short(u, w) /\ Stays(u, w)
    BY RtpStreamAssumption DEF Use, Stays
  <2>4. ShortInv(r, w)'
    BY <2>1, <2>3, ShortStep
  <2> QED BY <2>1, <2>2, <2>4, AskStep
<1>3. ShortInv(r, w) /\ AskInv(r, w) /\ [Next]_vars => [AsksMissing]_vars
  BY <1>2
<1> QED BY <1>1, <1>2, <1>3, PTL DEF Spec, AskedIsMissing, AsksMissing
=============================================================================
