------------------------ MODULE ExternalMediaProofs ------------------------
(***************************************************************************)
(* Theorems about ExternalMedia, for every set of legs, range of wire      *)
(* numbers, queue bound and window: the number of a frame, the outbound    *)
(* queue around a flush, the sessions of a leg, and the jitter buffer.     *)
(***************************************************************************)
EXTENDS ExternalMedia, FiniteSetTheorems, SequenceTheorems, WellFoundedInduction, TLAPS

-----------------------------------------------------------------------------
(* Types.                                                                  *)

CloseSteps == {"no", "flagged", "frames closed", "done"}

SessionType ==
  [leg : Legs, started : BOOLEAN, lastSeq : Nat, frameSeq : Nat, close : CloseSteps,
   out : Seq(Nat), popped : Nat, first : Nat, last : Nat, written : Nat, cut : Nat]

ReaderType ==
  [at : {"read", "session", "deliver", "send", "shutdown"}, leg : Legs \cup {None},
   n : Nat, s : Nat]

ServerType ==
  [conn : BOOLEAN, closed : BOOLEAN, closing : SUBSET Nat,
   accept : Seq(Nat), acceptClosed : BOOLEAN, owned : SUBSET Nat]

\* The read loop's packet is some leg's, and its session that leg's.
ReaderTyped ==
  /\ reader \in ReaderType
  /\ reader.at \in {"session", "deliver", "send"} => reader.leg \in Legs
  /\ reader.at \in {"deliver", "send"} =>
       reader.s \in DOMAIN sessions /\ sessions[reader.s].leg = reader.leg

MapTyped ==
  /\ mapped \in [Legs -> Nat]
  /\ \A g \in Legs : mapped[g] # None =>
       mapped[g] \in DOMAIN sessions /\ sessions[mapped[g]].leg = g

SeenTyped == DOMAIN jitter = Legs /\ \A g \in Legs : jitter[g].seen \in SUBSET Nat

TypeInv ==
  /\ sessions \in Seq(SessionType) /\ server \in ServerType
  /\ ReaderTyped /\ MapTyped /\ SeenTyped

-----------------------------------------------------------------------------
(* The inductive invariants.                                               *)

\* The queue holds the packets last written, behind the one in the pacer's
\* hand and behind the last flush.
QueueInv(m) ==
  /\ Len(m.out) <= OutQueueMax /\ Len(m.out) <= m.written
  /\ \A i \in 1 .. Len(m.out) : m.out[i] = m.written - Len(m.out) + i
  /\ m.cut <= m.written - Len(m.out) /\ m.popped <= m.written - Len(m.out)

Queues == \A s \in DOMAIN sessions : QueueInv(sessions[s])

\* A session that is not closed is the one mapped for its leg.
SessionsInv ==
  /\ ~server.closed =>
       \A s \in DOMAIN sessions : sessions[s].close # "done" => mapped[sessions[s].leg] = s
  /\ OneSessionPerLeg

\* A session's last wire number is that of its last packet.
NumberInv(m) ==
  /\ m.started => m.lastSeq = Seq16(m.last) /\ m.first <= m.last
  /\ ~m.started => m.frameSeq = 0
  /\ m.frameSeq = m.last - m.first

Numbers == \A s \in DOMAIN sessions : NumberInv(sessions[s])

\* The read loop has a packet of g in hand that is not delivered yet.
InHand(g) == reader.at \in {"session", "deliver"} /\ reader.leg = g

\* Sessions that packets may still be delivered to.
Fed(s) == mapped[sessions[s].leg] = s \/ (reader.at = "deliver" /\ reader.s = s)

\* What was seen of a leg is not far ahead of where its session stands.
LagInv ==
  /\ reader.at = "deliver" => mapped[reader.leg] \in {None, reader.s}
  /\ \A g \in Legs : InHand(g) =>
       reader.n \in jitter[g].seen /\ \A h \in jitter[g].seen : h - reader.n <= Reorder
  /\ \A s \in DOMAIN sessions :
       LET m == sessions[s] IN
       m.started /\ Fed(s) =>
         /\ m.last \in jitter[m.leg].seen
         /\ \A h \in jitter[m.leg].seen :
              \/ h - m.last <= Reorder
              \/ InHand(m.leg) /\ h = reader.n /\ h - m.last <= Half

\* The buffer b holds what was seen beyond next; whoever is missing between
\* the first packet and next was overtaken by more than a window of later ones.
Released(b, seen, first) ==
  /\ b \in [started : BOOLEAN, next : Nat, pending : SUBSET Nat] /\ b.started
  /\ b.pending = {h \in seen : h >= b.next} /\ b.next \notin seen
  /\ Cardinality(b.pending) <= Window
  /\ \A f \in Nat : f > first /\ f < b.next /\ f \notin seen
       => Cardinality({h \in seen : h > f}) > Window

BufferInv(j) ==
  /\ j.seen \in SUBSET Nat /\ IsFiniteSet(j.seen) /\ j.first \in Nat
  /\ j.seen = {} => j.buffer = NewJitterBuffer
  /\ j.seen # {} => Released(j.buffer, j.seen, j.first)

JitterInv == DOMAIN jitter = Legs /\ \A g \in Legs : BufferInv(jitter[g])

-----------------------------------------------------------------------------
(* Wire numbers.                                                           *)

\* A multiple of a positive number that is neither 0 nor 1 is at least as far.
LEMMA Multiples ==
  ASSUME NEW w \in Nat \ {0}, NEW k \in Int, NEW d \in Int, k * w = d, -w < d, d < w
  PROVE  k = 0
<1>1. k >= 1 => k * w >= w
  OBVIOUS
<1>2. k <= -1 => k * w <= -w
  OBVIOUS
<1>3. QED
  BY <1>1, <1>2

\* A number and its remainder.
LEMMA Remainder ==
  ASSUME NEW w \in Nat \ {0}, NEW a \in Nat
  PROVE  /\ a % w \in 0 .. w - 1
         /\ \E q \in Nat : a - (a % w) = q * w
<1>1. a % w \in 0 .. w - 1
  OBVIOUS
<1>2. a % w = a - w * (a \div w)
  BY SMTT(60)
<1>3. a \div w \in Nat
  OBVIOUS
<1> DEFINE q == a \div w
           r == a % w
<1>4. w * q \in Nat /\ w * q = q * w
  BY <1>3
<1>5. a - r = q * w
  <2>1. r = a - w * q /\ r \in Nat
    BY <1>1, <1>2
  <2> HIDE DEF q, r
  <2>2. QED
    BY <1>4, <2>1
<1>6. QED
  BY <1>1, <1>3, <1>5

\* The distance of two numbers, less than the range apart, from their
\* remainders: uint16 subtraction (externalmedia.go, deliver).
LEMMA WrapSafe ==
  ASSUME NEW w \in Nat \ {0}, NEW a \in Nat, NEW b \in Nat, -w < a - b, a - b < w
  PROVE  ((a % w) - (b % w) + w) % w = IF a >= b THEN a - b ELSE a - b + w
<1>1. PICK p \in Nat : a - (a % w) = p * w
  BY Remainder
<1>2. PICK q \in Nat : b - (b % w) = q * w
  BY Remainder
<1> DEFINE ra == a % w
           rb == b % w
           x == ra - rb + w
           y == IF a >= b THEN a - b ELSE a - b + w
<1>3. ra \in 0 .. w - 1 /\ rb \in 0 .. w - 1
  BY Remainder
<1>4. x \in Nat /\ y \in 0 .. w - 1
  BY <1>3
<1>5. PICK r \in Nat : x - (x % w) = r * w
  BY <1>4, Remainder
<1> DEFINE rx == x % w
<1>6. rx \in 0 .. w - 1
  BY <1>4, Remainder
<1>7. a - ra = p * w /\ b - rb = q * w /\ x - rx = r * w
  <2>1. a - ra = p * w
    BY ONLY <1>1
  <2>2. b - rb = q * w
    BY ONLY <1>2
  <2>3. x - rx = r * w
    BY ONLY <1>5
  <2>4. QED
    BY ONLY <2>1, <2>2, <2>3
<1> DEFINE e == IF a >= b THEN 1 ELSE 0
<1>8. rx - y = (q * w - p * w - r * w) + e * w
  <2> DEFINE P == p * w
             Q == q * w
             R == r * w
  <2> HIDE DEF ra, rb, rx, P, Q, R
  <2>1. P \in Int /\ Q \in Int /\ R \in Int
    BY DEF P, Q, R
  <2>2. ra \in Int /\ rb \in Int /\ rx \in Int
    BY <1>3, <1>6
  <2>3. a - ra = P /\ b - rb = Q /\ x - rx = R
    BY <1>7 DEF P, Q, R
  <2>4. rx - y = (Q - P - R) + e * w
    BY <2>1, <2>2, <2>3
  <2>5. QED
    BY <2>4 DEF P, Q, R
<1>9. (q * w - p * w - r * w) + e * w = (q - p - r + e) * w
  OBVIOUS
<1> DEFINE k == q - p - r + e
<1>10. k * w = rx - y /\ k \in Int
  BY <1>8, <1>9
<1>11. k = 0
  <2> HIDE DEF k, rx, y
  <2>1. rx - y \in Int /\ -w < rx - y /\ rx - y < w
    BY <1>4, <1>6
  <2>2. QED
    BY <1>10, <2>1, Multiples
<1>12. rx = y
  <2>1. 0 * w = 0
    OBVIOUS
  <2>2. y \in Int /\ rx \in Int
    BY <1>4, <1>6
  <2> HIDE DEF k, rx, y
  <2>3. 0 = rx - y
    BY ONLY <1>10, <1>11, <2>1
  <2>4. QED
    BY ONLY <2>2, <2>3
<1>13. QED
  BY <1>12

-----------------------------------------------------------------------------
(* What the session's actions have in common.                              *)

\* A step of session s leaves what the read loop set and keeps the queue's
\* order; it is unmapped, at most, when it is done.
Moves(s, new) ==
  LET m == sessions[s] IN
  /\ new \in SessionType /\ QueueInv(new)
  /\ sessions' = [sessions EXCEPT ![s] = new]
  /\ new.leg = m.leg /\ new.started = m.started /\ new.lastSeq = m.lastSeq
  /\ new.frameSeq = m.frameSeq /\ new.first = m.first /\ new.last = m.last
  /\ \/ mapped' = mapped /\ (new.close = "done" <=> m.close = "done")
     \/ /\ m.close # "done" /\ new.close = "done"
        /\ mapped' = IF server.closed THEN mapped ELSE [mapped EXCEPT ![m.leg] = None]

\* The queue after a write holds the packets last written.
LEMMA WriteQueue ==
  ASSUME NEW m \in SessionType, QueueInv(m), NEW fits \in Nat,
         Len(m.out) + fits <= OutQueueMax, OutQueueMax \in Nat,
         NEW new \in SessionType,
         new.out = m.out \o [i \in 1 .. fits |-> m.written + i],
         new.written = m.written + fits, new.cut = m.cut, new.popped = m.popped
  PROVE  QueueInv(new)
<1> DEFINE t == [i \in 1 .. fits |-> m.written + i]
<1>1. m.out \in Seq(Nat) /\ m.written \in Nat /\ m.cut \in Nat /\ m.popped \in Nat
  BY DEF SessionType
<1>2. t \in Seq(Nat) /\ Len(t) = fits
  BY <1>1
<1>3. /\ Len(new.out) = Len(m.out) + fits
      /\ \A i \in 1 .. Len(new.out) :
           new.out[i] = IF i <= Len(m.out) THEN m.out[i] ELSE t[i - Len(m.out)]
  BY <1>1, <1>2, ConcatProperties
<1>4. Len(m.out) \in Nat
  BY <1>1
<1>5. ASSUME NEW i \in 1 .. Len(new.out)
      PROVE  new.out[i] = new.written - Len(new.out) + i
  <2>1. CASE i <= Len(m.out)
    BY <1>1, <1>3, <1>4, <2>1 DEF QueueInv
  <2>2. CASE i > Len(m.out)
    <3>1. i - Len(m.out) \in 1 .. fits
      BY <1>3, <1>4, <2>2
    <3>2. t[i - Len(m.out)] = m.written + (i - Len(m.out))
      BY <3>1
    <3>3. QED
      BY <1>1, <1>3, <1>4, <2>2, <3>2
  <2>3. QED
    BY <1>3, <1>4, <2>1, <2>2
<1>6. m.cut <= m.written - Len(m.out) /\ m.popped <= m.written - Len(m.out)
      /\ Len(m.out) <= m.written
  BY DEF QueueInv
<1>7. /\ Len(new.out) <= OutQueueMax /\ Len(new.out) <= new.written
      /\ new.cut <= new.written - Len(new.out) /\ new.popped <= new.written - Len(new.out)
  BY <1>1, <1>3, <1>4, <1>6
<1>8. QED
  BY <1>5, <1>7 DEF QueueInv

\* An empty queue is in order behind whatever was written.
LEMMA EmptyQueue ==
  ASSUME NEW m \in SessionType, m.out = <<>>, OutQueueMax \in Nat,
         m.cut <= m.written, m.popped <= m.written
  PROVE  QueueInv(m)
BY DEF QueueInv, SessionType

\* A tick takes the packet written first of those queued.
LEMMA TickQueue ==
  ASSUME NEW m \in SessionType, QueueInv(m), m.out # <<>>, OutQueueMax \in Nat,
         NEW new \in SessionType, new.out = Tail(m.out), new.popped = Head(m.out),
         new.written = m.written, new.cut = m.cut
  PROVE  QueueInv(new)
<1>1. m.out \in Seq(Nat) /\ m.written \in Nat /\ m.cut \in Nat
  BY DEF SessionType
<1>2. /\ Len(m.out) \in Nat /\ Len(m.out) >= 1
      /\ Len(new.out) = Len(m.out) - 1
      /\ \A i \in 1 .. Len(new.out) : new.out[i] = m.out[i + 1]
      /\ new.popped = m.out[1]
  BY <1>1
<1>3. \A i \in 1 .. Len(m.out) : m.out[i] = m.written - Len(m.out) + i
  BY DEF QueueInv
<1>4. ASSUME NEW i \in 1 .. Len(new.out)
      PROVE  new.out[i] = new.written - Len(new.out) + i
  <2>1. i \in Int /\ i + 1 \in 1 .. Len(m.out)
    BY <1>2
  <2>2. m.out[i + 1] = m.written - Len(m.out) + (i + 1)
    BY <1>3, <2>1
  <2>3. new.out[i] = m.out[i + 1] /\ Len(new.out) = Len(m.out) - 1
    BY <1>2
  <2>4. Len(m.out) \in Nat /\ m.written \in Nat
    BY <1>1, <1>2
  <2>5. new.out[i] = m.written - (Len(m.out) - 1) + i
    BY <2>1, <2>2, <2>3, <2>4
  <2>6. QED
    BY <2>3, <2>5
<1>5. QED
  BY <1>1, <1>2, <1>3, <1>4, SMTT(60) DEF QueueInv

\* Every action of a session is such a move, but for the shutdown that counts
\* a closed session off.
LEMMA SessionMoves ==
  ASSUME TypeInv, NEW s \in DOMAIN sessions, QueueInv(sessions[s]), Session(s)
  PROVE  /\ UNCHANGED <<netVars, reader, panicked>>
         /\ \/ /\ UNCHANGED <<sessions, mapped>>
               /\ server' = [server EXCEPT !.closing = @ \ {s}]
            \/ UNCHANGED server /\ \E new \in SessionType : Moves(s, new)
<1> DEFINE m == sessions[s]
<1>1. m \in SessionType
  BY ElementOfSeq DEF TypeInv
<1>2. OutQueueMax \in Nat
  BY ExternalMediaAssumption
<1>3. /\ m.out \in Seq(Nat) /\ m.written \in Nat /\ m.cut \in Nat /\ m.popped \in Nat
      /\ Len(m.out) \in Nat /\ Len(m.out) <= m.written /\ m.cut <= m.written
      /\ m.popped <= m.written /\ <<>> \in Seq(Nat)
  <2>1. m.out \in Seq(Nat) /\ m.written \in Nat /\ m.cut \in Nat /\ m.popped \in Nat
    BY <1>1 DEF SessionType
  <2>2. Len(m.out) \in Nat /\ <<>> \in Seq(Nat)
    BY <2>1
  <2>3. Len(m.out) <= m.written /\ m.cut <= m.written - Len(m.out)
        /\ m.popped <= m.written - Len(m.out)
    BY DEF QueueInv
  <2>4. QED
    BY <2>1, <2>2, <2>3
<1>4. CASE CloseSession(s)
  <2> DEFINE new == [m EXCEPT !.close = "flagged", !.out = <<>>]
  <2>1. m.close = "no" /\ Changes(s, new) /\ UNCHANGED mapped
    BY <1>4 DEF CloseSession
  <2>2. new \in SessionType /\ new.close = "flagged" /\ new.out = <<>>
        /\ new.cut = m.cut /\ new.popped = m.popped /\ new.written = m.written
    BY <1>1, <1>3 DEF SessionType, CloseSteps
  <2>3. /\ new.leg = m.leg /\ new.started = m.started /\ new.lastSeq = m.lastSeq
        /\ new.frameSeq = m.frameSeq /\ new.first = m.first /\ new.last = m.last
    BY <1>1 DEF SessionType
  <2>4. QueueInv(new)
    <3> HIDE DEF new
    <3>1. QED
      BY <1>2, <1>3, <2>2, EmptyQueue
  <2> HIDE DEF new
  <2>5. Moves(s, new)
    BY <2>1, <2>2, <2>3, <2>4 DEF Moves, Changes
  <2>6. QED
    BY <2>1, <2>2, <2>5 DEF Changes
<1>5. CASE CloseFrames(s)
  <2> DEFINE new == [m EXCEPT !.close = "frames closed"]
  <2>1. m.close = "flagged" /\ Changes(s, new) /\ UNCHANGED mapped
    BY <1>5 DEF CloseFrames
  <2>2. new \in SessionType /\ new.close = "frames closed" /\ new.out = m.out
        /\ new.cut = m.cut /\ new.popped = m.popped /\ new.written = m.written
    BY <1>1 DEF SessionType, CloseSteps
  <2>3. /\ new.leg = m.leg /\ new.started = m.started /\ new.lastSeq = m.lastSeq
        /\ new.frameSeq = m.frameSeq /\ new.first = m.first /\ new.last = m.last
    BY <1>1 DEF SessionType
  <2> HIDE DEF new
  <2>4. QueueInv(new)
    BY <2>2 DEF QueueInv
  <2>5. Moves(s, new)
    BY <2>1, <2>2, <2>3, <2>4 DEF Moves, Changes
  <2>6. QED
    BY <2>1, <2>2, <2>5 DEF Changes
<1>6. CASE drop(s)
  <2> DEFINE new == [m EXCEPT !.close = "done"]
  <2>1. /\ m.close = "frames closed" /\ Changes(s, new)
        /\ mapped' = IF server.closed THEN mapped ELSE [mapped EXCEPT ![m.leg] = None]
    BY <1>6 DEF drop
  <2>2. new \in SessionType /\ new.close = "done" /\ new.out = m.out
        /\ new.cut = m.cut /\ new.popped = m.popped /\ new.written = m.written
    BY <1>1 DEF SessionType, CloseSteps
  <2>3. /\ new.leg = m.leg /\ new.started = m.started /\ new.lastSeq = m.lastSeq
        /\ new.frameSeq = m.frameSeq /\ new.first = m.first /\ new.last = m.last
    BY <1>1 DEF SessionType
  <2> HIDE DEF new
  <2>4. QueueInv(new)
    BY <2>2 DEF QueueInv
  <2>5. Moves(s, new)
    BY <2>1, <2>2, <2>3, <2>4 DEF Moves, Changes
  <2>6. QED
    BY <2>1, <2>2, <2>5 DEF Changes
<1>7. CASE ShutdownCloses(s)
  BY <1>7 DEF ShutdownCloses
<1>8. CASE \E k \in 1 .. 2 : Write(s, k)
  <2>1. PICK k \in 1 .. 2 : Write(s, k)
    BY <1>8
  <2> DEFINE fits == IF Len(m.out) + k <= OutQueueMax THEN k ELSE OutQueueMax - Len(m.out)
             more == m.out \o [i \in 1 .. fits |-> m.written + i]
             new == [m EXCEPT !.out = more, !.written = @ + fits]
  <2>2. fits > 0 /\ Changes(s, new) /\ UNCHANGED mapped
    BY <2>1 DEF Write
  <2>3. fits \in Nat /\ Len(m.out) + fits <= OutQueueMax
    <3>1. fits \in Int
      BY <1>2, <1>3
    <3>2. QED
      BY <1>2, <1>3, <2>2, <3>1
  <2> HIDE DEF fits
  <2>4. more \in Seq(Nat) /\ m.written + fits \in Nat
    <3>1. [i \in 1 .. fits |-> m.written + i] \in Seq(Nat)
      BY <1>3, <2>3
    <3>2. QED
      BY <1>3, <2>3, <3>1, ConcatProperties
  <2>5. new \in SessionType /\ new.close = m.close /\ new.out = more
        /\ new.cut = m.cut /\ new.popped = m.popped /\ new.written = m.written + fits
    <3> HIDE DEF more
    <3>1. QED
      BY <1>1, <2>4 DEF SessionType
  <2>6. /\ new.leg = m.leg /\ new.started = m.started /\ new.lastSeq = m.lastSeq
        /\ new.frameSeq = m.frameSeq /\ new.first = m.first /\ new.last = m.last
    <3> HIDE DEF more
    <3>1. QED
      BY <1>1 DEF SessionType
  <2> HIDE DEF new
  <2>7. QueueInv(new)
    BY <1>1, <1>2, <2>3, <2>5, WriteQueue
  <2>8. Moves(s, new)
    BY <2>2, <2>5, <2>6, <2>7 DEF Moves, Changes
  <2>9. QED
    BY <2>2, <2>5, <2>8 DEF Changes
<1>9. CASE Flush(s)
  <2> DEFINE new == [m EXCEPT !.out = <<>>, !.cut = m.written]
  <2>1. Changes(s, new) /\ UNCHANGED mapped
    BY <1>9 DEF Flush
  <2>2. new \in SessionType /\ new.close = m.close /\ new.out = <<>>
        /\ new.cut = m.written /\ new.popped = m.popped /\ new.written = m.written
    BY <1>1, <1>3 DEF SessionType
  <2>3. /\ new.leg = m.leg /\ new.started = m.started /\ new.lastSeq = m.lastSeq
        /\ new.frameSeq = m.frameSeq /\ new.first = m.first /\ new.last = m.last
    BY <1>1 DEF SessionType
  <2> HIDE DEF new
  <2>4. QueueInv(new)
    BY <1>2, <1>3, <2>2, EmptyQueue
  <2>5. Moves(s, new)
    BY <2>1, <2>2, <2>3, <2>4 DEF Moves, Changes
  <2>6. QED
    BY <2>1, <2>2, <2>5 DEF Changes
<1>10. CASE nextPayload(s)
  <2> DEFINE new == [m EXCEPT !.out = Tail(@), !.popped = Head(m.out)]
  <2>1. m.out # <<>> /\ Changes(s, new) /\ UNCHANGED mapped
    BY <1>10 DEF nextPayload
  <2>2. Tail(m.out) \in Seq(Nat) /\ Head(m.out) \in Nat
    BY <1>3, <2>1
  <2>3. new \in SessionType /\ new.close = m.close /\ new.out = Tail(m.out)
        /\ new.cut = m.cut /\ new.popped = Head(m.out) /\ new.written = m.written
    BY <1>1, <2>2 DEF SessionType
  <2>4. /\ new.leg = m.leg /\ new.started = m.started /\ new.lastSeq = m.lastSeq
        /\ new.frameSeq = m.frameSeq /\ new.first = m.first /\ new.last = m.last
    BY <1>1 DEF SessionType
  <2> HIDE DEF new
  <2>5. QueueInv(new)
    BY <1>1, <1>2, <2>1, <2>3, TickQueue
  <2>6. Moves(s, new)
    BY <2>1, <2>3, <2>4, <2>5 DEF Moves, Changes
  <2>7. QED
    BY <2>1, <2>3, <2>6 DEF Changes
<1>11. CASE WriteToUDP(s)
  <2> DEFINE new == [m EXCEPT !.popped = None]
  <2>1. Changes(s, new) /\ UNCHANGED mapped
    BY <1>11 DEF WriteToUDP
  <2>2. new \in SessionType /\ new.close = m.close /\ new.out = m.out
        /\ new.cut = m.cut /\ new.popped = 0 /\ new.written = m.written
    BY <1>1 DEF SessionType, None
  <2>3. /\ new.leg = m.leg /\ new.started = m.started /\ new.lastSeq = m.lastSeq
        /\ new.frameSeq = m.frameSeq /\ new.first = m.first /\ new.last = m.last
    BY <1>1 DEF SessionType
  <2> HIDE DEF new
  <2>4. QueueInv(new)
    BY <1>3, <2>2 DEF QueueInv
  <2>5. Moves(s, new)
    BY <2>1, <2>2, <2>3, <2>4 DEF Moves, Changes
  <2>6. QED
    BY <2>1, <2>2, <2>5 DEF Changes
<1>12. QED
  BY <1>4, <1>5, <1>6, <1>7, <1>8, <1>9, <1>10, <1>11 DEF Session

-----------------------------------------------------------------------------
(* Sessions are a sequence: one is replaced, or a new one appended.        *)

\* Replacing a session.
LEMMA Replaced ==
  ASSUME sessions \in Seq(SessionType), NEW s \in DOMAIN sessions, NEW new \in SessionType,
         sessions' = [sessions EXCEPT ![s] = new]
  PROVE  /\ sessions' \in Seq(SessionType) /\ DOMAIN sessions' = DOMAIN sessions
         /\ sessions'[s] = new
         /\ \A t \in DOMAIN sessions : t # s => sessions'[t] = sessions[t]
<1>1. sessions' \in Seq(SessionType) /\ Len(sessions') = Len(sessions)
      /\ \A t \in 1 .. Len(sessions) : sessions'[t] = IF t = s THEN new ELSE sessions[t]
  BY ExceptSeq
<1>2. DOMAIN sessions = 1 .. Len(sessions) /\ DOMAIN sessions' = 1 .. Len(sessions')
  BY <1>1, LenProperties
<1>3. QED
  BY <1>1, <1>2

\* A new session.
LEMMA Appended ==
  ASSUME sessions \in Seq(SessionType), NEW new \in SessionType,
         sessions' = Append(sessions, new)
  PROVE  /\ sessions' \in Seq(SessionType)
         /\ DOMAIN sessions = 1 .. Len(sessions) /\ Len(sessions) \in Nat
         /\ DOMAIN sessions' = DOMAIN sessions \cup {Len(sessions) + 1}
         /\ sessions'[Len(sessions) + 1] = new
         /\ \A t \in DOMAIN sessions : sessions'[t] = sessions[t]
<1>1. /\ sessions' \in Seq(SessionType) /\ Len(sessions') = Len(sessions) + 1
      /\ sessions'[Len(sessions) + 1] = new
      /\ \A t \in 1 .. Len(sessions) : sessions'[t] = sessions[t]
  BY AppendProperties
<1>2. DOMAIN sessions = 1 .. Len(sessions) /\ DOMAIN sessions' = 1 .. Len(sessions')
      /\ Len(sessions) \in Nat
  BY <1>1, LenProperties
<1>3. QED
  BY <1>1, <1>2

\* What a session is made of.
LEMMA Fields ==
  ASSUME sessions \in Seq(SessionType), NEW s \in DOMAIN sessions
  PROVE  /\ sessions[s] \in SessionType /\ sessions[s].leg \in Legs
         /\ sessions[s].last \in Nat
<1>1. sessions[s] \in SessionType
  BY ElementOfSeq
<1>2. QED
  BY <1>1 DEF SessionType

\* A fresh session.
LEMMA FreshSession ==
  ASSUME NEW g \in Legs, OutQueueMax \in Nat
  PROVE  /\ newMediaSession(g) \in SessionType /\ newMediaSession(g).leg = g
         /\ newMediaSession(g).close = "no" /\ newMediaSession(g).started = FALSE
         /\ QueueInv(newMediaSession(g)) /\ NumberInv(newMediaSession(g))
<1>1. newMediaSession(g) \in SessionType
  BY DEF newMediaSession, SessionType, CloseSteps, None
<1>2. /\ newMediaSession(g).leg = g /\ newMediaSession(g).close = "no"
      /\ newMediaSession(g).started = FALSE /\ newMediaSession(g).out = <<>>
      /\ newMediaSession(g).cut = 0 /\ newMediaSession(g).popped = 0
      /\ newMediaSession(g).written = 0 /\ newMediaSession(g).frameSeq = 0
      /\ newMediaSession(g).first = 0 /\ newMediaSession(g).last = 0
  BY DEF newMediaSession, None
<1>3. QED
  BY <1>1, <1>2, EmptyQueue DEF NumberInv

-----------------------------------------------------------------------------
(* A delivery.                                                             *)

\* How far, on the wire, packet n is ahead of where session m stands, and
\* whether it is dropped.
Delta(m, n) == (Seq16(n) - m.lastSeq + Wrap) % Wrap
Late(m, n)  == m.started /\ (Delta(m, n) = 0 \/ Delta(m, n) > Half)

\* The session after packet n was delivered.
Fresh(m, n, new) ==
  /\ new \in SessionType /\ QueueInv(new) /\ new.leg = m.leg /\ new.close = m.close
  /\ new.started = TRUE /\ new.lastSeq = Seq16(n) /\ new.last = n
  /\ new.frameSeq = (IF m.started THEN m.frameSeq + Delta(m, n) ELSE m.frameSeq)
  /\ new.first = (IF m.started THEN m.first ELSE n)

\* Wire numbers are numbers.
LEMMA WireNumbers ==
  /\ Wrap \in Nat \ {0} /\ Half \in Nat /\ Half + Half = Wrap
  /\ FirstSeq \in Nat /\ Reorder \in Nat /\ Reorder < Half
  /\ \A n \in Nat : Seq16(n) \in Nat
  /\ \A i \in Int : i % Wrap \in Nat
<1>1. Wrap \in Nat \ {0} /\ Wrap % 2 = 0 /\ Reorder \in 0 .. (Wrap \div 2) - 1
      /\ FirstSeq \in 0 .. Wrap - 1
  BY ExternalMediaAssumption
<1>2. Half \in Nat /\ Half + Half = Wrap /\ Reorder \in Nat /\ Reorder < Half
  BY <1>1 DEF Half
<1>3. \A i \in Int : i % Wrap \in Nat
  BY <1>1
<1>4. \A n \in Nat : Seq16(n) \in Nat
  BY <1>1, <1>3 DEF Seq16
<1>5. QED
  BY <1>1, <1>2, <1>3, <1>4

\* deliver drops the packet or puts its session where the packet is.
LEMMA Delivers ==
  ASSUME TypeInv, Queues, deliver
  PROVE  /\ reader.at = "deliver" /\ reader.s \in DOMAIN sessions
         /\ sessions[reader.s] \in SessionType /\ sessions[reader.s].leg = reader.leg
         /\ UNCHANGED <<netVars, server, mapped, panicked>>
         /\ reader' \in {Reading, [reader EXCEPT !.at = "send"]}
         /\ \/ Late(sessions[reader.s], reader.n) /\ sessions' = sessions
            \/ /\ ~Late(sessions[reader.s], reader.n)
               /\ \E new \in SessionType :
                    /\ Fresh(sessions[reader.s], reader.n, new)
                    /\ sessions' = [sessions EXCEPT ![reader.s] = new]
<1> DEFINE s == reader.s
           n == reader.n
           m == sessions[s]
<1>1. reader.at = "deliver"
  BY DEF deliver
<1>2. s \in DOMAIN sessions /\ m.leg = reader.leg /\ n \in Nat
  BY <1>1 DEF TypeInv, ReaderTyped, ReaderType
<1>3. m \in SessionType
  BY <1>2, ElementOfSeq DEF TypeInv
<1>4. Delta(m, n) \in Nat /\ Seq16(n) \in Nat
  <2>1. Seq16(n) \in Nat /\ Wrap \in Nat
    BY <1>2, WireNumbers
  <2>2. m.lastSeq \in Nat
    BY <1>3 DEF SessionType
  <2>3. Seq16(n) - m.lastSeq + Wrap \in Int
    BY <2>1, <2>2
  <2>4. Delta(m, n) \in Nat
    BY <2>3, WireNumbers DEF Delta
  <2>5. QED
    BY <2>1, <2>4
<1> DEFINE frameSeq == IF m.started THEN m.frameSeq + Delta(m, n) ELSE m.frameSeq
           first == IF m.started THEN m.first ELSE n
           new == [m EXCEPT !.started = TRUE, !.lastSeq = Seq16(n), !.last = n,
                            !.frameSeq = frameSeq, !.first = first]
<1>5. /\ UNCHANGED <<netVars, server, mapped, panicked>>
      /\ reader' \in {Reading, [reader EXCEPT !.at = "send"]}
  BY DEF deliver
<1>6. sessions' = IF Late(m, n) THEN sessions ELSE [sessions EXCEPT ![s] = new]
  BY ZenonT(60) DEF deliver, Late, Delta
<1>7. new \in SessionType
  <2>1. frameSeq \in Nat /\ first \in Nat
    <3>1. m.frameSeq \in Nat /\ m.first \in Nat /\ m.started \in BOOLEAN
      BY <1>3 DEF SessionType
    <3> HIDE DEF m, n
    <3>2. QED
      BY <1>2, <1>4, <3>1
  <2> HIDE DEF frameSeq, first
  <2>2. QED
    BY <1>2, <1>3, <1>4, <2>1 DEF SessionType
<1>8. /\ new.leg = m.leg /\ new.close = m.close /\ new.started = TRUE
      /\ new.lastSeq = Seq16(n) /\ new.last = n
      /\ new.frameSeq = frameSeq /\ new.first = first
      /\ new.out = m.out /\ new.written = m.written /\ new.cut = m.cut
      /\ new.popped = m.popped
  BY <1>3 DEF SessionType
<1> HIDE DEF new
<1>9. QueueInv(new)
  BY <1>2, <1>8 DEF Queues, QueueInv
<1>10. Fresh(m, n, new)
  BY <1>7, <1>8, <1>9 DEF Fresh
<1>11. CASE Late(m, n)
  BY <1>1, <1>2, <1>3, <1>5, <1>6, <1>11
<1>12. CASE ~Late(m, n)
  BY <1>1, <1>2, <1>3, <1>5, <1>6, <1>7, <1>10, <1>12
<1>13. QED
  BY <1>11, <1>12

-----------------------------------------------------------------------------
(* Types and queues.                                                       *)

\* A packet has its session: the one of its leg, or a new one, mapped.
LEMMA Opens ==
  ASSUME TypeInv, session
  PROVE  /\ reader.at = "session" /\ reader.leg \in Legs /\ UNCHANGED netVars
         /\ reader' = [reader EXCEPT !.at = "deliver", !.s = mapped'[reader.leg]]
         /\ \/ mapped[reader.leg] # None /\ UNCHANGED <<mapped, sessions, server>>
            \/ /\ mapped[reader.leg] = None
               /\ sessions' = Append(sessions, newMediaSession(reader.leg))
               /\ mapped' = [mapped EXCEPT ![reader.leg] = Len(sessions) + 1]
               /\ server' \in ServerType /\ server'.closed = server.closed
<1>1. reader.at = "session" /\ UNCHANGED netVars
  BY Zenon DEF session
<1>2. reader.leg \in Legs /\ mapped \in [Legs -> Nat] /\ server \in ServerType
  BY <1>1 DEF TypeInv, ReaderTyped, MapTyped
<1>3. CASE /\ mapped[reader.leg] # None
           /\ reader' = [reader EXCEPT !.at = "deliver", !.s = mapped[reader.leg]]
           /\ UNCHANGED <<server, mapped, sessions, panicked>>
  BY <1>1, <1>2, <1>3
<1>4. CASE /\ mapped[reader.leg] = None
           /\ sessions' = Append(sessions, newMediaSession(reader.leg))
           /\ mapped' = [mapped EXCEPT ![reader.leg] = Len(sessions) + 1]
           /\ reader' = [reader EXCEPT !.at = "deliver", !.s = Len(sessions) + 1]
           /\ server' = IF Len(server.accept) < AcceptCap
                        THEN [server EXCEPT !.accept = Append(@, Len(sessions) + 1)]
                        ELSE server
  <2>1. mapped'[reader.leg] = Len(sessions) + 1
    BY <1>2, <1>4
  <2>2. Append(server.accept, Len(sessions) + 1) \in Seq(Nat)
    <3>1. Len(sessions) \in Nat /\ server.accept \in Seq(Nat)
      BY <1>2, LenProperties DEF TypeInv, ServerType
    <3>2. QED
      BY <3>1, AppendProperties
  <2>3. server' \in ServerType /\ server'.closed = server.closed
    <3> DEFINE more == Append(server.accept, Len(sessions) + 1)
    <3>1. server' \in {server, [server EXCEPT !.accept = more]}
      BY <1>4
    <3>2. more \in Seq(Nat)
      BY <2>2
    <3> HIDE DEF more
    <3>3. QED
      BY <1>2, <3>1, <3>2 DEF ServerType
  <2>4. QED
    BY <1>1, <1>2, <1>4, <2>1, <2>3
<1>5. QED
  BY <1>3, <1>4 DEF session

\* What the read loop and the server change besides the sessions.
LEMMA SeenStep ==
  ASSUME SeenTyped, NEW g \in Legs, NEW n \in Nat, ReadFromUDP(g, n)
  PROVE  /\ jitter'[g].seen = jitter[g].seen \cup {n}
         /\ jitter'[g].buffer = Push(jitter[g].buffer, n)
         /\ jitter'[g].first = (IF jitter[g].seen = {} THEN n ELSE jitter[g].first)
         /\ \A h \in Legs : h # g => jitter'[h] = jitter[h]
         /\ SeenTyped'
<1>1. jitter' = [jitter EXCEPT ![g] =
        [buffer |-> Push(jitter[g].buffer, n), seen |-> jitter[g].seen \cup {n},
         first |-> IF jitter[g].seen = {} THEN n ELSE jitter[g].first]]
  BY Zenon DEF ReadFromUDP
<1>2. DOMAIN jitter = Legs
  BY DEF SeenTyped
<1>3. /\ DOMAIN jitter' = Legs
      /\ jitter'[g] = [buffer |-> Push(jitter[g].buffer, n), seen |-> jitter[g].seen \cup {n},
                       first |-> IF jitter[g].seen = {} THEN n ELSE jitter[g].first]
      /\ \A h \in Legs : h # g => jitter'[h] = jitter[h]
  BY <1>1, <1>2
<1>4. /\ jitter'[g].seen = jitter[g].seen \cup {n}
      /\ jitter'[g].buffer = Push(jitter[g].buffer, n)
      /\ jitter'[g].first = (IF jitter[g].seen = {} THEN n ELSE jitter[g].first)
  BY <1>3
<1>5. SeenTyped'
  BY <1>3, <1>4 DEF SeenTyped
<1>6. QED
  BY <1>3, <1>4, <1>5

\* The type invariant and the order of the queues, step by step.
LEMMA TypeStep ==
  ASSUME TypeInv, Queues, [Next]_vars
  PROVE  TypeInv' /\ Queues'
<1>1. /\ sessions \in Seq(SessionType) /\ server \in ServerType
      /\ ReaderTyped /\ MapTyped /\ SeenTyped /\ reader \in ReaderType
      /\ mapped \in [Legs -> Nat]
  BY DEF TypeInv, ReaderTyped, MapTyped
<1>2. OutQueueMax \in Nat /\ MaxPackets \in Nat
  BY ExternalMediaAssumption
<1>3. CASE \E g \in Legs, n \in 0 .. MaxPackets - 1 : ReadFromUDP(g, n)
  <2>1. PICK g \in Legs, n \in 0 .. MaxPackets - 1 : ReadFromUDP(g, n)
    BY <1>3
  <2>2. n \in Nat
    BY <1>2
  <2>3. reader' = [at |-> "session", leg |-> g, n |-> n, s |-> 0]
        /\ UNCHANGED <<server, mapped, sessions>>
    BY <2>1 DEF ReadFromUDP, None
  <2>4. SeenTyped'
    BY <1>1, <2>1, <2>2, SeenStep
  <2>5. ReaderTyped'
    BY <2>2, <2>3 DEF ReaderTyped, ReaderType
  <2>6. QED
    BY <1>1, <2>3, <2>4, <2>5 DEF TypeInv, MapTyped, Queues
<1>4. CASE session
  <2>1. /\ reader.at = "session" /\ reader.leg \in Legs /\ UNCHANGED netVars
        /\ reader' = [reader EXCEPT !.at = "deliver", !.s = mapped'[reader.leg]]
    BY <1>4, Opens
  <2>2. SeenTyped'
    BY <1>1, <2>1 DEF SeenTyped, netVars
  <2>3. CASE mapped[reader.leg] # None /\ UNCHANGED <<mapped, sessions, server>>
    <3>1. MapTyped' /\ Queues'
      BY <1>1, <2>3 DEF MapTyped, Queues
    <3>2. ReaderTyped'
      BY <1>1, <2>1, <2>3 DEF ReaderTyped, ReaderType, MapTyped
    <3>3. QED
      BY <1>1, <2>2, <2>3, <3>1, <3>2 DEF TypeInv
  <2>4. CASE /\ mapped[reader.leg] = None
             /\ sessions' = Append(sessions, newMediaSession(reader.leg))
             /\ mapped' = [mapped EXCEPT ![reader.leg] = Len(sessions) + 1]
             /\ server' \in ServerType
    <3> DEFINE new == newMediaSession(reader.leg)
    <3>1. new \in SessionType /\ new.leg = reader.leg /\ QueueInv(new)
      BY <1>2, <2>1, FreshSession
    <3> HIDE DEF new
    <3>2. /\ sessions' \in Seq(SessionType) /\ Len(sessions) \in Nat
          /\ DOMAIN sessions' = DOMAIN sessions \cup {Len(sessions) + 1}
          /\ sessions'[Len(sessions) + 1] = new
          /\ \A t \in DOMAIN sessions : sessions'[t] = sessions[t]
      BY <1>1, <2>4, <3>1, Appended DEF new
    <3>3. mapped' \in [Legs -> Nat] /\ mapped'[reader.leg] = Len(sessions) + 1
          /\ \A g \in Legs : g # reader.leg => mapped'[g] = mapped[g]
      BY <1>1, <2>1, <2>4, <3>2
    <3>4. MapTyped'
      BY <1>1, <3>1, <3>2, <3>3 DEF MapTyped
    <3>5. ReaderTyped'
      BY <1>1, <2>1, <3>1, <3>2, <3>3 DEF ReaderTyped, ReaderType
    <3>6. Queues'
      BY <3>1, <3>2 DEF Queues
    <3>7. QED
      BY <2>2, <2>4, <3>2, <3>4, <3>5, <3>6 DEF TypeInv
  <2>5. QED
    BY <1>4, <2>3, <2>4, Opens
<1>5. CASE deliver
  <2>1. /\ reader.at = "deliver" /\ reader.s \in DOMAIN sessions
        /\ sessions[reader.s].leg = reader.leg
        /\ UNCHANGED <<netVars, server, mapped, panicked>>
        /\ reader' \in {Reading, [reader EXCEPT !.at = "send"]}
    BY <1>5, Delivers
  <2>2. SeenTyped'
    BY <1>1, <2>1 DEF SeenTyped, netVars
  <2>3. CASE sessions' = sessions
    <3>1. ReaderTyped'
      BY <1>1, <2>1, <2>3 DEF ReaderTyped, ReaderType, Reading, None
    <3>2. QED
      BY <1>1, <2>1, <2>2, <2>3, <3>1 DEF TypeInv, MapTyped, Queues
  <2>4. CASE \E new \in SessionType :
               /\ Fresh(sessions[reader.s], reader.n, new)
               /\ sessions' = [sessions EXCEPT ![reader.s] = new]
    <3>1. PICK new \in SessionType :
               /\ Fresh(sessions[reader.s], reader.n, new)
               /\ sessions' = [sessions EXCEPT ![reader.s] = new]
      BY <2>4
    <3>2. QueueInv(new) /\ new.leg = reader.leg
      BY <2>1, <3>1 DEF Fresh
    <3>3. /\ sessions' \in Seq(SessionType) /\ DOMAIN sessions' = DOMAIN sessions
          /\ sessions'[reader.s] = new
          /\ \A t \in DOMAIN sessions : t # reader.s => sessions'[t] = sessions[t]
      BY <1>1, <2>1, <3>1, Replaced
    <3>4. ReaderTyped'
      BY <1>1, <2>1, <3>2, <3>3, SMTT(60) DEF ReaderTyped, ReaderType, Reading, None
    <3>5. MapTyped'
      BY <1>1, <2>1, <3>2, <3>3 DEF MapTyped
    <3>6. Queues'
      BY <3>2, <3>3 DEF Queues
    <3>7. QED
      BY <1>1, <2>1, <2>2, <3>3, <3>4, <3>5, <3>6 DEF TypeInv
  <2>5. QED
    BY <1>5, <2>3, <2>4, Delivers
<1>6. CASE SendFrame \/ ReadFails
  <2>1. reader' \in {Reading, [Reading EXCEPT !.at = "shutdown"]}
        /\ UNCHANGED <<netVars, server, mapped, sessions>>
    BY <1>6 DEF SendFrame, ReadFails
  <2>2. ReaderTyped'
    BY <2>1 DEF ReaderTyped, ReaderType, Reading, None
  <2>3. QED
    BY <1>1, <2>1, <2>2 DEF TypeInv, MapTyped, SeenTyped, Queues, netVars
<1>7. CASE CloseServer \/ CloseAccept
  <2>1. server' \in ServerType /\ UNCHANGED <<netVars, reader, mapped, sessions>>
    BY <1>1, <1>7 DEF CloseServer, CloseAccept, ServerType
  <2>2. QED
    BY <1>1, <2>1 DEF TypeInv, ReaderTyped, MapTyped, SeenTyped, Queues, netVars
<1>8. CASE Shutdown
  <2>1. /\ server' = [server EXCEPT !.closed = TRUE,
                                    !.closing = {mapped[g] : g \in Legs} \ {0}]
        /\ mapped' = [g \in Legs |-> 0]
        /\ UNCHANGED <<netVars, reader, sessions>>
    BY <1>8 DEF Shutdown, None
  <2>2. {mapped[g] : g \in Legs} \ {0} \in SUBSET Nat
    BY <1>1
  <2>3. server' \in ServerType
    BY <1>1, <2>1, <2>2 DEF ServerType
  <2>4. MapTyped'
    BY <2>1 DEF MapTyped, None
  <2>5. QED
    BY <1>1, <2>1, <2>3, <2>4 DEF TypeInv, ReaderTyped, SeenTyped, Queues, netVars
<1>9. CASE Accept
  <2>1. /\ server.accept # <<>>
        /\ server' = [server EXCEPT !.accept = Tail(@), !.owned = @ \cup {Head(server.accept)}]
        /\ UNCHANGED <<netVars, reader, mapped, sessions>>
    BY <1>9 DEF Accept
  <2>2. server.accept \in Seq(Nat)
    BY <1>1 DEF ServerType
  <2>3. Tail(server.accept) \in Seq(Nat) /\ Head(server.accept) \in Nat
    BY <2>1, <2>2
  <2>4. server' \in ServerType
    BY <1>1, <2>1, <2>3 DEF ServerType
  <2>5. QED
    BY <1>1, <2>1, <2>4 DEF TypeInv, ReaderTyped, MapTyped, SeenTyped, Queues, netVars
<1>10. CASE \E s \in DOMAIN sessions : Session(s)
  <2>1. PICK s \in DOMAIN sessions : Session(s)
    BY <1>10
  <2>2. QueueInv(sessions[s])
    BY DEF Queues
  <2>3. UNCHANGED <<netVars, reader, panicked>>
    BY <2>1, <2>2, SessionMoves
  <2>4. CASE UNCHANGED <<sessions, mapped>> /\ server' = [server EXCEPT !.closing = @ \ {s}]
    <3>1. server' \in ServerType
      BY <1>1, <2>4 DEF ServerType
    <3>2. QED
      BY <1>1, <2>3, <2>4, <3>1 DEF TypeInv, ReaderTyped, MapTyped, SeenTyped, Queues, netVars
  <2>5. CASE UNCHANGED server /\ \E new \in SessionType : Moves(s, new)
    <3>1. PICK new \in SessionType : Moves(s, new)
      BY <2>5
    <3>2. /\ QueueInv(new) /\ new.leg = sessions[s].leg
          /\ sessions' = [sessions EXCEPT ![s] = new]
          /\ \/ mapped' = mapped
             \/ mapped' = IF server.closed THEN mapped ELSE [mapped EXCEPT ![sessions[s].leg] = None]
      BY <3>1 DEF Moves
    <3>3. /\ sessions' \in Seq(SessionType) /\ DOMAIN sessions' = DOMAIN sessions
          /\ sessions'[s] = new
          /\ \A t \in DOMAIN sessions : t # s => sessions'[t] = sessions[t]
      BY <1>1, <3>2, Replaced
    <3>4. mapped' \in [Legs -> Nat] /\ \A g \in Legs : mapped'[g] # 0 => mapped'[g] = mapped[g]
      BY <1>1, <3>2 DEF None
    <3>5. ReaderTyped'
      BY <1>1, <2>3, <3>2, <3>3 DEF ReaderTyped
    <3>6. MapTyped'
      BY <1>1, <3>2, <3>3, <3>4 DEF MapTyped, None
    <3>7. Queues'
      BY <3>2, <3>3 DEF Queues
    <3>8. QED
      BY <1>1, <2>3, <2>5, <3>3, <3>5, <3>6, <3>7 DEF TypeInv, SeenTyped, netVars
  <2>6. QED
    BY <2>1, <2>2, <2>4, <2>5, SessionMoves
<1>11. CASE UNCHANGED vars
  BY <1>1, <1>11 DEF TypeInv, ReaderTyped, MapTyped, SeenTyped, Queues, vars, netVars
<1>12. QED
  BY <1>3, <1>4, <1>5, <1>6, <1>7, <1>8, <1>9, <1>10, <1>11 DEF Next

-----------------------------------------------------------------------------
(* The steps, as the other invariants see them.                            *)

\* A step that leaves the sessions alone: the read loop has no packet any
\* more or the same, and only the shutdown changes the map.
Quiet ==
  /\ UNCHANGED <<sessions, jitter>>
  /\ \/ reader' = reader
     \/ {reader.at, reader'.at} \cap {"session", "deliver"} = {}
  /\ \/ mapped' = mapped /\ server'.closed = server.closed
     \/ server'.closed /\ mapped' = [g \in Legs |-> None]

\* Every step reads, opens, delivers, moves one session or is quiet.
LEMMA Steps ==
  ASSUME TypeInv, Queues, [Next]_vars
  PROVE  \/ \E g \in Legs, n \in Nat : ReadFromUDP(g, n)
         \/ session
         \/ deliver
         \/ Quiet
         \/ /\ UNCHANGED <<jitter, reader, server>>
            /\ \E s \in DOMAIN sessions : \E new \in SessionType : Moves(s, new)
<1>1. server \in ServerType
  BY DEF TypeInv
<1>2. CASE \E g \in Legs, n \in 0 .. MaxPackets - 1 : ReadFromUDP(g, n)
  <2>1. MaxPackets \in Nat
    BY ExternalMediaAssumption
  <2>2. PICK g \in Legs, n \in 0 .. MaxPackets - 1 : ReadFromUDP(g, n)
    BY <1>2
  <2>3. n \in Nat
    BY <2>1
  <2>4. \E i \in Legs, j \in Nat : ReadFromUDP(i, j)
    BY <2>2, <2>3, Zenon
  <2>5. QED
    BY <2>4, Zenon
<1>3. CASE SendFrame \/ ReadFails
  <2>1. reader' \in {Reading, [Reading EXCEPT !.at = "shutdown"]}
        /\ UNCHANGED <<netVars, server, mapped, sessions>>
    BY <1>3 DEF SendFrame, ReadFails
  <2>2. reader'.at \in {"read", "shutdown"} /\ reader.at \in {"read", "send"}
    <3>1. reader'.at \in {"read", "shutdown"}
      BY <2>1 DEF Reading
    <3>2. reader.at \in {"read", "send"}
      BY <1>3 DEF SendFrame, ReadFails
    <3>3. QED
      BY <3>1, <3>2
  <2>3. Quiet
    BY <2>1, <2>2 DEF Quiet, netVars
  <2>4. QED
    BY <2>3
<1>4. CASE CloseServer \/ CloseAccept
  BY <1>1, <1>4 DEF CloseServer, CloseAccept, Quiet, netVars, ServerType
<1>5. CASE Shutdown
  BY <1>1, <1>5 DEF Shutdown, Quiet, netVars, ServerType
<1>6. CASE Accept
  BY <1>1, <1>6 DEF Accept, Quiet, netVars, ServerType
<1>7. CASE \E s \in DOMAIN sessions : Session(s)
  <2>1. PICK s \in DOMAIN sessions : Session(s)
    BY <1>7
  <2>2. QueueInv(sessions[s])
    BY DEF Queues
  <2>3. UNCHANGED <<netVars, reader, panicked>>
    BY <2>1, <2>2, SessionMoves
  <2>4. CASE UNCHANGED <<sessions, mapped>> /\ server' = [server EXCEPT !.closing = @ \ {s}]
    <3>1. server'.closed = server.closed
      BY <1>1, <2>4 DEF ServerType
    <3>2. QED
      BY <2>3, <2>4, <3>1 DEF Quiet, netVars
  <2>5. CASE UNCHANGED server /\ \E new \in SessionType : Moves(s, new)
    BY <2>3, <2>5 DEF netVars
  <2>6. QED
    BY <2>1, <2>2, <2>4, <2>5, SessionMoves
<1>8. CASE UNCHANGED vars
  BY <1>8 DEF vars, netVars, Quiet
<1>9. QED
  BY <1>2, <1>3, <1>4, <1>5, <1>6, <1>7, <1>8 DEF Next

-----------------------------------------------------------------------------
(* One session per leg.                                                    *)

\* The sessions of a leg close before the next one opens, step by step.
LEMMA SessionsStep ==
  ASSUME TypeInv, Queues, SessionsInv, [Next]_vars
  PROVE  SessionsInv'
<1>1. /\ sessions \in Seq(SessionType) /\ server \in ServerType
      /\ mapped \in [Legs -> Nat]
  BY DEF TypeInv, MapTyped
<1>2. ~server.closed => \A s \in DOMAIN sessions :
        sessions[s].close # "done" => mapped[sessions[s].leg] = s
  BY DEF SessionsInv
<1>3. ~server.closed => \A s, t \in DOMAIN sessions :
        s < t /\ sessions[s].leg = sessions[t].leg => sessions[s].close = "done"
  BY DEF SessionsInv, OneSessionPerLeg
<1>4. \A s \in DOMAIN sessions : sessions[s] \in SessionType /\ sessions[s].leg \in Legs
  <2>1. TAKE s \in DOMAIN sessions
  <2>2. sessions[s] \in SessionType
    BY <1>1, ElementOfSeq
  <2>3. QED
    BY <2>2 DEF SessionType
<1>5. CASE \E g \in Legs, n \in Nat : ReadFromUDP(g, n)
  <2>1. UNCHANGED <<sessions, mapped, server>>
    BY <1>5 DEF ReadFromUDP
  <2>2. QED
    BY <2>1 DEF SessionsInv, OneSessionPerLeg
<1>6. CASE session
  <2>1. reader.leg \in Legs
    BY <1>6, Opens
  <2>2. CASE UNCHANGED <<mapped, sessions, server>>
    BY <2>2 DEF SessionsInv, OneSessionPerLeg
  <2>3. CASE /\ mapped[reader.leg] = None
             /\ sessions' = Append(sessions, newMediaSession(reader.leg))
             /\ mapped' = [mapped EXCEPT ![reader.leg] = Len(sessions) + 1]
             /\ server'.closed = server.closed
    <3> DEFINE new == newMediaSession(reader.leg)
               k == Len(sessions) + 1
    <3>1. new \in SessionType /\ new.leg = reader.leg
      BY <2>1, ExternalMediaAssumption, FreshSession
    <3> HIDE DEF new
    <3>2. /\ DOMAIN sessions = 1 .. Len(sessions) /\ Len(sessions) \in Nat
          /\ DOMAIN sessions' = DOMAIN sessions \cup {k}
          /\ sessions'[k] = new
          /\ \A t \in DOMAIN sessions : sessions'[t] = sessions[t]
      BY <1>1, <2>3, <3>1, Appended DEF new
    <3>3. mapped'[reader.leg] = k /\ \A g \in Legs : g # reader.leg => mapped'[g] = mapped[g]
      BY <1>1, <2>1, <2>3
    <3>4. SUFFICES ASSUME ~server.closed
                   PROVE  SessionsInv'
      BY <2>3 DEF SessionsInv, OneSessionPerLeg
    <3>5. \A s \in DOMAIN sessions : sessions[s].leg = reader.leg => sessions[s].close = "done"
      <4>1. TAKE s \in DOMAIN sessions
      <4>2. s # 0
        BY <3>2
      <4>3. QED
        BY <1>2, <2>3, <3>4, <4>2 DEF None
    <3>6. ASSUME NEW s \in DOMAIN sessions', sessions'[s].close # "done"
          PROVE  mapped'[sessions'[s].leg] = s
      <4>1. CASE s = k
        BY <3>1, <3>2, <3>3, <4>1
      <4>2. CASE s \in DOMAIN sessions
        BY <1>2, <1>4, <3>2, <3>3, <3>4, <3>5, <3>6, <4>2
      <4>3. QED
        BY <3>2, <4>1, <4>2
    <3>7. ASSUME NEW s \in DOMAIN sessions', NEW t \in DOMAIN sessions',
                 s < t, sessions'[s].leg = sessions'[t].leg
          PROVE  sessions'[s].close = "done"
      <4>1. s \in DOMAIN sessions
        BY <3>2, <3>7
      <4>2. CASE t = k
        BY <3>1, <3>2, <3>5, <3>7, <4>1, <4>2
      <4>3. CASE t \in DOMAIN sessions
        BY <1>3, <3>2, <3>4, <3>7, <4>1, <4>3
      <4>4. QED
        BY <3>2, <4>2, <4>3
    <3>8. QED
      BY <3>6, <3>7 DEF SessionsInv, OneSessionPerLeg
  <2>4. QED
    BY <1>6, <2>2, <2>3, Opens
<1>7. CASE deliver
  <2>1. UNCHANGED <<server, mapped>> /\ reader.s \in DOMAIN sessions
    BY <1>7, Delivers
  <2>2. CASE sessions' = sessions
    BY <2>1, <2>2 DEF SessionsInv, OneSessionPerLeg
  <2>3. CASE \E new \in SessionType : /\ Fresh(sessions[reader.s], reader.n, new)
                                      /\ sessions' = [sessions EXCEPT ![reader.s] = new]
    <3>1. PICK new \in SessionType : /\ Fresh(sessions[reader.s], reader.n, new)
                                     /\ sessions' = [sessions EXCEPT ![reader.s] = new]
      BY <2>3
    <3>2. new.leg = sessions[reader.s].leg /\ new.close = sessions[reader.s].close
      BY <3>1 DEF Fresh
    <3>3. /\ DOMAIN sessions' = DOMAIN sessions /\ sessions'[reader.s] = new
          /\ \A t \in DOMAIN sessions : t # reader.s => sessions'[t] = sessions[t]
      BY <1>1, <2>1, <3>1, Replaced
    <3>4. \A t \in DOMAIN sessions : sessions'[t].leg = sessions[t].leg
                                     /\ sessions'[t].close = sessions[t].close
      BY <3>2, <3>3
    <3>5. QED
      BY <2>1, <3>3, <3>4 DEF SessionsInv, OneSessionPerLeg
  <2>4. QED
    BY <1>7, <2>2, <2>3, Delivers
<1>8. CASE Quiet
  BY <1>8 DEF Quiet, SessionsInv, OneSessionPerLeg
<1>9. CASE /\ UNCHANGED <<jitter, reader, server>>
           /\ \E s \in DOMAIN sessions : \E new \in SessionType : Moves(s, new)
  <2>1. PICK s \in DOMAIN sessions : \E new \in SessionType : Moves(s, new)
    BY <1>9
  <2>2. PICK new \in SessionType : Moves(s, new)
    BY <2>1
  <2>3. /\ new.leg = sessions[s].leg /\ sessions' = [sessions EXCEPT ![s] = new]
        /\ \/ mapped' = mapped /\ (new.close = "done" <=> sessions[s].close = "done")
           \/ /\ sessions[s].close # "done" /\ new.close = "done"
              /\ mapped' = IF server.closed THEN mapped
                           ELSE [mapped EXCEPT ![sessions[s].leg] = None]
    BY <2>2 DEF Moves
  <2>4. /\ DOMAIN sessions' = DOMAIN sessions /\ sessions'[s] = new
        /\ \A t \in DOMAIN sessions : t # s => sessions'[t] = sessions[t]
    BY <1>1, <2>3, Replaced
  <2>5. /\ \A t \in DOMAIN sessions : sessions'[t].leg = sessions[t].leg
        /\ \A t \in DOMAIN sessions : sessions[t].close = "done" => sessions'[t].close = "done"
    BY <2>3, <2>4
  <2>6. SUFFICES ASSUME ~server.closed
                 PROVE  SessionsInv'
    BY <1>9 DEF SessionsInv, OneSessionPerLeg
  <2>7. ASSUME NEW t \in DOMAIN sessions, sessions'[t].close # "done"
        PROVE  mapped'[sessions'[t].leg] = t
    <3>1. sessions[t].close # "done" /\ mapped[sessions[t].leg] = t /\ sessions[t].leg \in Legs
      BY <1>2, <1>4, <2>5, <2>6, <2>7
    <3>2. CASE mapped' = mapped
      BY <2>5, <3>1, <3>2
    <3>3. CASE /\ sessions[s].close # "done" /\ new.close = "done"
               /\ mapped' = [mapped EXCEPT ![sessions[s].leg] = None]
      <4>1. t # s
        BY <2>4, <2>7, <3>3
      <4>2. mapped[sessions[s].leg] = s
        BY <1>2, <2>6, <3>3
      <4>3. sessions[t].leg # sessions[s].leg
        BY <3>1, <4>1, <4>2
      <4>4. QED
        BY <1>1, <2>5, <3>1, <3>3, <4>3
    <3>4. QED
      BY <2>3, <2>6, <3>2, <3>3
  <2>8. ASSUME NEW t \in DOMAIN sessions, NEW u \in DOMAIN sessions,
               t < u, sessions'[t].leg = sessions'[u].leg
        PROVE  sessions'[t].close = "done"
    BY <1>3, <2>5, <2>6, <2>8
  <2>9. QED
    BY <1>9, <2>4, <2>7, <2>8 DEF SessionsInv, OneSessionPerLeg
<1>10. QED
  BY <1>5, <1>6, <1>7, <1>8, <1>9, Steps

-----------------------------------------------------------------------------
(* Frame numbers.                                                          *)

\* A packet within half the range ahead of its session, or as little behind
\* as the network reorders, is dropped when it is not ahead, and otherwise
\* numbered by its distance.
LEMMA Unwrapped ==
  ASSUME NEW m \in SessionType, NEW n \in Nat, m.lastSeq = Seq16(m.last),
         n - m.last <= Half, m.last - n <= Reorder
  PROVE  /\ n > m.last => Delta(m, n) = n - m.last
         /\ m.started => (Late(m, n) <=> n <= m.last)
<1>1. /\ Wrap \in Nat \ {0} /\ Half \in Nat /\ Half + Half = Wrap /\ FirstSeq \in Nat
      /\ Reorder \in Nat /\ Reorder < Half /\ m.last \in Nat
  BY WireNumbers DEF SessionType
<1> DEFINE a == FirstSeq + n
           b == FirstSeq + m.last
<1>2. a \in Nat /\ b \in Nat /\ -Wrap < a - b /\ a - b < Wrap
  BY <1>1
<1>3. a - b = n - m.last /\ (a >= b <=> n >= m.last)
  BY <1>1
<1>4. Delta(m, n) = ((a % Wrap) - (b % Wrap) + Wrap) % Wrap
  BY DEF Delta, Seq16
<1>5. Delta(m, n) = IF a >= b THEN a - b ELSE a - b + Wrap
  <2> HIDE DEF a, b
  <2>1. QED
    <3>1. ((a % Wrap) - (b % Wrap) + Wrap) % Wrap = IF a >= b THEN a - b ELSE a - b + Wrap
      BY <1>1, <1>2, WrapSafe
    <3>2. QED
      BY <1>4, <3>1, Zenon
<1>6. Delta(m, n) = IF n >= m.last THEN n - m.last ELSE n - m.last + Wrap
  <2> HIDE DEF a, b
  <2>1. QED
    BY <1>3, <1>5
<1>7. n > m.last => Delta(m, n) = n - m.last
  BY <1>1, <1>6
<1>8. (Delta(m, n) = 0 \/ Delta(m, n) > Half) <=> n <= m.last
  BY <1>1, <1>6
<1>9. QED
  BY <1>7, <1>8 DEF Late

\* A session is where its packets are: a packet in hand for it is not far off.
LEMMA HandedPacket ==
  ASSUME TypeInv, Numbers, LagInv, reader.at = "deliver",
         NEW m, m = sessions[reader.s], m.started
  PROVE  reader.n - m.last <= Half /\ m.last - reader.n <= Reorder
         /\ m.last \in jitter[reader.leg].seen
<1>1. reader.s \in DOMAIN sessions /\ m.leg = reader.leg /\ reader.leg \in Legs
      /\ reader.n \in Nat
  BY DEF TypeInv, ReaderTyped, ReaderType
<1>2. m \in SessionType
  BY <1>1, ElementOfSeq DEF TypeInv
<1>3. Fed(reader.s) /\ InHand(reader.leg)
  BY <1>1 DEF Fed, InHand
<1>4. reader.n \in jitter[reader.leg].seen
      /\ \A h \in jitter[reader.leg].seen : h - reader.n <= Reorder
  BY <1>1, <1>3 DEF LagInv
<1>5. /\ m.last \in jitter[m.leg].seen
      /\ \A h \in jitter[m.leg].seen :
           \/ h - m.last <= Reorder
           \/ InHand(m.leg) /\ h = reader.n /\ h - m.last <= Half
  BY <1>1, <1>3 DEF LagInv
<1>6. Reorder \in Nat /\ Half \in Nat /\ Reorder < Half /\ m.last \in Nat
  BY <1>2, WireNumbers DEF SessionType
<1>7. QED
  BY <1>1, <1>4, <1>5, <1>6

\* The number of a frame, step by step.
LEMMA NumbersStep ==
  ASSUME TypeInv, Queues, Numbers, LagInv, [Next]_vars
  PROVE  Numbers'
<1>1. sessions \in Seq(SessionType)
  BY DEF TypeInv
<1>2. \A s \in DOMAIN sessions : NumberInv(sessions[s])
  BY DEF Numbers
<1>3. CASE UNCHANGED sessions
  BY <1>2, <1>3 DEF Numbers
<1>4. CASE session
  <2>1. reader.leg \in Legs
    BY <1>4, Opens
  <2>2. CASE sessions' = Append(sessions, newMediaSession(reader.leg))
    <3> DEFINE new == newMediaSession(reader.leg)
    <3>1. new \in SessionType /\ NumberInv(new)
      BY <2>1, ExternalMediaAssumption, FreshSession
    <3> HIDE DEF new
    <3>2. /\ DOMAIN sessions' = DOMAIN sessions \cup {Len(sessions) + 1}
          /\ sessions'[Len(sessions) + 1] = new
          /\ \A t \in DOMAIN sessions : sessions'[t] = sessions[t]
      BY <1>1, <2>2, <3>1, Appended DEF new
    <3>3. QED
      BY <1>2, <3>1, <3>2 DEF Numbers
  <2>3. QED
    BY <1>3, <1>4, <2>2, Opens
<1>5. CASE deliver
  <2> DEFINE m == sessions[reader.s]
  <2>1. /\ reader.at = "deliver" /\ reader.s \in DOMAIN sessions /\ m \in SessionType
        /\ reader.n \in Nat
    BY <1>5, Delivers DEF TypeInv, ReaderTyped, ReaderType
  <2>2. CASE /\ ~Late(m, reader.n)
             /\ \E new \in SessionType : /\ Fresh(m, reader.n, new)
                                         /\ sessions' = [sessions EXCEPT ![reader.s] = new]
    <3>1. PICK new \in SessionType : /\ Fresh(m, reader.n, new)
                                     /\ sessions' = [sessions EXCEPT ![reader.s] = new]
      BY <2>2
    <3>2. /\ DOMAIN sessions' = DOMAIN sessions /\ sessions'[reader.s] = new
          /\ \A t \in DOMAIN sessions : t # reader.s => sessions'[t] = sessions[t]
      BY <1>1, <2>1, <3>1, Replaced
    <3>3. /\ new.lastSeq = Seq16(new.last) /\ new.last = reader.n /\ new.started = TRUE
          /\ new.frameSeq = (IF m.started THEN m.frameSeq + Delta(m, reader.n) ELSE m.frameSeq)
          /\ new.first = (IF m.started THEN m.first ELSE reader.n)
      BY <3>1 DEF Fresh
    <3>4. NumberInv(new)
      <4>1. CASE m.started
        <5>1. /\ m.lastSeq = Seq16(m.last) /\ m.first <= m.last
              /\ m.frameSeq = m.last - m.first
          BY <1>2, <2>1, <4>1 DEF NumberInv
        <5>2. reader.n - m.last <= Half /\ m.last - reader.n <= Reorder
          BY <2>1, <4>1, HandedPacket
        <5>3. reader.n > m.last /\ m.first \in Nat /\ m.last \in Nat
          <6>1. ~(reader.n <= m.last)
            BY <2>1, <2>2, <4>1, <5>1, <5>2, Unwrapped
          <6>2. m.first \in Nat /\ m.last \in Nat
            BY <2>1 DEF SessionType
          <6>3. QED
            BY <2>1, <6>1, <6>2
        <5>4. Delta(m, reader.n) = reader.n - m.last
          BY <2>1, <5>1, <5>2, <5>3, Unwrapped
        <5>5. QED
          BY <2>1, <3>3, <4>1, <5>1, <5>3, <5>4 DEF NumberInv
      <4>2. CASE ~m.started
        <5>1. m.frameSeq = 0
          BY <1>2, <2>1, <4>2 DEF NumberInv
        <5>2. m.started = FALSE /\ new.first = reader.n /\ new.frameSeq = m.frameSeq
          BY <2>1, <3>3, <4>2 DEF SessionType
        <5>3. QED
          BY <2>1, <3>3, <5>1, <5>2 DEF NumberInv
      <4>3. QED
        BY <4>1, <4>2
    <3>5. QED
      BY <1>2, <3>2, <3>4 DEF Numbers
  <2>3. QED
    BY <1>3, <1>5, <2>2, Delivers
<1>6. CASE \E s \in DOMAIN sessions : \E new \in SessionType : Moves(s, new)
  <2>1. PICK s \in DOMAIN sessions, new \in SessionType : Moves(s, new)
    BY <1>6
  <2>2. /\ new.started = sessions[s].started /\ new.lastSeq = sessions[s].lastSeq
        /\ new.frameSeq = sessions[s].frameSeq /\ new.first = sessions[s].first
        /\ new.last = sessions[s].last /\ sessions' = [sessions EXCEPT ![s] = new]
    BY <2>1 DEF Moves
  <2>3. /\ DOMAIN sessions' = DOMAIN sessions /\ sessions'[s] = new
        /\ \A t \in DOMAIN sessions : t # s => sessions'[t] = sessions[t]
    BY <1>1, <2>2, Replaced
  <2>4. NumberInv(new)
    BY <1>2, <2>2 DEF NumberInv
  <2>5. QED
    BY <1>2, <2>3, <2>4 DEF Numbers
<1>7. CASE \E g \in Legs, n \in Nat : ReadFromUDP(g, n)
  BY <1>3, <1>7 DEF ReadFromUDP
<1>8. CASE Quiet
  BY <1>3, <1>8 DEF Quiet
<1>9. QED
  BY <1>4, <1>5, <1>6, <1>7, <1>8, Steps

-----------------------------------------------------------------------------
(* What was seen of a leg and where its sessions stand.                    *)

\* A packet that arrives is, to the session it will be delivered to, at most
\* half the range ahead (Horizon), and to a session yet to come, the newest
\* by no more than the network reorders.
LEMMA LagRead ==
  ASSUME TypeInv, LagInv, NEW g \in Legs, NEW n \in Nat, ReadFromUDP(g, n)
  PROVE  LagInv'
<1>1. /\ reader.at = "read" /\ Horizon(g, n)
      /\ reader' = [at |-> "session", leg |-> g, n |-> n, s |-> None]
      /\ UNCHANGED <<mapped, sessions>>
  BY Zenon DEF ReadFromUDP
<1>2. reader'.at = "session" /\ reader'.leg = g /\ reader'.n = n
  BY <1>1
<1>3. /\ jitter'[g].seen = jitter[g].seen \cup {n}
      /\ \A h \in Legs : h # g => jitter'[h] = jitter[h]
  BY SeenStep DEF TypeInv
<1>4. /\ jitter[g].seen \in SUBSET Nat
      /\ \A h \in jitter[g].seen : h - n <= Reorder
      /\ jitter[g].seen # {} => \E h \in jitter[g].seen : n - h <= Half - Reorder
  <2>1. jitter[g].seen \in SUBSET Nat
    BY DEF TypeInv, SeenTyped
  <2>2. QED
    BY <1>1, <2>1 DEF Horizon
<1>5. Reorder \in Nat /\ Half \in Nat
  BY WireNumbers
<1>6. ~InHand(g)
  BY <1>1 DEF InHand
<1>7. ASSUME NEW f \in Legs, InHand(f)'
      PROVE  /\ reader'.n \in jitter'[f].seen
             /\ \A h \in jitter'[f].seen : h - reader'.n <= Reorder
  <2>1. f = g
    BY <1>2, <1>7 DEF InHand
  <2>2. QED
    BY <1>2, <1>3, <1>4, <1>5, <2>1
<1>8. ASSUME NEW s \in DOMAIN sessions, sessions[s].started, Fed(s)'
      PROVE  /\ sessions[s].last \in jitter'[sessions[s].leg].seen
             /\ \A h \in jitter'[sessions[s].leg].seen :
                  \/ h - sessions[s].last <= Reorder
                  \/ InHand(sessions[s].leg)' /\ h = reader'.n /\ h - sessions[s].last <= Half
  <2> DEFINE m == sessions[s]
  <2>1. m \in SessionType /\ m.leg \in Legs /\ m.last \in Nat
    <3>1. m \in SessionType
      BY ElementOfSeq DEF TypeInv
    <3>2. QED
      BY <3>1 DEF SessionType
  <2>2. Fed(s)
    BY <1>1, <1>2, <1>8 DEF Fed
  <2>3. /\ m.last \in jitter[m.leg].seen
        /\ \A h \in jitter[m.leg].seen :
             \/ h - m.last <= Reorder
             \/ InHand(m.leg) /\ h = reader.n /\ h - m.last <= Half
    BY <1>8, <2>2 DEF LagInv
  <2>4. ~InHand(m.leg)
    BY <1>1 DEF InHand
  <2>5. CASE m.leg = g
    <3>1. PICK h \in jitter[g].seen : n - h <= Half - Reorder
      BY <1>4, <2>3, <2>5
    <3>2. h - m.last <= Reorder /\ h \in Nat
      BY <1>4, <2>3, <2>4, <2>5, <3>1
    <3>3. n - m.last <= Half
      BY <1>5, <2>1, <3>1, <3>2
    <3>4. InHand(g)'
      BY <1>2 DEF InHand
    <3>5. m.last \in jitter'[m.leg].seen
      BY <1>3, <2>3, <2>5
    <3>6. ASSUME NEW k \in jitter'[m.leg].seen
          PROVE  k - m.last <= Reorder \/ (InHand(m.leg)' /\ k = reader'.n /\ k - m.last <= Half)
      <4>1. k \in jitter[g].seen \/ k = n
        BY <1>3, <2>5
      <4>2. CASE k \in jitter[g].seen
        <5>1. k - m.last <= Reorder \/ InHand(m.leg)
          BY <2>3, <2>5, <4>2 DEF InHand
        <5>2. QED
          BY <2>4, <5>1
      <4>3. CASE k = n
        BY <1>1, <1>2, <2>5, <3>3, <4>3 DEF InHand
      <4>4. QED
        BY <4>1, <4>2, <4>3
    <3>7. QED
      BY <3>5, <3>6
  <2>6. CASE m.leg # g
    BY <1>3, <2>1, <2>3, <2>4, <2>6
  <2>7. QED
    BY <2>5, <2>6
<1>9. reader'.at # "deliver"
  BY <1>2
<1>10. QED
  BY <1>1, <1>7, <1>8, <1>9 DEF LagInv

\* Opening or finding the session of the packet in hand.
LEMMA LagOpen ==
  ASSUME TypeInv, LagInv, session
  PROVE  LagInv'
<1> DEFINE g == reader.leg
<1>1. /\ reader.at = "session" /\ g \in Legs /\ UNCHANGED netVars
      /\ reader' = [reader EXCEPT !.at = "deliver", !.s = mapped'[g]]
  BY Opens
<1>2. /\ reader'.at = "deliver" /\ reader'.leg = g /\ reader'.s = mapped'[g]
      /\ reader'.n = reader.n
  BY <1>1 DEF TypeInv, ReaderTyped, ReaderType
<1>3. jitter' = jitter
  BY <1>1 DEF netVars
<1>4. \A f \in Legs : InHand(f)' <=> InHand(f)
  BY <1>1, <1>2 DEF InHand
<1>5. sessions \in Seq(SessionType) /\ mapped \in [Legs -> Nat]
  BY DEF TypeInv, MapTyped
<1>6. \A f \in Legs : InHand(f)' =>
        reader'.n \in jitter'[f].seen /\ \A h \in jitter'[f].seen : h - reader'.n <= Reorder
  BY <1>2, <1>3, <1>4 DEF LagInv
<1>7. ASSUME NEW s \in DOMAIN sessions', sessions'[s].started, Fed(s)'
      PROVE  /\ sessions'[s].last \in jitter'[sessions'[s].leg].seen
             /\ \A h \in jitter'[sessions'[s].leg].seen :
                  \/ h - sessions'[s].last <= Reorder
                  \/ /\ InHand(sessions[s].leg)' /\ h = reader'.n
                     /\ h - sessions'[s].last <= Half
  <2>1. s \in DOMAIN sessions /\ sessions'[s] = sessions[s] /\ Fed(s)
    <3>1. CASE UNCHANGED <<mapped, sessions, server>>
      <4>1. s \in DOMAIN sessions /\ sessions'[s] = sessions[s] /\ mapped' = mapped
        BY <1>7, <3>1
      <4>2. mapped[sessions[s].leg] = s \/ (reader.at = "session" /\ mapped[g] = s)
        BY <1>1, <1>2, <1>7, <4>1 DEF Fed
      <4>3. s # 0
        BY <1>5, <4>1, LenProperties
      <4>4. mapped[g] = s => sessions[s].leg = g
        <5>1. \A f \in Legs : mapped[f] # None => sessions[mapped[f]].leg = f
          BY DEF TypeInv, MapTyped
        <5>2. QED
          BY <1>1, <4>3, <5>1 DEF None
      <4>5. QED
        BY <4>1, <4>2, <4>4 DEF Fed
    <3>2. CASE /\ mapped[g] = None
               /\ sessions' = Append(sessions, newMediaSession(g))
               /\ mapped' = [mapped EXCEPT ![g] = Len(sessions) + 1]
      <4> DEFINE new == newMediaSession(g)
      <4>1. new \in SessionType /\ new.leg = g /\ new.started = FALSE
        BY <1>1, ExternalMediaAssumption, FreshSession
      <4> HIDE DEF new
      <4>2. /\ DOMAIN sessions = 1 .. Len(sessions) /\ Len(sessions) \in Nat
            /\ DOMAIN sessions' = DOMAIN sessions \cup {Len(sessions) + 1}
            /\ sessions'[Len(sessions) + 1] = new
            /\ \A t \in DOMAIN sessions : sessions'[t] = sessions[t]
        BY <1>5, <3>2, <4>1, Appended DEF new
      <4>3. s \in DOMAIN sessions /\ sessions'[s] = sessions[s] /\ s # Len(sessions) + 1
        BY <1>7, <4>1, <4>2
      <4>4. mapped'[g] = Len(sessions) + 1 /\ \A f \in Legs : f # g => mapped'[f] = mapped[f]
        BY <1>1, <1>5, <3>2
      <4>5. sessions[s].leg \in Legs
        BY <1>5, <4>3, Fields
      <4>6. mapped'[sessions[s].leg] = s \/ mapped'[g] = s
        BY <1>2, <1>7, <4>3 DEF Fed
      <4>7. mapped[sessions[s].leg] = s
        BY <4>3, <4>4, <4>5, <4>6
      <4>8. QED
        BY <4>3, <4>7 DEF Fed
    <3>3. QED
      BY <3>1, <3>2, Opens
  <2>2. sessions[s].leg \in Legs
    BY <1>5, <2>1, Fields
  <2>3. /\ sessions[s].last \in jitter[sessions[s].leg].seen
        /\ \A h \in jitter[sessions[s].leg].seen :
             \/ h - sessions[s].last <= Reorder
             \/ InHand(sessions[s].leg) /\ h = reader.n /\ h - sessions[s].last <= Half
    <3>1. sessions[s].started
      BY <1>7, <2>1
    <3>2. QED
      BY <2>1, <3>1 DEF LagInv, Fed, InHand
  <2>4. reader.at = "session" /\ reader'.at = "deliver" /\ reader'.leg = reader.leg
    BY <1>1, <1>2
  <2>5. sessions'[s] = sessions[s] /\ jitter'[sessions'[s].leg] = jitter[sessions[s].leg]
    BY <1>3, <2>1
  <2>6. InHand(sessions[s].leg)' <=> reader.leg = sessions[s].leg
    BY <2>4, <2>5 DEF InHand
  <2>7. InHand(sessions[s].leg) <=> reader.leg = sessions[s].leg
    BY <2>4 DEF InHand
  <2>8. reader'.n = reader.n
    BY <1>2
  <2>9. QED
    BY <2>3, <2>5, <2>6, <2>7, <2>8
<1>8. QED
  BY <1>2, <1>6, <1>7 DEF LagInv, Fed, InHand

\* Once the packet in hand is delivered or dropped, its session stands behind
\* nothing that was seen by more than the network reorders.
LEMMA LagDeliver ==
  ASSUME TypeInv, Queues, Numbers, LagInv, deliver
  PROVE  LagInv'
<1> DEFINE g == reader.leg
           m == sessions[reader.s]
<1>1. /\ reader.at = "deliver" /\ reader.s \in DOMAIN sessions /\ m \in SessionType
      /\ m.leg = g /\ UNCHANGED <<netVars, mapped>>
      /\ reader' \in {Reading, [reader EXCEPT !.at = "send"]}
  BY Delivers
<1>2. sessions \in Seq(SessionType) /\ reader \in ReaderType /\ g \in Legs /\ reader.n \in Nat
  BY <1>1 DEF TypeInv, ReaderTyped, ReaderType
<1>3. reader'.at \in {"read", "send"}
  BY <1>1, <1>2 DEF Reading, ReaderType
<1>4. jitter' = jitter /\ mapped' = mapped
  BY <1>1 DEF netVars
<1>5. mapped[g] \in {None, reader.s}
  BY <1>1 DEF LagInv
<1>6. reader.n \in jitter[g].seen /\ \A h \in jitter[g].seen : h - reader.n <= Reorder
  BY <1>1, <1>2 DEF LagInv, InHand
<1>7. Reorder \in Nat /\ Half \in Nat /\ jitter[g].seen \in SUBSET Nat
  BY <1>2, WireNumbers DEF TypeInv, SeenTyped
\* Where the session stands after the delivery.
<1>8. ASSUME NEW p, p.started, p.leg = g,
             \/ p = m /\ Late(m, reader.n)
             \/ p.last = reader.n
      PROVE  p.last \in jitter[g].seen /\ \A h \in jitter[g].seen : h - p.last <= Reorder
  <2>1. CASE p = m /\ Late(m, reader.n)
    <3>1. /\ reader.n - m.last <= Half /\ m.last - reader.n <= Reorder
          /\ m.last \in jitter[g].seen
      BY <1>1, <1>8, <2>1, HandedPacket
    <3>2. m.lastSeq = Seq16(m.last)
      BY <1>1, <1>8, <2>1 DEF Numbers, NumberInv
    <3>3. reader.n <= m.last /\ m.last \in Nat
      BY <1>1, <1>2, <1>8, <2>1, <3>1, <3>2, Unwrapped DEF SessionType
    <3>4. ASSUME NEW h \in jitter[g].seen
          PROVE  h - m.last <= Reorder
      <4>1. h - reader.n <= Reorder /\ h \in Nat
        BY <1>6, <1>7
      <4>2. QED
        BY <1>2, <1>7, <3>3, <4>1
    <3>5. QED
      BY <2>1, <3>1, <3>4
  <2>2. CASE p.last = reader.n
    BY <1>6, <2>2
  <2>3. QED
    BY <1>8, <2>1, <2>2
<1>9. /\ DOMAIN sessions' = DOMAIN sessions
      /\ \A t \in DOMAIN sessions : t # reader.s => sessions'[t] = sessions[t]
      /\ sessions'[reader.s].leg = g
      /\ \/ sessions'[reader.s] = m /\ Late(m, reader.n)
         \/ sessions'[reader.s].last = reader.n
  <2>1. CASE sessions' = sessions /\ Late(m, reader.n)
    BY <1>1, <2>1
  <2>2. CASE \E new \in SessionType : /\ Fresh(m, reader.n, new)
                                      /\ sessions' = [sessions EXCEPT ![reader.s] = new]
    <3>1. PICK new \in SessionType : /\ Fresh(m, reader.n, new)
                                     /\ sessions' = [sessions EXCEPT ![reader.s] = new]
      BY <2>2
    <3>2. new.leg = g /\ new.last = reader.n
      BY <1>1, <3>1 DEF Fresh
    <3>3. QED
      BY <1>1, <1>2, <3>1, <3>2, Replaced
  <2>3. QED
    BY <2>1, <2>2, Delivers
<1>10. ASSUME NEW s \in DOMAIN sessions', sessions'[s].started, Fed(s)'
       PROVE  /\ sessions'[s].last \in jitter'[sessions'[s].leg].seen
              /\ \A h \in jitter'[sessions'[s].leg].seen : h - sessions'[s].last <= Reorder
  <2>1. CASE s = reader.s
    <3>1. sessions'[s].last \in jitter[g].seen
          /\ \A h \in jitter[g].seen : h - sessions'[s].last <= Reorder
      BY <1>8, <1>9, <1>10, <2>1
    <3>2. QED
      BY <1>4, <1>9, <2>1, <3>1
  <2>2. CASE s # reader.s
    <3>1. s \in DOMAIN sessions /\ sessions'[s] = sessions[s]
      BY <1>9, <2>2
    <3>2. mapped[sessions[s].leg] = s
      BY <1>3, <1>4, <1>10, <3>1 DEF Fed
    <3>3. s # 0
      BY <1>2, <3>1, LenProperties
    <3>4. sessions[s].leg # g
      BY <1>5, <2>2, <3>2, <3>3 DEF None
    <3>5. /\ sessions[s].last \in jitter[sessions[s].leg].seen
          /\ \A h \in jitter[sessions[s].leg].seen : h - sessions[s].last <= Reorder
      BY <1>10, <3>1, <3>2, <3>4 DEF LagInv, Fed, InHand
    <3>6. QED
      BY <1>4, <3>1, <3>5
  <2>3. QED
    BY <2>1, <2>2
<1>11. \A f \in Legs : ~InHand(f)'
  BY <1>3 DEF InHand
<1>12. QED
  BY <1>3, <1>10, <1>11 DEF LagInv

\* What was seen of a leg, step by step.
LEMMA LagStep ==
  ASSUME TypeInv, Queues, Numbers, LagInv, [Next]_vars
  PROVE  LagInv'
<1>1. sessions \in Seq(SessionType) /\ mapped \in [Legs -> Nat] /\ reader \in ReaderType
  BY DEF TypeInv, MapTyped, ReaderTyped
<1>2. CASE \E g \in Legs, n \in Nat : ReadFromUDP(g, n)
  BY <1>2, LagRead
<1>3. CASE session
  BY <1>3, LagOpen
<1>4. CASE deliver
  BY <1>4, LagDeliver
\* The other steps keep the packet in hand or drop it, and unmap at most.
<1>5. ASSUME DOMAIN sessions' = DOMAIN sessions, jitter' = jitter,
             \A t \in DOMAIN sessions :
               /\ sessions'[t].leg = sessions[t].leg /\ sessions'[t].last = sessions[t].last
               /\ sessions'[t].started = sessions[t].started,
             \A f \in Legs : mapped'[f] \in {None, mapped[f]},
             reader' = reader \/ reader'.at \notin {"session", "deliver"},
             reader' # reader => reader.at \notin {"session", "deliver"}
      PROVE  LagInv'
  <2>1. \A t \in DOMAIN sessions : t # 0 /\ sessions[t].leg \in Legs
    <3>1. TAKE t \in DOMAIN sessions
    <3>2. t # 0
      BY <1>1, LenProperties
    <3>3. QED
      BY <1>1, <3>2, Fields
  <2>2. \A f \in Legs : InHand(f)' <=> InHand(f)
    BY <1>5 DEF InHand
  <2>3. reader'.at = "deliver" => mapped'[reader'.leg] \in {None, reader'.s}
    <3>1. SUFFICES ASSUME reader'.at = "deliver"
                   PROVE  mapped'[reader'.leg] \in {None, reader'.s}
      OBVIOUS
    <3>2. reader' = reader /\ reader.leg \in Legs
      BY <1>5, <3>1 DEF TypeInv, ReaderTyped
    <3>3. QED
      BY <1>5, <3>1, <3>2 DEF LagInv
  <2>4. ASSUME NEW f \in Legs, InHand(f)'
        PROVE  reader'.n \in jitter'[f].seen /\ \A h \in jitter'[f].seen : h - reader'.n <= Reorder
    <3>1. reader' = reader /\ InHand(f)
      BY <1>5, <2>2, <2>4 DEF InHand
    <3>2. QED
      BY <1>5, <3>1 DEF LagInv
  <2>5. ASSUME NEW t \in DOMAIN sessions, sessions'[t].started, Fed(t)'
        PROVE  /\ sessions'[t].last \in jitter'[sessions'[t].leg].seen
               /\ \A h \in jitter'[sessions'[t].leg].seen :
                    \/ h - sessions'[t].last <= Reorder
                    \/ InHand(sessions[t].leg)' /\ h = reader'.n
                       /\ h - sessions'[t].last <= Half
    <3>1. sessions[t].started /\ Fed(t)
      BY <1>5, <2>1, <2>5 DEF Fed, None
    <3>2. /\ sessions[t].last \in jitter[sessions[t].leg].seen
          /\ \A h \in jitter[sessions[t].leg].seen :
               \/ h - sessions[t].last <= Reorder
               \/ InHand(sessions[t].leg) /\ h = reader.n /\ h - sessions[t].last <= Half
      BY <3>1 DEF LagInv, Fed, InHand
    <3>3. InHand(sessions[t].leg) => InHand(sessions[t].leg)' /\ reader' = reader
      BY <1>5, <2>1 DEF InHand
    <3>4. QED
      BY <1>5, <3>2, <3>3
  <2>6. QED
    BY <1>5, <2>3, <2>4, <2>5 DEF LagInv, Fed, InHand
<1>6. CASE Quiet
  <2>1. /\ UNCHANGED <<sessions, jitter>>
        /\ reader' = reader \/ reader'.at \notin {"session", "deliver"}
        /\ reader' # reader => reader.at \notin {"session", "deliver"}
        /\ \A f \in Legs : mapped'[f] \in {None, mapped[f]}
    BY <1>6 DEF Quiet
  <2>2. QED
    BY <1>5, <2>1
<1>7. CASE /\ UNCHANGED <<jitter, reader, server>>
           /\ \E s \in DOMAIN sessions : \E new \in SessionType : Moves(s, new)
  <2>1. PICK s \in DOMAIN sessions, new \in SessionType : Moves(s, new)
    BY <1>7
  <2>2. /\ new.leg = sessions[s].leg /\ new.started = sessions[s].started
        /\ new.last = sessions[s].last /\ sessions' = [sessions EXCEPT ![s] = new]
        /\ \/ mapped' = mapped
           \/ mapped' = IF server.closed THEN mapped ELSE [mapped EXCEPT ![sessions[s].leg] = None]
    BY <2>1 DEF Moves
  <2>3. /\ DOMAIN sessions' = DOMAIN sessions /\ sessions'[s] = new
        /\ \A t \in DOMAIN sessions : t # s => sessions'[t] = sessions[t]
    BY <1>1, <2>2, Replaced
  <2>4. \A f \in Legs : mapped'[f] \in {None, mapped[f]}
    BY <1>1, <2>2
  <2>5. QED
    BY <1>5, <1>7, <2>2, <2>3, <2>4
<1>8. QED
  BY <1>2, <1>3, <1>4, <1>6, <1>7, Steps

-----------------------------------------------------------------------------
(* The invariants hold.                                                    *)

MediaInv == TypeInv /\ Queues /\ Numbers /\ LagInv /\ SessionsInv

\* Nothing has been read and no session opened.
LEMMA MediaInit ==
  ASSUME Init
  PROVE  MediaInv
<1>1. sessions = <<>> /\ sessions \in Seq(SessionType) /\ DOMAIN sessions = {}
  <2>1. sessions = <<>>
    BY DEF Init
  <2>2. QED
    BY <2>1, EmptySeq
<1>2. reader = [at |-> "read", leg |-> 0, n |-> 0, s |-> 0]
  BY DEF Init, Reading, None
<1>3. server \in ServerType
  <2>1. <<>> \in Seq(Nat)
    BY EmptySeq
  <2>2. QED
    BY <2>1 DEF Init, ServerType
<1>4. mapped = [g \in Legs |-> 0]
  BY DEF Init, None
<1>5. SeenTyped
  BY DEF Init, SeenTyped
<1>6. ReaderTyped /\ MapTyped
  BY <1>2, <1>4 DEF ReaderTyped, ReaderType, MapTyped, None
<1>7. LagInv
  BY <1>1, <1>2 DEF LagInv, InHand, None
<1>8. QED
  BY <1>1, <1>3, <1>5, <1>6, <1>7
     DEF MediaInv, TypeInv, Queues, Numbers, SessionsInv, OneSessionPerLeg

\* The types, the queues, the sessions of each leg and the numbers of their
\* frames, for every set of legs, range and bound.
THEOREM MediaInvariant == Spec => []MediaInv
<1>1. ASSUME MediaInv, [Next]_vars
      PROVE  MediaInv'
  <2>1. TypeInv /\ Queues /\ Numbers /\ LagInv /\ SessionsInv
    BY <1>1 DEF MediaInv
  <2>2. TypeInv' /\ Queues'
    BY <1>1, <2>1, TypeStep
  <2>3. Numbers' /\ LagInv' /\ SessionsInv'
    BY <1>1, <2>1, NumbersStep, LagStep, SessionsStep
  <2>4. QED
    BY <2>2, <2>3 DEF MediaInv
<1>2. QED
  BY <1>1, MediaInit, PTL DEF Spec

\* A frame's number is its packet's place in the leg's stream, counted from the
\* session's first packet, however the 16-bit number wrapped and whatever was
\* lost, repeated or late (externalmedia.go, deliver).
THEOREM FrameSeqIsOffsetTheorem == Spec => []FrameSeqIsOffset
<1>1. MediaInv => FrameSeqIsOffset
  BY DEF MediaInv, Numbers, NumberInv, FrameSeqIsOffset
<1>2. QED
  BY <1>1, MediaInvariant, PTL

\* What a flush dropped is never on the wire, packets leave in the order written,
\* and at most the packet the pacer had taken survives (externalmedia.go, Flush).
THEOREM FlushCutsTheorem == Spec => []FlushCuts
<1>1. ASSUME MediaInv
      PROVE  FlushCuts
  <2>1. ASSUME NEW s \in DOMAIN sessions
        PROVE  LET m == sessions[s] IN
               /\ \A i \in 1 .. Len(m.out) : m.out[i] = m.written - Len(m.out) + i /\ m.out[i] > m.cut
               /\ m.popped # None /\ m.out # <<>> => m.popped < Head(m.out)
               /\ Len(m.out) <= OutQueueMax
    <3> DEFINE m == sessions[s]
    <3>1. m \in SessionType /\ QueueInv(m)
      BY <1>1, Fields DEF MediaInv, TypeInv, Queues
    <3>2. /\ m.out \in Seq(Nat) /\ m.written \in Nat /\ m.cut \in Nat /\ m.popped \in Nat
      BY <3>1 DEF SessionType
    <3>3. Len(m.out) \in Nat /\ (m.out # <<>> => Len(m.out) >= 1 /\ Head(m.out) = m.out[1])
      BY <3>2
    <3>4. /\ Len(m.out) <= OutQueueMax /\ Len(m.out) <= m.written
          /\ \A i \in 1 .. Len(m.out) : m.out[i] = m.written - Len(m.out) + i
          /\ m.cut <= m.written - Len(m.out) /\ m.popped <= m.written - Len(m.out)
      BY <3>1 DEF QueueInv
    <3>5. \A i \in 1 .. Len(m.out) : m.out[i] = m.written - Len(m.out) + i /\ m.out[i] > m.cut
      BY <3>2, <3>3, <3>4
    <3>6. m.out # <<>> => m.popped < Head(m.out)
      BY <3>2, <3>3, <3>4
    <3>7. QED
      BY <3>4, <3>5, <3>6
  <2>2. QED
    BY <2>1 DEF FlushCuts
<1>2. QED
  BY <1>1, MediaInvariant, PTL

\* One leg has one session at a time that is neither closing nor left to the
\* shutdown (externalmedia.go, session and drop).
THEOREM OneSessionPerLegTheorem == Spec => []OneSessionPerLeg
<1>1. MediaInv => OneSessionPerLeg
  BY DEF MediaInv, SessionsInv
<1>2. QED
  BY <1>1, MediaInvariant, PTL

-----------------------------------------------------------------------------
(* The jitter buffer.                                                      *)

\* A set of numbers has a least one, and Min is it.
LEMMA MinIsLeast ==
  ASSUME NEW S \in SUBSET Nat, S # {}
  PROVE  Min(S) \in S /\ \A y \in S : Min(S) <= y
<1>1. \E x \in S : \A y \in S : ~(<<y, x>> \in OpToRel(<, Nat))
  BY NatLessThanWellFounded, WFMin
<1>2. PICK x \in S : \A y \in S : ~(<<y, x>> \in OpToRel(<, Nat))
  BY <1>1
<1>3. ASSUME NEW y \in S
      PROVE  x <= y
  <2>1. x \in Nat /\ y \in Nat
    OBVIOUS
  <2>2. ~(y < x)
    BY <1>2, <2>1 DEF OpToRel
  <2>3. QED
    BY <2>1, <2>2
<1>4. QED
  BY <1>3 DEF Min

\* A finite set misses a number from n on.
LEMMA Missing ==
  ASSUME NEW held \in SUBSET Nat, IsFiniteSet(held), NEW n \in Nat
  PROVE  \E k \in Nat : k >= n /\ k \notin held
<1> DEFINE c == Cardinality(held)
<1>1. c \in Nat
  BY FS_CardinalityType
<1>2. Cardinality(n .. n + c) = c + 1
  <2> DEFINE d == n + c
  <2>1. d \in Int /\ n \in Int /\ n <= d /\ (d - n) + 1 = c + 1
    BY <1>1
  <2> HIDE DEF c, d
  <2>2. Cardinality(n .. d) = IF n > d THEN 0 ELSE (d - n) + 1
    BY <2>1, FS_Interval
  <2>3. Cardinality(n .. d) = c + 1
    BY <2>1, <2>2
  <2>4. QED
    BY <2>3 DEF d
<1>3. ~(n .. n + c \in SUBSET held)
  <2>1. SUFFICES ASSUME n .. n + c \in SUBSET held
                 PROVE  FALSE
    OBVIOUS
  <2>2. Cardinality(n .. n + c) <= c
    BY <2>1, FS_Subset
  <2> HIDE DEF c
  <2>3. QED
    BY <1>1, <1>2, <2>2
<1>4. QED
  BY <1>1, <1>3

\* RunEnd is the first number from n on that is not held.
LEMMA RunEndIsFirst ==
  ASSUME NEW held \in SUBSET Nat, IsFiniteSet(held), NEW n \in Nat
  PROVE  /\ RunEnd(n, held) \in Nat /\ RunEnd(n, held) >= n /\ RunEnd(n, held) \notin held
         /\ \A k \in Nat : n <= k /\ k < RunEnd(n, held) => k \in held
<1> DEFINE free == {k \in Nat : k >= n /\ k \notin held}
           ends == {m \in {n} \cup {f + 1 : f \in held} : m >= n /\ m \notin held}
           k == Min(free)
<1>1. free \in SUBSET Nat /\ free # {}
  BY Missing
<1>2. k \in free /\ \A y \in free : k <= y
  <2> HIDE DEF free
  <2>1. QED
    BY <1>1, MinIsLeast
<1> HIDE DEF k
<1>3. k \in ends
  <2>1. CASE k = n
    BY <1>2, <2>1
  <2>2. CASE k # n
    <3>1. k \in Nat /\ k > n
      BY <1>2, <2>2
    <3>2. k - 1 \in held
      BY <1>2, <3>1
    <3>3. k = (k - 1) + 1
      BY <3>1
    <3>4. QED
      BY <1>2, <3>2, <3>3
  <2>3. QED
    BY <2>1, <2>2
<1>4. ends \in SUBSET Nat /\ ends \in SUBSET free
  BY SMTT(30)
<1>5. Min(ends) = k
  <2>1. Min(ends) \in ends /\ \A y \in ends : Min(ends) <= y
    <3>1. ends # {}
      BY <1>3
    <3> HIDE DEF ends
    <3>2. QED
      BY <1>4, <3>1, MinIsLeast
  <2>2. k <= Min(ends) /\ Min(ends) <= k /\ k \in Nat /\ Min(ends) \in Nat
    <3> HIDE DEF ends
    <3>1. Min(ends) <= k /\ Min(ends) \in Nat /\ Min(ends) \in free
      BY <1>3, <1>4, <2>1
    <3> HIDE DEF free
    <3>2. QED
      BY <1>1, <1>2, <3>1
  <2> HIDE DEF ends
  <2>3. QED
    BY <2>2
<1>6. RunEnd(n, held) = k
  BY <1>5 DEF RunEnd
<1>7. QED
  BY <1>2, <1>6

\* What was seen beyond a frame only grows.
LEMMA BeyondGrows ==
  ASSUME NEW seen \in SUBSET Nat, IsFiniteSet(seen), NEW n \in Nat, NEW f \in Nat,
         Cardinality({h \in seen : h > f}) > Window
  PROVE  Cardinality({h \in seen \cup {n} : h > f}) > Window
<1> DEFINE A == {h \in seen : h > f}
           B == {h \in seen \cup {n} : h > f}
<1>1. A \in SUBSET B /\ IsFiniteSet(seen \cup {n}) /\ B \in SUBSET (seen \cup {n})
  BY FS_AddElement
<1>2. IsFiniteSet(B)
  BY <1>1, FS_Subset
<1>3. Cardinality(A) <= Cardinality(B) /\ IsFiniteSet(A)
  BY <1>1, <1>2, FS_Subset
<1>4. Cardinality(A) \in Nat /\ Cardinality(B) \in Nat /\ Window \in Nat
  BY <1>2, <1>3, FS_CardinalityType, JitterAssumption
<1>5. QED
  BY <1>3, <1>4

\* A frame at next or beyond is held, and what can be released is.
LEMMA ReleaseHolds ==
  ASSUME NEW seen \in SUBSET Nat, IsFiniteSet(seen), NEW first \in Nat, NEW c, NEW n \in Nat,
         Released(c, seen, first), n >= c.next
  PROVE  Released(ReleasedFrom([c EXCEPT !.pending = @ \cup {n}]), seen \cup {n}, first)
<1> DEFINE all  == seen \cup {n}
           P    == c.pending \cup {n}
           next == RunEnd(c.next, P)
           held == {f \in P : f >= next}
           q    == Min(held)
           over == RunEnd(q, held)
           b    == [c EXCEPT !.pending = P]
\* The frames held.
<1>1. /\ c \in [started : BOOLEAN, next : Nat, pending : SUBSET Nat] /\ c.started = TRUE
      /\ c.pending = {h \in seen : h >= c.next} /\ c.next \notin seen
      /\ Cardinality(c.pending) <= Window
  BY DEF Released
<1>2. c.next \in Nat /\ P \in SUBSET Nat /\ P = {h \in all : h >= c.next}
  BY <1>1
<1>3. Window \in Nat
  BY JitterAssumption
<1>4. /\ IsFiniteSet(c.pending) /\ IsFiniteSet(P) /\ IsFiniteSet(held) /\ IsFiniteSet(all)
      /\ Cardinality(P) \in Nat /\ Cardinality(held) \in Nat
      /\ Cardinality(held) <= Cardinality(P) /\ Cardinality(P) <= Window + 1
  <2>1. IsFiniteSet(c.pending) /\ IsFiniteSet(all)
    BY <1>1, FS_Subset, FS_AddElement
  <2>2. IsFiniteSet(P) /\ Cardinality(P) = IF n \in c.pending THEN Cardinality(c.pending)
                                           ELSE Cardinality(c.pending) + 1
    BY <2>1, FS_AddElement
  <2>3. held \in SUBSET P
    OBVIOUS
  <2> HIDE DEF held, P
  <2>4. IsFiniteSet(held) /\ Cardinality(held) <= Cardinality(P)
    BY <2>2, <2>3, FS_Subset
  <2>5. Cardinality(P) \in Nat /\ Cardinality(held) \in Nat /\ Cardinality(c.pending) \in Nat
    BY <2>1, <2>2, <2>4, FS_CardinalityType
  <2>6. QED
    BY <1>1, <1>3, <2>1, <2>2, <2>4, <2>5
<1>5. /\ next \in Nat /\ next >= c.next /\ next \notin P
      /\ \A k \in Nat : c.next <= k /\ k < next => k \in P
  <2> HIDE DEF P
  <2>1. QED
    BY <1>2, <1>4, RunEndIsFirst
<1>6. next \notin all /\ held = {h \in all : h >= next} /\ held \in SUBSET Nat
  <2>1. all \in SUBSET Nat
    OBVIOUS
  <2>2. \A h \in all : h \in P <=> h >= c.next
    BY <1>2
  <2>3. P \in SUBSET all
    BY <1>2
  <2> HIDE DEF next, P, all
  <2>4. next \notin all
    BY <1>5, <2>2
  <2>5. \A h \in all : h >= next => h \in P
    BY <1>2, <1>5, <2>1, <2>2
  <2>6. held = {h \in all : h >= next}
    BY <2>3, <2>5
  <2>7. QED
    BY <1>2, <2>4, <2>6
\* The gaps below the run are old ones.
<1>7. ASSUME NEW f \in Nat, f > first, f < next, f \notin all
      PROVE  Cardinality({h \in all : h > f}) > Window
  <2>1. f < c.next /\ f \notin seen
    <3> HIDE DEF next
    <3>1. QED
      BY <1>2, <1>5, <1>7
  <2>2. Cardinality({h \in seen : h > f}) > Window
    BY <1>7, <2>1 DEF Released
  <2>3. QED
    BY <2>2, BeyondGrows
<1>8. b.next = c.next /\ b.pending = P /\ b.started = TRUE
      /\ DOMAIN b = {"started", "next", "pending"}
  BY <1>1
<1>9. CASE Cardinality(held) <= Window
  <2> DEFINE r == [b EXCEPT !.next = next, !.pending = held]
  <2>1. ReleasedFrom(b) = r
    <3> HIDE DEF b
    <3>1. QED
      BY <1>8, <1>9 DEF ReleasedFrom
  <2>2. /\ r \in [started : BOOLEAN, next : Nat, pending : SUBSET Nat] /\ r.started
        /\ r.next = next /\ r.pending = held
    <3> HIDE DEF next, held
    <3>1. QED
      BY <1>1, <1>5, <1>6
  <2>3. Released(r, all, first)
    <3> HIDE DEF r, next, held, all
    <3>1. QED
      BY <1>6, <1>7, <1>9, <2>2 DEF Released
  <2>4. QED
    BY <2>1, <2>3
\* Too many are held: the gap before the oldest is conceded.
<1>10. CASE ~(Cardinality(held) <= Window)
  <2> DEFINE left == {f \in held : f >= over}
             r    == [b EXCEPT !.next = over, !.pending = left]
  <2>1. ReleasedFrom(b) = r
    <3> HIDE DEF b
    <3>1. QED
      BY <1>8, <1>10 DEF ReleasedFrom
  <2>2. held # {}
    <3> HIDE DEF held
    <3>1. SUFFICES ASSUME held = {}
                   PROVE  FALSE
      OBVIOUS
    <3>2. Cardinality(held) = 0
      BY <3>1, FS_EmptySet
    <3>3. QED
      BY <1>3, <1>10, <3>2
  <2>3. q \in held /\ (\A y \in held : q <= y) /\ q \in Nat
    <3> HIDE DEF held
    <3>1. QED
      BY <1>6, <2>2, MinIsLeast
  <2>4. /\ over \in Nat /\ over >= q /\ over \notin held
        /\ \A k \in Nat : q <= k /\ k < over => k \in held
    <3> HIDE DEF held, q
    <3>1. QED
      BY <1>4, <1>6, <2>3, RunEndIsFirst
  <2>5. over > q /\ q >= next
    <3> HIDE DEF over, q, next
    <3>1. over # q
      BY <2>3, <2>4
    <3>2. QED
      BY <2>3, <2>4, <3>1
  <2>6. over \notin all /\ left = {h \in all : h >= over} /\ left \in SUBSET Nat
    <3>1. all \in SUBSET Nat
      OBVIOUS
    <3> HIDE DEF over, q, next, held, all
    <3>2. over \notin all
      BY <1>5, <1>6, <2>3, <2>4, <2>5
    <3>3. \A h \in all : h >= over => h \in held
      BY <1>5, <1>6, <2>3, <2>4, <2>5, <3>1
    <3>4. left = {h \in all : h >= over} /\ left \in SUBSET Nat
      BY <1>6, <3>1, <3>3
    <3>5. QED
      BY <3>2, <3>4
  <2>7. Cardinality(left) <= Window
    <3> HIDE DEF over, q, held
    <3>1. left \in SUBSET (held \ {q})
      BY <1>6, <2>3, <2>4, <2>5
    <3>2. IsFiniteSet(held \ {q}) /\ Cardinality(held \ {q}) = Cardinality(held) - 1
      BY <1>4, <2>3, FS_RemoveElement
    <3>3. Cardinality(left) <= Cardinality(held \ {q}) /\ IsFiniteSet(left)
      BY <3>1, <3>2, FS_Subset
    <3>4. Cardinality(left) \in Nat
      BY <3>3, FS_CardinalityType
    <3>5. QED
      BY <1>3, <1>4, <3>2, <3>3, <3>4
  <2>8. ASSUME NEW f \in Nat, f > first, f < over, f \notin all
        PROVE  Cardinality({h \in all : h > f}) > Window
    <3>1. CASE f < next
      BY <1>7, <2>8, <3>1
    <3>2. CASE f >= next
      <4> DEFINE B == {h \in all : h > f}
      <4>1. f < q
        <5> HIDE DEF over, q, held, next
        <5>1. QED
          BY <1>6, <2>3, <2>4, <2>8
      <4>2. held \in SUBSET B
        <5> HIDE DEF q, next
        <5>1. \A h \in held : h \in all /\ q <= h /\ h \in Nat
          BY <1>6, <2>3
        <5> HIDE DEF held
        <5>2. QED
          BY <2>3, <4>1, <5>1
      <4>3. IsFiniteSet(B)
        <5>1. B \in SUBSET all
          OBVIOUS
        <5> HIDE DEF all, B
        <5>2. QED
          BY <1>4, <5>1, FS_Subset
      <4> HIDE DEF held, B
      <4>4. Cardinality(held) <= Cardinality(B) /\ Cardinality(B) \in Nat
        BY <4>2, <4>3, FS_Subset, FS_CardinalityType
      <4>5. Cardinality(B) > Window
        BY <1>3, <1>4, <1>10, <4>4
      <4>6. QED
        BY <4>5 DEF B
    <3>3. QED
      <4> HIDE DEF next
      <4>1. QED
        BY <1>5, <3>1, <3>2
  <2>9. /\ r \in [started : BOOLEAN, next : Nat, pending : SUBSET Nat] /\ r.started
        /\ r.next = over /\ r.pending = left
    <3> HIDE DEF over, left
    <3>1. QED
      BY <1>1, <2>4, <2>6
  <2>10. Released(r, all, first)
    <3> HIDE DEF r, over, left, all
    <3>1. QED
      BY <2>6, <2>7, <2>8, <2>9 DEF Released
  <2>11. QED
    BY <2>1, <2>10
<1>11. QED
  BY <1>9, <1>10

\* A frame pushed into a buffer leaves it released.
LEMMA PushReleases ==
  ASSUME NEW j, BufferInv(j), NEW n \in Nat
  PROVE  Released(Push(j.buffer, n), j.seen \cup {n}, IF j.seen = {} THEN n ELSE j.first)
<1> DEFINE seen  == j.seen
           first == IF seen = {} THEN n ELSE j.first
           c == IF j.buffer.started THEN j.buffer
                ELSE [j.buffer EXCEPT !.started = TRUE, !.next = n]
<1>1. seen \in SUBSET Nat /\ IsFiniteSet(seen) /\ first \in Nat
  BY DEF BufferInv
<1>2. Released(c, seen, first)
  <2>1. CASE seen = {}
    <3>1. j.buffer = [started |-> FALSE, next |-> 0, pending |-> {}]
      <4>1. j.buffer = NewJitterBuffer
        BY <2>1 DEF BufferInv
      <4>2. QED
        BY <4>1 DEF NewJitterBuffer
    <3>2. /\ c \in [started : BOOLEAN, next : Nat, pending : SUBSET Nat]
          /\ c.started = TRUE /\ c.next = n /\ c.pending = {} /\ first = n
      <4> DEFINE r == [started |-> FALSE, next |-> 0, pending |-> {}]
      <4>1. c = [r EXCEPT !.started = TRUE, !.next = n]
        BY <3>1
      <4>2. first = n
        BY <2>1
      <4> HIDE DEF c
      <4>3. QED
        BY <4>1, <4>2
    <3>3. Cardinality({}) <= Window /\ Window \in Nat
      BY FS_EmptySet, JitterAssumption
    <3> HIDE DEF c, first, seen
    <3>4. QED
      BY <2>1, <3>2, <3>3 DEF Released
  <2>2. CASE seen # {}
    <3>1. Released(j.buffer, seen, j.first) /\ first = j.first
      BY <2>2 DEF BufferInv
    <3>2. c = j.buffer
      BY <3>1 DEF Released
    <3>3. QED
      BY <3>1, <3>2
  <2>3. QED
    BY <2>1, <2>2
<1>3. Push(j.buffer, n) =
        IF n < c.next THEN c ELSE ReleasedFrom([c EXCEPT !.pending = @ \cup {n}])
  BY Zenon DEF Push
<1> HIDE DEF c
<1>4. c.next \in Nat
  BY <1>2 DEF Released
<1>5. CASE n < c.next
  <2> DEFINE all == seen \cup {n}
  <2>1. /\ c \in [started : BOOLEAN, next : Nat, pending : SUBSET Nat] /\ c.started
        /\ c.pending = {h \in seen : h >= c.next} /\ c.next \notin seen
        /\ Cardinality(c.pending) <= Window
    BY <1>2 DEF Released
  <2>2. c.pending = {h \in all : h >= c.next} /\ c.next \notin all
    <3> HIDE DEF seen
    <3>1. QED
      BY <1>1, <1>4, <1>5, <2>1
  <2>3. ASSUME NEW f \in Nat, f > first, f < c.next, f \notin all
        PROVE  Cardinality({h \in all : h > f}) > Window
    <3> HIDE DEF seen, first
    <3>1. Cardinality({h \in seen : h > f}) > Window
      BY <1>2, <2>3 DEF Released
    <3>2. QED
      BY <1>1, <3>1, BeyondGrows
  <2>4. Released(c, all, first)
    <3> HIDE DEF all, first
    <3>1. QED
      BY <2>1, <2>2, <2>3 DEF Released
  <2>5. QED
    BY <1>3, <1>5, <2>4
<1>6. CASE ~(n < c.next)
  <2> HIDE DEF seen, first
  <2>1. n >= c.next
    BY <1>4, <1>6
  <2>2. Released(ReleasedFrom([c EXCEPT !.pending = @ \cup {n}]), seen \cup {n}, first)
    BY <1>1, <1>2, <2>1, ReleaseHolds
  <2>3. QED
    BY <1>3, <1>6, <2>2 DEF seen, first
<1>7. QED
  BY <1>5, <1>6

\* The jitter buffers, step by step.
LEMMA JitterStep ==
  ASSUME TypeInv, Queues, JitterInv, [Next]_vars
  PROVE  JitterInv'
<1>1. CASE \E g \in Legs, n \in Nat : ReadFromUDP(g, n)
  <2>1. PICK g \in Legs, n \in Nat : ReadFromUDP(g, n)
    BY <1>1
  <2>2. /\ jitter'[g].seen = jitter[g].seen \cup {n}
        /\ jitter'[g].buffer = Push(jitter[g].buffer, n)
        /\ jitter'[g].first = (IF jitter[g].seen = {} THEN n ELSE jitter[g].first)
        /\ \A h \in Legs : h # g => jitter'[h] = jitter[h]
        /\ DOMAIN jitter' = Legs
    BY <2>1, SeenStep DEF TypeInv, SeenTyped
  <2>3. BufferInv(jitter[g])
    BY DEF JitterInv
  <2>4. Released(jitter'[g].buffer, jitter'[g].seen, jitter'[g].first)
    BY <2>2, <2>3, PushReleases
  <2>5. jitter'[g].seen \in SUBSET Nat /\ IsFiniteSet(jitter'[g].seen)
        /\ jitter'[g].first \in Nat /\ jitter'[g].seen # {}
    BY <2>2, <2>3, FS_AddElement DEF BufferInv
  <2>6. BufferInv(jitter'[g])
    BY <2>4, <2>5 DEF BufferInv
  <2>7. QED
    BY <2>2, <2>6 DEF JitterInv
<1>2. CASE jitter' = jitter
  BY <1>2 DEF JitterInv
<1>3. CASE session
  BY <1>2, <1>3, Opens DEF netVars
<1>4. CASE deliver
  BY <1>2, <1>4, Delivers DEF netVars
<1>5. CASE Quiet
  BY <1>2, <1>5 DEF Quiet
<1>6. QED
  BY <1>1, <1>2, <1>3, <1>4, <1>5, Steps

\* The buffer waits for a frame that at most Window later ones have overtaken,
\* holds no more than Window frames, and never stalls behind one it holds
\* (media/jitter.go, Push and releaseReady).
THEOREM JitterWaitsTheorem == Spec => []JitterWaits
<1>1. ASSUME Init
      PROVE  MediaInv /\ JitterInv
  <2>1. MediaInv
    BY <1>1, MediaInit
  <2>2. jitter = [g \in Legs |-> [buffer |-> NewJitterBuffer, seen |-> {}, first |-> 0]]
    BY <1>1 DEF Init
  <2>3. ASSUME NEW g \in Legs
        PROVE  BufferInv(jitter[g])
    <3>1. jitter[g].seen = {} /\ jitter[g].first = 0 /\ jitter[g].buffer = NewJitterBuffer
      BY <2>2
    <3>2. QED
      BY <3>1, FS_EmptySet DEF BufferInv
  <2>4. QED
    BY <2>1, <2>2, <2>3 DEF JitterInv
<1>2. MediaInv /\ JitterInv /\ [Next]_vars => JitterInv'
  BY JitterStep DEF MediaInv
<1>3. ASSUME JitterInv
      PROVE  JitterWaits
  <2>1. ASSUME NEW g \in Legs
        PROVE  LET j == jitter[g] IN
               /\ \A f \in 0 .. MaxPackets - 1 :
                    /\ f > j.first /\ j.seen # {} /\ f \notin j.seen
                    /\ Cardinality({h \in j.seen : h > f}) <= Window
                    => f >= j.buffer.next
               /\ Cardinality(j.buffer.pending) <= Window
               /\ \A f \in j.buffer.pending : f > j.buffer.next
    <3> DEFINE j == jitter[g]
    <3>1. BufferInv(j)
      BY <1>3 DEF JitterInv
    <3>2. CASE j.seen = {}
      <4>1. j.buffer.pending = {}
        BY <3>1, <3>2 DEF BufferInv, NewJitterBuffer
      <4>2. Cardinality({}) <= Window
        BY FS_EmptySet, JitterAssumption
      <4>3. QED
        BY <3>2, <4>1, <4>2
    <3>3. CASE j.seen # {}
      <4>1. Released(j.buffer, j.seen, j.first) /\ j.seen \in SUBSET Nat /\ IsFiniteSet(j.seen)
        BY <3>1, <3>3 DEF BufferInv
      <4>2. j.buffer.next \in Nat /\ Window \in Nat /\ MaxPackets \in Nat
        BY <4>1, JitterAssumption, ExternalMediaAssumption DEF Released
      <4>3. ASSUME NEW f \in 0 .. MaxPackets - 1,
                   f > j.first, f \notin j.seen,
                   Cardinality({h \in j.seen : h > f}) <= Window
            PROVE  f >= j.buffer.next
        <5>1. f \in Nat
          BY <4>2
        <5>2. Cardinality({h \in j.seen : h > f}) \in Nat
          BY <4>1, FS_Subset, FS_CardinalityType
        <5>3. f < j.buffer.next => Cardinality({h \in j.seen : h > f}) > Window
          BY <4>1, <4>3, <5>1 DEF Released
        <5>4. QED
          BY <4>2, <4>3, <5>1, <5>2, <5>3
      <4>4. /\ Cardinality(j.buffer.pending) <= Window
            /\ j.buffer.pending = {h \in j.seen : h >= j.buffer.next}
            /\ j.buffer.next \notin j.seen
        BY <4>1 DEF Released
      <4>5. \A f \in j.buffer.pending : f > j.buffer.next
        BY <4>1, <4>2, <4>4
      <4>6. QED
        BY <4>3, <4>4, <4>5
    <3>4. QED
      BY <3>2, <3>3
  <2>2. QED
    BY <2>1 DEF JitterWaits
<1>4. MediaInv => TypeInv /\ Queues
  BY DEF MediaInv
<1>5. QED
  BY <1>1, <1>2, <1>3, MediaInvariant, PTL DEF Spec
=============================================================================
