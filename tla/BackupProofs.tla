---------------------------- MODULE BackupProofs ----------------------------
(***************************************************************************)
(* Theorems about Backup for any number of services, files, requests and   *)
(* failures: a pong acknowledges no write that is still on its way to its   *)
(* service, callbacks are called in the order of the requests, and every   *)
(* variable stays in its type.                                             *)
(***************************************************************************)
EXTENDS Backup, WellFoundedInduction, TLAPS

-----------------------------------------------------------------------------
(* The inductive invariant.  For one service it relates the two directions *)
(* of its connection, of which bs is toBS, egs is toEGS, and pp the        *)
(* PingPongs record; a sequence of unknown messages is one over its range. *)

IsSeq(s) == s \in Seq({s[i] : i \in DOMAIN s})

(* The EGS holds no record of the service when it has read egs up to j.    *)
Closed(egs, j, pp) ==
  \/ pp = {} /\ \A i \in 1 .. j - 1 : egs[i].type # "UP"
  \/ \E i \in 1 .. j - 1 :
       egs[i].type = "DOWN" /\ \A k \in i + 1 .. j - 1 : egs[k].type # "UP"

NoEvent(egs, n) == \A i \in 1 .. n : egs[i].type \notin {"UP", "DOWN"}

(* Requests, pings and pongs belong to the connection that the EGS knows.  *)
OneConnection(open, bs, egs, pp) ==
  /\ \A j \in 1 .. Len(egs) : egs[j].type = "UP" => Closed(egs, j, pp)
  /\ \A j \in 1 .. Len(egs) : egs[j].type = "DOWN" => egs[j] = DownMsg
  /\ ~open => bs = <<>> /\ Closed(egs, Len(egs) + 1, pp)
  /\ bs # <<>> => pp # {} /\ NoEvent(egs, Len(egs))
  /\ \A j \in 1 .. Len(egs) :
       egs[j].type = "BS_PONG" => pp # {} /\ NoEvent(egs, j)

(* A ping is answered before the next one is sent.                         *)
OnePing(bs, egs, pp) ==
  /\ \A p \in pp : p.ready =>
       /\ \A i \in 1 .. Len(bs) : bs[i].type # "BS_PING"
       /\ \A i \in 1 .. Len(egs) : egs[i].type # "BS_PONG"
  /\ \A i \in 1 .. Len(bs) : bs[i].type = "BS_PING" =>
       /\ \A j \in 1 .. Len(bs) : bs[j].type = "BS_PING" => i = j
       /\ \A j \in 1 .. Len(egs) : egs[j].type # "BS_PONG"
  /\ \A i, j \in 1 .. Len(egs) :
       egs[i].type = "BS_PONG" /\ egs[j].type = "BS_PONG" => i = j

(* A write that a pong must not acknowledge.                               *)
Later(m, p) == IsWrite(m) => m.id = 0 \/ m.id > p.last

(* What follows the ping, or remains once the pong is sent, came later     *)
(* than what the pong is to acknowledge.                                   *)
PongCovers(bs, egs, pp) == \A p \in pp :
  /\ \A i, j \in 1 .. Len(bs) : bs[i].type = "BS_PING" /\ i < j => Later(bs[j], p)
  /\ \A i \in 1 .. Len(egs) : egs[i].type = "BS_PONG" =>
       \A j \in 1 .. Len(bs) : Later(bs[j], p)

ChannelInv(open, bs, egs, pp) ==
  /\ IsSeq(bs) /\ IsSeq(egs)
  /\ OneConnection(open, bs, egs, pp)
  /\ OnePing(bs, egs, pp)
  /\ PongCovers(bs, egs, pp)

(* The ids of requests come from the counter.                              *)
Known(n, bs, pp) ==
  /\ \A j \in 1 .. Len(bs) : IsWrite(bs[j]) => bs[j].id \in 0 .. n - 1
  /\ \A p \in pp : p.last \in Nat /\ (p.last = 0 \/ p.last < n)

(* What the service has not read it has not acknowledged.                  *)
Received(bs, b, acks) ==
  \A j \in 1 .. Len(bs) : IsWrite(bs[j]) /\ b \in acks[bs[j].id] => bs[j].id = 0

FunctionsInv ==
  /\ link = [b \in BSs |-> link[b]] /\ toBS = [b \in BSs |-> toBS[b]]
  /\ toEGS = [b \in BSs |-> toEGS[b]] /\ pingPongs = [b \in BSs |-> pingPongs[b]]

IdsInv ==
  /\ counter \in 0 .. MaxRequests
  /\ requestIds \in Seq(0 .. counter - 1)
  /\ \A i \in RequestIds : ackedBy[i] # {} => i < counter

ServiceInv(b) ==
  /\ link[b] \in BOOLEAN
  /\ pingPongs[b] \subseteq [ready : BOOLEAN, last : Nat]
  /\ ChannelInv(link[b], toBS[b], toEGS[b], pingPongs[b])
  /\ Known(counter, toBS[b], pingPongs[b])
  /\ Received(toBS[b], b, ackedBy)

AckInv == FunctionsInv /\ IdsInv /\ \A b \in BSs : ServiceInv(b)

-----------------------------------------------------------------------------
(* Lemmas about sequences of unknown messages.                             *)

LEMMA SeqFacts ==
  ASSUME NEW s, IsSeq(s)
  PROVE  Len(s) \in Nat /\ DOMAIN s = 1 .. Len(s) /\ (s = <<>> <=> Len(s) = 0)
  BY DEF IsSeq

LEMMA RangeIsSeq ==
  ASSUME NEW S, NEW s \in Seq(S)
  PROVE  IsSeq(s)
<1>1. \A i \in 1 .. Len(s) : s[i] \in {s[j] : j \in DOMAIN s}
  OBVIOUS
<1>2. s = [i \in 1 .. Len(s) |-> s[i]] /\ Len(s) \in Nat
  OBVIOUS
<1> QED
  BY <1>1, <1>2 DEF IsSeq

LEMMA EmptyIsSeq == IsSeq(<<>>) /\ Len(<<>>) = 0
  BY DEF IsSeq

LEMMA AppendFacts ==
  ASSUME NEW s, IsSeq(s), NEW e
  PROVE  /\ IsSeq(Append(s, e)) /\ Len(Append(s, e)) = Len(s) + 1
         /\ \A i \in 1 .. Len(s) : Append(s, e)[i] = s[i]
         /\ Append(s, e)[Len(s) + 1] = e
<1> DEFINE S == {s[i] : i \in DOMAIN s} \cup {e}
<1>1. s \in Seq(S)
  BY DEF IsSeq
<1> HIDE DEF S
<1>2. e \in S
  BY DEF S
<1>3. Append(s, e) \in Seq(S)
  BY <1>1, <1>2
<1>4. IsSeq(Append(s, e))
  BY <1>3, RangeIsSeq
<1> QED
  BY <1>1, <1>2, <1>4

LEMMA AppendIsOne ==
  ASSUME NEW s, IsSeq(s), NEW e, NEW f
  PROVE  s \o <<e>> = Append(s, e) /\ s \o <<e, f>> = Append(Append(s, e), f)
<1>1. PICK S : s \in Seq(S) /\ e \in S /\ f \in S
  <2>1. s \in Seq({s[i] : i \in DOMAIN s} \cup {e, f})
    BY DEF IsSeq
  <2> QED
    BY <2>1
<1> QED
  BY <1>1

LEMMA TailFacts ==
  ASSUME NEW s, IsSeq(s), s # <<>>
  PROVE  /\ IsSeq(Tail(s)) /\ Len(Tail(s)) = Len(s) - 1
         /\ \A i \in 1 .. Len(s) - 1 : Tail(s)[i] = s[i + 1]
         /\ Head(s) = s[1] /\ Len(s) >= 1
<1> DEFINE S == {s[i] : i \in DOMAIN s}
<1>1. s \in Seq(S)
  BY DEF IsSeq
<1> HIDE DEF S
<1>2. Tail(s) \in Seq(S)
  BY <1>1
<1>3. IsSeq(Tail(s))
  BY <1>2, RangeIsSeq
<1> QED
  BY <1>1, <1>3

LEMMA FrontFacts ==
  ASSUME NEW s, IsSeq(s), NEW n \in 0 .. Len(s)
  PROVE  /\ IsSeq(SubSeq(s, 1, n)) /\ Len(SubSeq(s, 1, n)) = n
         /\ \A i \in 1 .. n : SubSeq(s, 1, n)[i] = s[i]
<1> DEFINE S == {s[i] : i \in DOMAIN s}
<1>1. s \in Seq(S) /\ Len(s) \in Nat
  BY DEF IsSeq
<1> HIDE DEF S
<1>2. SubSeq(s, 1, n) \in Seq(S)
  BY <1>1
<1>3. IsSeq(SubSeq(s, 1, n))
  BY <1>2, RangeIsSeq
<1> QED
  BY <1>1, <1>3
(* What follows in the queue does not matter.                              *)
LEMMA ClosedByPrefix ==
  ASSUME NEW s, NEW t, NEW n \in Nat, \A i \in 1 .. n : t[i] = s[i],
         NEW j \in 1 .. n + 1, NEW pp, Closed(s, j, pp)
  PROVE  Closed(t, j, pp)
<1>1. \A i \in 1 .. j - 1 : i \in 1 .. n
  OBVIOUS
<1>2. CASE pp = {} /\ \A i \in 1 .. j - 1 : s[i].type # "UP"
  BY <1>1, <1>2 DEF Closed
<1>3. ASSUME NEW i \in 1 .. j - 1, s[i].type = "DOWN",
             \A k \in i + 1 .. j - 1 : s[k].type # "UP"
      PROVE  Closed(t, j, pp)
  <2>1. \A k \in i + 1 .. j - 1 : k \in 1 .. n
    OBVIOUS
  <2> QED
    BY <1>1, <1>3, <2>1 DEF Closed
<1> QED
  BY <1>2, <1>3 DEF Closed

-----------------------------------------------------------------------------
(* What the EGS reads.                                                     *)

(* A loss of the connection that stands behind the head is still there     *)
(* when the head has been read.                                            *)
LEMMA DownRemains ==
  ASSUME NEW t, NEW egs, Len(t) \in Nat, \A i \in 1 .. Len(t) : t[i] = egs[i + 1],
         NEW n \in 1 .. Len(t) + 1, NEW i \in 1 .. n, i # 1, egs[i].type = "DOWN",
         \A k \in i + 1 .. n : egs[k].type # "UP", NEW qq
  PROVE  Closed(t, n, qq)
<1>1. i - 1 \in 1 .. n - 1 /\ i - 1 \in 1 .. Len(t) /\ (i - 1) + 1 = i
  OBVIOUS
<1>2. t[i - 1].type = "DOWN"
  BY <1>1
<1>3. \A k \in (i - 1) + 1 .. n - 1 : k + 1 \in i + 1 .. n /\ k \in 1 .. Len(t)
  BY <1>1
<1>4. \A k \in (i - 1) + 1 .. n - 1 : t[k].type # "UP"
  BY <1>3
<1> QED
  BY <1>1, <1>2, <1>4 DEF Closed

(* Reading a message that is not an event leaves the record or gives the   *)
(* service another one.                                                    *)
LEMMA ReadKeepsConnection ==
  ASSUME NEW open \in BOOLEAN, NEW bs, NEW egs, NEW pp, NEW qq,
         IsSeq(egs), egs # <<>>, OneConnection(open, bs, egs, pp),
         Head(egs).type \notin {"UP", "DOWN"}, pp = {} <=> qq = {}
  PROVE  OneConnection(open, bs, Tail(egs), qq)
<1> DEFINE t == Tail(egs)
<1>1. /\ Len(t) \in Nat /\ Len(egs) = Len(t) + 1
      /\ \A i \in 1 .. Len(t) : t[i] = egs[i + 1]
      /\ egs[1].type \notin {"UP", "DOWN"}
  BY TailFacts, SeqFacts
<1> HIDE DEF t
<1>2. \A n \in 1 .. Len(t) + 1 : Closed(egs, n + 1, pp) => Closed(t, n, qq)
  <2> TAKE n \in 1 .. Len(t) + 1
  <2>1. ASSUME pp = {}, \A i \in 1 .. n : egs[i].type # "UP"
        PROVE  Closed(t, n, qq)
    <3>1. \A i \in 1 .. n - 1 : t[i].type # "UP"
      BY <2>1, <1>1
    <3> QED
      BY <2>1, <3>1 DEF Closed
  <2>2. ASSUME NEW i \in 1 .. n, egs[i].type = "DOWN",
               \A k \in i + 1 .. n : egs[k].type # "UP"
        PROVE  Closed(t, n, qq)
    <3>1. i # 1
      BY <2>2, <1>1
    <3> QED
      BY <2>2, <3>1, <1>1, DownRemains
  <2>3. n + 1 - 1 = n
    BY <1>1
  <2> QED
    BY <2>1, <2>2, <2>3 DEF Closed
<1>3. \A j \in 1 .. Len(t) : t[j].type = "UP" => Closed(t, j, qq)
  BY <1>1, <1>2 DEF OneConnection
<1>4. ~open => bs = <<>> /\ Closed(t, Len(t) + 1, qq)
  BY <1>1, <1>2 DEF OneConnection
<1>5. bs # <<>> => qq # {} /\ NoEvent(t, Len(t))
  BY <1>1 DEF OneConnection, NoEvent
<1>6. \A j \in 1 .. Len(t) : t[j].type = "BS_PONG" => qq # {} /\ NoEvent(t, j)
  BY <1>1 DEF OneConnection, NoEvent
<1>7. \A j \in 1 .. Len(t) : t[j].type = "DOWN" => t[j] = DownMsg
  BY <1>1 DEF OneConnection
<1> QED
  BY <1>3, <1>4, <1>5, <1>6, <1>7 DEF OneConnection, t

(* A message without consequence for the register.                         *)
LEMMA ReadOther ==
  ASSUME NEW open \in BOOLEAN, NEW bs, NEW egs, NEW pp,
         ChannelInv(open, bs, egs, pp), egs # <<>>,
         Head(egs).type \notin {"UP", "DOWN", "BS_PONG"}
  PROVE  ChannelInv(open, bs, Tail(egs), pp)
<1> DEFINE t == Tail(egs)
<1>1. /\ Len(t) \in Nat /\ Len(egs) = Len(t) + 1 /\ IsSeq(t)
      /\ \A i \in 1 .. Len(t) : t[i] = egs[i + 1]
  BY TailFacts, SeqFacts DEF ChannelInv
<1>2. OneConnection(open, bs, t, pp)
  BY ReadKeepsConnection DEF ChannelInv
<1> HIDE DEF t
<1>3. OnePing(bs, t, pp)
  <2>1. \A j \in 1 .. Len(t) : j + 1 \in 1 .. Len(egs) /\ t[j] = egs[j + 1]
    BY <1>1
  <2>2. \A i, j \in 1 .. Len(t) :
          t[i].type = "BS_PONG" /\ t[j].type = "BS_PONG" => i + 1 = j + 1
    BY <2>1 DEF ChannelInv, OnePing
  <2> QED
    BY <2>1, <2>2 DEF ChannelInv, OnePing
<1>4. PongCovers(bs, t, pp)
  BY <1>1 DEF ChannelInv, PongCovers
<1> QED
  BY <1>1, <1>2, <1>3, <1>4 DEF ChannelInv, t

(* The pong: nothing is on its way that another pong could answer.         *)
LEMMA ReadPong ==
  ASSUME NEW open \in BOOLEAN, NEW bs, NEW egs, NEW pp, NEW l,
         ChannelInv(open, bs, egs, pp), egs # <<>>, Head(egs).type = "BS_PONG"
  PROVE  ChannelInv(open, bs, Tail(egs), {[ready |-> TRUE, last |-> l]})
<1> DEFINE t == Tail(egs)
           qq == {[ready |-> TRUE, last |-> l]}
<1>1. /\ Len(t) \in Nat /\ Len(egs) = Len(t) + 1 /\ IsSeq(t) /\ egs[1].type = "BS_PONG"
      /\ \A i \in 1 .. Len(t) : t[i] = egs[i + 1]
  BY TailFacts, SeqFacts DEF ChannelInv
<1>2. pp # {} /\ qq # {}
  BY <1>1 DEF ChannelInv, OneConnection
<1>3. OneConnection(open, bs, t, qq)
  BY <1>1, <1>2, ReadKeepsConnection DEF ChannelInv
<1> HIDE DEF t, qq
<1>4. /\ \A i \in 1 .. Len(bs) : bs[i].type # "BS_PING"
      /\ \A i \in 1 .. Len(t) : t[i].type # "BS_PONG"
  BY <1>1 DEF ChannelInv, OnePing
<1>5. OnePing(bs, t, qq) /\ PongCovers(bs, t, qq)
  BY <1>4 DEF OnePing, PongCovers
<1> QED
  BY <1>1, <1>3, <1>5 DEF ChannelInv, t, qq
(* The connection has gone: so has all that was sent on it.                *)
LEMMA ReadDown ==
  ASSUME NEW open \in BOOLEAN, NEW bs, NEW egs, NEW pp,
         ChannelInv(open, bs, egs, pp), egs # <<>>, Head(egs).type = "DOWN"
  PROVE  ChannelInv(open, bs, Tail(egs), {})
<1> DEFINE t == Tail(egs)
<1>1. /\ Len(t) \in Nat /\ Len(egs) = Len(t) + 1 /\ IsSeq(t) /\ egs[1].type = "DOWN"
      /\ \A i \in 1 .. Len(t) : t[i] = egs[i + 1]
  BY TailFacts, SeqFacts DEF ChannelInv
<1> HIDE DEF t
<1>2. bs = <<>> /\ \A j \in 1 .. Len(t) : t[j].type # "BS_PONG"
  BY <1>1 DEF ChannelInv, OneConnection, NoEvent
<1>3. \A n \in 1 .. Len(t) + 1 : Closed(egs, n + 1, pp) => Closed(t, n, {})
  <2> TAKE n \in 1 .. Len(t) + 1
  <2>1. ASSUME \A i \in 2 .. n : egs[i].type # "UP"
        PROVE  Closed(t, n, {})
    <3>1. \A i \in 1 .. n - 1 : t[i].type # "UP"
      BY <2>1, <1>1
    <3> QED
      BY <3>1 DEF Closed
  <2>2. ASSUME NEW i \in 1 .. n, egs[i].type = "DOWN", i # 1,
               \A k \in i + 1 .. n : egs[k].type # "UP"
        PROVE  Closed(t, n, {})
    BY <2>2, <1>1, DownRemains
  <2>3. n + 1 - 1 = n /\ 1 + 1 = 2 /\ \A i \in 2 .. n : i \in 1 .. n
    BY <1>1
  <2> QED
    BY <2>1, <2>2, <2>3 DEF Closed
<1>4. OneConnection(open, bs, t, {})
  BY <1>1, <1>2, <1>3 DEF ChannelInv, OneConnection
<1>5. OnePing(bs, t, {}) /\ PongCovers(bs, t, {})
  BY <1>2, EmptyIsSeq DEF OnePing, PongCovers
<1> QED
  BY <1>1, <1>4, <1>5 DEF ChannelInv, t

(* A connection starts with nothing on its way.                            *)
LEMMA ReadUp ==
  ASSUME NEW open \in BOOLEAN, NEW bs, NEW egs, NEW pp,
         ChannelInv(open, bs, egs, pp), egs # <<>>, Head(egs).type = "UP"
  PROVE  ChannelInv(open, bs, Tail(egs), {NewPingPong})
<1> DEFINE t == Tail(egs)
           qq == {NewPingPong}
<1>1. /\ Len(t) \in Nat /\ Len(egs) = Len(t) + 1 /\ IsSeq(t) /\ egs[1].type = "UP"
      /\ \A i \in 1 .. Len(t) : t[i] = egs[i + 1]
  BY TailFacts, SeqFacts DEF ChannelInv
<1> HIDE DEF t, qq
<1>2. bs = <<>> /\ \A j \in 1 .. Len(t) : t[j].type # "BS_PONG"
  BY <1>1 DEF ChannelInv, OneConnection, NoEvent
<1>3. \A n \in 1 .. Len(t) + 1 : Closed(egs, n + 1, pp) => Closed(t, n, qq)
  <2> TAKE n \in 1 .. Len(t) + 1
  <2>1. ASSUME NEW i \in 1 .. n, egs[i].type = "DOWN",
               \A k \in i + 1 .. n : egs[k].type # "UP"
        PROVE  Closed(t, n, qq)
    <3>1. i # 1
      BY <2>1, <1>1
    <3> QED
      BY <2>1, <3>1, <1>1, DownRemains
  <2>2. n + 1 - 1 = n /\ 1 \in 1 .. n
    BY <1>1
  <2> QED
    BY <2>1, <2>2, <1>1 DEF Closed
<1>4. OneConnection(open, bs, t, qq)
  BY <1>1, <1>2, <1>3 DEF ChannelInv, OneConnection
<1>5. OnePing(bs, t, qq) /\ PongCovers(bs, t, qq)
  BY <1>2, EmptyIsSeq DEF OnePing, PongCovers
<1> QED
  BY <1>1, <1>4, <1>5 DEF ChannelInv, t, qq
-----------------------------------------------------------------------------
(* What the EGS sends.                                                     *)

(* A record that is not ready, and a ping if the connection takes it.      *)
LEMMA SendPing ==
  ASSUME NEW open \in BOOLEAN, NEW bs, NEW egs, NEW pp,
         ChannelInv(open, bs, egs, pp), \E p \in pp : p.ready,
         open, NoEvent(egs, Len(egs)), \A p \in pp : p \in [ready : BOOLEAN, last : Nat]
  PROVE  ChannelInv(open, Append(bs, PingMsg), egs, {[p EXCEPT !.ready = FALSE] : p \in pp})
<1> DEFINE t == Append(bs, PingMsg)
           qq == {[p EXCEPT !.ready = FALSE] : p \in pp}
<1>1. /\ Len(bs) \in Nat /\ Len(t) = Len(bs) + 1 /\ IsSeq(t) /\ t[Len(bs) + 1] = PingMsg
      /\ \A i \in 1 .. Len(bs) : t[i] = bs[i]
  BY AppendFacts, SeqFacts DEF ChannelInv
<1>2. \A q \in qq : ~q.ready /\ \E p \in pp : q.last = p.last
  OBVIOUS
<1>3. pp # {} /\ qq # {}
  OBVIOUS
<1> HIDE DEF t, qq
<1>4. /\ \A i \in 1 .. Len(bs) : bs[i].type # "BS_PING"
      /\ \A i \in 1 .. Len(egs) : egs[i].type # "BS_PONG"
  BY DEF ChannelInv, OnePing
<1>5. Len(egs) \in Nat
  BY SeqFacts DEF ChannelInv
<1>6. \A j \in 1 .. Len(egs) : egs[j].type \notin {"UP", "DOWN"}
  BY DEF NoEvent
<1>7. OneConnection(open, t, egs, qq)
  BY <1>3, <1>4, <1>6 DEF OneConnection
<1>8. \A i \in 1 .. Len(t) : t[i].type = "BS_PING" => i = Len(t)
  BY <1>1, <1>4
<1>9. OnePing(t, egs, qq)
  BY <1>2, <1>4, <1>8 DEF OnePing
<1>10. PongCovers(t, egs, qq)
  BY <1>1, <1>4, <1>8 DEF PongCovers
<1> QED
  BY <1>1, <1>7, <1>9, <1>10 DEF ChannelInv, t, qq

LEMMA NotReady ==
  ASSUME NEW open \in BOOLEAN, NEW bs, NEW egs, NEW pp,
         ChannelInv(open, bs, egs, pp), \A p \in pp : p \in [ready : BOOLEAN, last : Nat]
  PROVE  ChannelInv(open, bs, egs, {[p EXCEPT !.ready = FALSE] : p \in pp})
<1> DEFINE qq == {[p EXCEPT !.ready = FALSE] : p \in pp}
<1>1. \A q \in qq : ~q.ready /\ \E p \in pp : q.last = p.last
  OBVIOUS
<1>2. pp = {} <=> qq = {}
  OBVIOUS
<1> HIDE DEF qq
<1>3. \A n : Closed(egs, n, pp) => Closed(egs, n, qq)
  BY <1>2 DEF Closed
<1>4. OneConnection(open, bs, egs, qq)
  BY <1>2, <1>3 DEF ChannelInv, OneConnection
<1>5. OnePing(bs, egs, qq)
  BY <1>1 DEF ChannelInv, OnePing
<1>6. \A p \in pp, q \in qq : p.last = q.last => \A m : Later(m, p) => Later(m, q)
  BY DEF Later
<1>7. PongCovers(bs, egs, qq)
  BY <1>1, <1>6 DEF ChannelInv, PongCovers
<1> QED
  BY <1>4, <1>5, <1>7 DEF ChannelInv, qq

(* A request of an id that no pong to come acknowledges.                   *)
LEMMA SendRequest ==
  ASSUME NEW open \in BOOLEAN, NEW bs, NEW egs, NEW pp, NEW m,
         ChannelInv(open, bs, egs, pp), pp # {}, open, NoEvent(egs, Len(egs)),
         m.type # "BS_PING", \A p \in pp : Later(m, p)
  PROVE  ChannelInv(open, Append(bs, m), egs, pp)
<1> DEFINE t == Append(bs, m)
<1>1. /\ Len(bs) \in Nat /\ Len(t) = Len(bs) + 1 /\ IsSeq(t) /\ t[Len(bs) + 1] = m
      /\ \A i \in 1 .. Len(bs) : t[i] = bs[i]
  BY AppendFacts, SeqFacts DEF ChannelInv
<1> HIDE DEF t
<1>2. OneConnection(open, t, egs, pp)
  BY DEF ChannelInv, OneConnection
<1>3. OnePing(t, egs, pp)
  BY <1>1 DEF ChannelInv, OnePing
<1>4. PongCovers(t, egs, pp)
  BY <1>1 DEF ChannelInv, PongCovers
<1> QED
  BY <1>1, <1>2, <1>3, <1>4 DEF ChannelInv, t

(* The EGS only reaches a service whose last event it has read.            *)
LEMMA ReachesMeans ==
  ASSUME NEW open \in BOOLEAN, NEW bs, NEW egs, NEW pp,
         ChannelInv(open, bs, egs, pp), pp # {}, DownMsg \notin ToSet(egs)
  PROVE  NoEvent(egs, Len(egs))
<1>1. /\ Len(egs) \in Nat
      /\ \A j \in 1 .. Len(egs) : egs[j] \in ToSet(egs)
  BY SeqFacts DEF ChannelInv, ToSet
<1>2. \A j \in 1 .. Len(egs) : egs[j].type # "DOWN"
  BY <1>1 DEF ChannelInv, OneConnection
<1>3. \A j \in 1 .. Len(egs) : egs[j].type # "UP"
  <2> SUFFICES ASSUME NEW j \in 1 .. Len(egs), egs[j].type = "UP" PROVE FALSE
    OBVIOUS
  <2>1. PICK i \in 1 .. j - 1 : egs[i].type = "DOWN"
    BY DEF ChannelInv, OneConnection, Closed
  <2> QED
    BY <1>1, <1>2, <2>1
<1> QED
  BY <1>2, <1>3 DEF NoEvent

-----------------------------------------------------------------------------
(* What the service reads and sends.                                       *)

LEMMA ServiceReads ==
  ASSUME NEW open \in BOOLEAN, NEW bs, NEW egs, NEW pp,
         ChannelInv(open, bs, egs, pp), bs # <<>>, Head(bs).type # "BS_PING"
  PROVE  ChannelInv(open, Tail(bs), egs, pp)
<1> DEFINE t == Tail(bs)
<1>1. /\ Len(t) \in Nat /\ Len(bs) = Len(t) + 1 /\ IsSeq(t)
      /\ \A i \in 1 .. Len(t) : t[i] = bs[i + 1]
  BY TailFacts, SeqFacts DEF ChannelInv
<1> HIDE DEF t
<1>2. OneConnection(open, t, egs, pp)
  BY DEF ChannelInv, OneConnection
<1>3. OnePing(t, egs, pp)
  <2>1. \A j \in 1 .. Len(t) : j + 1 \in 1 .. Len(bs) /\ t[j] = bs[j + 1]
    BY <1>1
  <2>2. ASSUME NEW i \in 1 .. Len(t), t[i].type = "BS_PING"
        PROVE  /\ \A j \in 1 .. Len(t) : t[j].type = "BS_PING" => i = j
               /\ \A j \in 1 .. Len(egs) : egs[j].type # "BS_PONG"
    <3>1. \A j \in 1 .. Len(t) : t[j].type = "BS_PING" => i + 1 = j + 1
      BY <2>1, <2>2 DEF ChannelInv, OnePing
    <3> QED
      BY <2>1, <2>2, <3>1 DEF ChannelInv, OnePing
  <2>3. \A p \in pp : p.ready => \A i \in 1 .. Len(t) : t[i].type # "BS_PING"
    BY <2>1 DEF ChannelInv, OnePing
  <2> QED
    BY <2>2, <2>3 DEF ChannelInv, OnePing
<1>4. ASSUME NEW p \in pp, NEW i \in 1 .. Len(t), NEW j \in 1 .. Len(t),
             t[i].type = "BS_PING", i < j
      PROVE  Later(t[j], p)
  <2>1. /\ i + 1 \in 1 .. Len(bs) /\ j + 1 \in 1 .. Len(bs) /\ i + 1 < j + 1
        /\ bs[i + 1].type = "BS_PING" /\ t[j] = bs[j + 1]
    BY <1>1, <1>4
  <2> QED
    BY <2>1 DEF ChannelInv, PongCovers
<1>5. ASSUME NEW p \in pp, NEW i \in 1 .. Len(egs), NEW j \in 1 .. Len(t),
             egs[i].type = "BS_PONG"
      PROVE  Later(t[j], p)
  <2>1. j + 1 \in 1 .. Len(bs) /\ t[j] = bs[j + 1]
    BY <1>1
  <2> QED
    BY <1>5, <2>1 DEF ChannelInv, PongCovers
<1>6. PongCovers(t, egs, pp)
  BY <1>4, <1>5 DEF PongCovers
<1> QED
  BY <1>1, <1>2, <1>3, <1>6 DEF ChannelInv, t

(* Whatever is appended to a connection but a pong and an event.           *)
LEMMA ServiceSends ==
  ASSUME NEW bs, NEW egs, NEW pp, NEW m,
         ChannelInv(TRUE, bs, egs, pp), m.type \notin {"UP", "DOWN", "BS_PONG"}
  PROVE  ChannelInv(TRUE, bs, Append(egs, m), pp)
<1> DEFINE t == Append(egs, m)
<1>1. /\ Len(egs) \in Nat /\ Len(t) = Len(egs) + 1 /\ IsSeq(t) /\ t[Len(egs) + 1] = m
      /\ \A i \in 1 .. Len(egs) : t[i] = egs[i]
  BY AppendFacts, SeqFacts DEF ChannelInv
<1> HIDE DEF t
<1>2. \A n \in 1 .. Len(egs) : Closed(egs, n, pp) => Closed(t, n, pp)
  <2> TAKE n \in 1 .. Len(egs)
  <2>1. n \in 1 .. Len(egs) + 1
    BY <1>1
  <2> QED
    BY <1>1, <2>1, ClosedByPrefix
<1>3. OneConnection(TRUE, bs, t, pp)
  BY <1>1, <1>2 DEF ChannelInv, OneConnection, NoEvent
<1>4. OnePing(bs, t, pp)
  BY <1>1 DEF ChannelInv, OnePing
<1>5. PongCovers(bs, t, pp)
  BY <1>1 DEF ChannelInv, PongCovers
<1> QED
  BY <1>1, <1>3, <1>4, <1>5 DEF ChannelInv, t
(* A ping becomes a pong, and what remains has been sent after the ping.   *)
LEMMA ServiceAnswers ==
  ASSUME NEW open \in BOOLEAN, NEW bs, NEW egs, NEW pp,
         ChannelInv(open, bs, egs, pp), bs # <<>>, Head(bs).type = "BS_PING"
  PROVE  open /\ ChannelInv(open, Tail(bs), Append(egs, PongMsg), pp)
<1> DEFINE t == Tail(bs)
           u == Append(egs, PongMsg)
<1>1. /\ Len(t) \in Nat /\ Len(bs) = Len(t) + 1 /\ IsSeq(t) /\ bs[1].type = "BS_PING"
      /\ \A i \in 1 .. Len(t) : t[i] = bs[i + 1]
  BY TailFacts, SeqFacts DEF ChannelInv
<1>2. /\ Len(egs) \in Nat /\ Len(u) = Len(egs) + 1 /\ IsSeq(u) /\ u[Len(egs) + 1] = PongMsg
      /\ \A i \in 1 .. Len(egs) : u[i] = egs[i]
  BY AppendFacts, SeqFacts DEF ChannelInv
<1> HIDE DEF t, u
<1>3. open /\ pp # {} /\ NoEvent(egs, Len(egs))
  BY DEF ChannelInv, OneConnection
<1>4. \A j \in 1 .. Len(u) : u[j].type \notin {"UP", "DOWN"}
  BY <1>2, <1>3 DEF NoEvent, PongMsg
<1>5. OneConnection(open, t, u, pp)
  BY <1>2, <1>3, <1>4 DEF OneConnection, NoEvent
<1>6. /\ \A i \in 1 .. Len(egs) : egs[i].type # "BS_PONG"
      /\ \A i \in 1 .. Len(bs) : bs[i].type = "BS_PING" => i = 1
      /\ \A p \in pp : ~p.ready
  BY <1>1 DEF ChannelInv, OnePing
<1>7. /\ \A i \in 1 .. Len(t) : t[i].type # "BS_PING"
      /\ \A i \in 1 .. Len(u) : u[i].type = "BS_PONG" => i = Len(u)
  <2>1. \A i \in 1 .. Len(t) : i + 1 \in 1 .. Len(bs) /\ i + 1 # 1
    BY <1>1
  <2>2. \A i \in 1 .. Len(u) : i \in 1 .. Len(egs) \/ i = Len(u)
    BY <1>2
  <2> QED
    BY <1>1, <1>2, <1>6, <2>1, <2>2
<1>8. OnePing(t, u, pp)
  BY <1>6, <1>7 DEF OnePing
<1>9. \A p \in pp : \A j \in 1 .. Len(t) : Later(t[j], p)
  <2> SUFFICES ASSUME NEW p \in pp, NEW j \in 1 .. Len(t) PROVE Later(t[j], p)
    OBVIOUS
  <2>1. 1 \in 1 .. Len(bs) /\ j + 1 \in 1 .. Len(bs) /\ 1 < j + 1 /\ t[j] = bs[j + 1]
    BY <1>1
  <2> QED
    BY <1>1, <2>1 DEF ChannelInv, PongCovers
<1>10. PongCovers(t, u, pp)
  BY <1>7, <1>9 DEF PongCovers
<1> QED
  BY <1>1, <1>2, <1>3, <1>5, <1>8, <1>10 DEF ChannelInv, t, u

-----------------------------------------------------------------------------
(* Connections that open and break.                                        *)

LEMMA Opens ==
  ASSUME NEW bs, NEW egs, NEW pp, ChannelInv(FALSE, bs, egs, pp)
  PROVE  ChannelInv(TRUE, bs, Append(egs, UpMsg), pp)
<1> DEFINE t == Append(egs, UpMsg)
<1>1. /\ Len(egs) \in Nat /\ Len(t) = Len(egs) + 1 /\ IsSeq(t) /\ t[Len(egs) + 1] = UpMsg
      /\ \A i \in 1 .. Len(egs) : t[i] = egs[i]
  BY AppendFacts, SeqFacts DEF ChannelInv
<1> HIDE DEF t
<1>2. \A n \in 1 .. Len(t) : Closed(egs, n, pp) => Closed(t, n, pp)
  BY <1>1, ClosedByPrefix
<1>3. bs = <<>> /\ Closed(egs, Len(t), pp)
  BY <1>1 DEF ChannelInv, OneConnection
<1>4. OneConnection(TRUE, bs, t, pp)
  BY <1>1, <1>2, <1>3 DEF ChannelInv, OneConnection, NoEvent, UpMsg
<1>5. \A i \in 1 .. Len(t) : t[i].type = "BS_PONG" => i \in 1 .. Len(egs) /\ t[i] = egs[i]
  BY <1>1 DEF UpMsg
<1>6. OnePing(bs, t, pp)
  BY <1>5 DEF ChannelInv, OnePing
<1>7. PongCovers(bs, t, pp)
  BY <1>5 DEF ChannelInv, PongCovers
<1> QED
  BY <1>1, <1>4, <1>6, <1>7 DEF ChannelInv, t

(* What has not been sent when it breaks never existed.                    *)
LEMMA Breaks ==
  ASSUME NEW open \in BOOLEAN, NEW bs, NEW egs, NEW pp, ChannelInv(open, bs, egs, pp),
         NEW n \in 0 .. Len(egs),
         \A i \in n + 1 .. Len(egs) : egs[i].type \notin {"UP", "DOWN"}
  PROVE  ChannelInv(FALSE, <<>>, Append(SubSeq(egs, 1, n), DownMsg), pp)
<1> DEFINE front == SubSeq(egs, 1, n)
           t == Append(front, DownMsg)
<1>1. Len(egs) \in Nat /\ n \in Nat
  BY SeqFacts DEF ChannelInv
<1>2. /\ IsSeq(front) /\ Len(front) = n
      /\ \A i \in 1 .. n : front[i] = egs[i]
  BY FrontFacts DEF ChannelInv
<1> HIDE DEF front
<1>3. /\ Len(t) = n + 1 /\ IsSeq(t) /\ t[n + 1] = DownMsg
      /\ \A i \in 1 .. n : t[i] = egs[i]
  BY <1>2, AppendFacts
<1> HIDE DEF t
<1>4. \A j \in 1 .. n : Closed(egs, j, pp) => Closed(t, j, pp)
  BY <1>1, <1>3, ClosedByPrefix
<1>5. Closed(t, Len(t) + 1, pp)
  <2>1. /\ n + 1 \in 1 .. (Len(t) + 1) - 1 /\ t[n + 1].type = "DOWN"
        /\ \A k \in (n + 1) + 1 .. (Len(t) + 1) - 1 : FALSE
    BY <1>1, <1>3 DEF DownMsg
  <2> QED
    BY <2>1 DEF Closed
<1>6. \A i \in 1 .. n : i \in 1 .. Len(egs)
  BY <1>1
<1>7. OneConnection(FALSE, <<>>, t, pp)
  BY <1>1, <1>3, <1>4, <1>5, <1>6 DEF ChannelInv, OneConnection, NoEvent, DownMsg
<1>8. OnePing(<<>>, t, pp)
  BY <1>1, <1>3, <1>6, EmptyIsSeq DEF ChannelInv, OnePing, DownMsg
<1>9. PongCovers(<<>>, t, pp)
  BY EmptyIsSeq DEF PongCovers
<1> QED
  BY <1>3, <1>7, <1>8, <1>9, EmptyIsSeq DEF ChannelInv, t, front
-----------------------------------------------------------------------------
(* The least counterexample, of a property of the numbers up to n.         *)
LEMMA UpToN ==
  ASSUME NEW n \in Nat, NEW Holds, 0 \in Holds,
         \A k \in 0 .. n - 1 : k \in Holds => k + 1 \in Holds
  PROVE  \A k \in 0 .. n : k \in Holds
<1> DEFINE Bad == {k \in 0 .. n : k \notin Holds}
<1> SUFFICES ASSUME Bad # {} PROVE FALSE
  OBVIOUS
<1>1. Bad \subseteq Nat
  OBVIOUS
<1>2. PICK k \in Bad : \A j \in Bad : ~(<<j, k>> \in OpToRel(<, Nat))
  <2> HIDE DEF Bad
  <2> QED
    BY <1>1, NatLessThanWellFounded, WFMin
<1>3. k \in 0 .. n /\ k \notin Holds /\ \A j \in Bad : ~(j < k)
  BY <1>1, <1>2 DEF OpToRel
<1>4. k # 0 /\ k - 1 \in 0 .. n - 1 /\ (k - 1) + 1 = k /\ k - 1 < k
  BY <1>3
<1>5. k - 1 \notin Bad
  BY <1>3, <1>4
<1>6. k - 1 \in Holds
  BY <1>4, <1>5
<1> QED
  BY <1>3, <1>4, <1>6

-----------------------------------------------------------------------------
(* The register: what processCallbacks removes.                            *)

LEMMA UpToExists ==
  ASSUME NEW ids \in Seq(Nat), NEW last \in Nat
  PROVE  /\ UpTo(ids, last) \in 0 .. Len(ids)
         /\ \A i \in 1 .. UpTo(ids, last) : ids[i] <= last
         /\ UpTo(ids, last) < Len(ids) => ids[UpTo(ids, last) + 1] > last
<1> DEFINE Stops == {n \in 0 .. Len(ids) : n < Len(ids) => ids[n + 1] > last}
<1>1. Len(ids) \in Stops /\ Stops \subseteq Nat
  OBVIOUS
<1>2. PICK n \in Stops : \A m \in Stops : ~(<<m, n>> \in OpToRel(<, Nat))
  <2> HIDE DEF Stops
  <2> QED
    BY <1>1, NatLessThanWellFounded, WFMin
<1>3. \A m \in Stops : ~(m < n)
  BY <1>1, <1>2 DEF OpToRel
<1>4. \A i \in 1 .. n : ids[i] <= last
  <2> SUFFICES ASSUME NEW i \in 1 .. n, ~(ids[i] <= last) PROVE FALSE
    OBVIOUS
  <2>1. i - 1 \in 0 .. Len(ids) /\ i \in 1 .. Len(ids) /\ (i - 1) + 1 = i /\ i - 1 < n
    OBVIOUS
  <2>2. i - 1 \in Stops
    <3>1. ids[i] \in Nat
      BY <2>1
    <3> QED
      BY <2>1, <3>1
  <2> QED
    BY <1>3, <2>1, <2>2
<1>5. \E k \in 0 .. Len(ids) :
        /\ \A i \in 1 .. k : ids[i] <= last
        /\ k < Len(ids) => ids[k + 1] > last
  BY <1>4
<1> QED
  BY <1>5 DEF UpTo

LEMMA LeadingFacts ==
  ASSUME NEW n \in Nat, NEW ids \in Seq(0 .. n - 1), NEW last \in Nat
  PROVE  /\ \A i \in ToSet(Leading(ids, last)) : i \in 0 .. n - 1 /\ i <= last
         /\ Trailing(ids, last) \in Seq(0 .. n - 1)
<1> DEFINE k == UpTo(ids, last)
<1>1. k \in 0 .. Len(ids) /\ \A i \in 1 .. k : ids[i] <= last
  <2>1. ids \in Seq(Nat)
    OBVIOUS
  <2> QED
    BY <2>1, UpToExists
<1> HIDE DEF k
<1>2. SubSeq(ids, 1, k) \in Seq(0 .. n - 1) /\ Len(SubSeq(ids, 1, k)) = k
  BY <1>1
<1>3. \A i \in 1 .. k : SubSeq(ids, 1, k)[i] = ids[i]
  BY <1>1
<1>4. \A i \in ToSet(SubSeq(ids, 1, k)) : i \in 0 .. n - 1 /\ i <= last
  BY <1>1, <1>2, <1>3 DEF ToSet
<1>5. SubSeq(ids, k + 1, Len(ids)) \in Seq(0 .. n - 1)
  BY <1>1
<1> QED
  BY <1>4, <1>5 DEF Leading, Trailing, k

LEMMA LastRequestId ==
  ASSUME NEW n \in Nat, NEW ids \in Seq(0 .. n - 1)
  PROVE  /\ getLastRequestId(ids) \in Nat
         /\ getLastRequestId(ids) = 0 \/ getLastRequestId(ids) < n
<1>1. CASE ids = <<>>
  BY <1>1 DEF getLastRequestId
<1>2. CASE ids # <<>>
  <2>1. Len(ids) \in 1 .. Len(ids)
    BY <1>2
  <2>2. ids[Len(ids)] \in 0 .. n - 1
    BY <2>1
  <2> QED
    BY <1>2, <2>2 DEF getLastRequestId
<1> QED
  BY <1>1, <1>2
-----------------------------------------------------------------------------
(* Steps.                                                                  *)

LEMMA AckInvSuffices == AckInv => AcksDoNotOvertake
<1> SUFFICES ASSUME AckInv, NEW b \in BSs, NEW m \in ToSet(toBS[b]),
                    IsWrite(m), b \in ackedBy[m.id]
             PROVE  m.id = 0
  BY DEF AcksDoNotOvertake
<1>1. PICK j \in 1 .. Len(toBS[b]) : m = toBS[b][j]
  BY SeqFacts DEF ToSet, AckInv, ServiceInv, ChannelInv
<1> QED
  BY <1>1 DEF AckInv, ServiceInv, Received

(* A step that changes nothing of any other service.                       *)
OnlyAt(b) ==
  /\ FunctionsInv'
  /\ \A c \in BSs : c # b =>
       /\ link'[c] = link[c] /\ toBS'[c] = toBS[c]
       /\ toEGS'[c] = toEGS[c] /\ pingPongs'[c] = pingPongs[c]

(* Whatever the step does to the register.                                 *)
LEMMA OneService ==
  ASSUME AckInv, NetAssumption, NEW b \in BSs, OnlyAt(b), counter' = counter,
         requestIds' \in Seq(0 .. counter - 1),
         \A i \in RequestIds : /\ ackedBy'[i] \subseteq ackedBy[i] \cup {b}
                               /\ ackedBy'[i] # {} => i < counter,
         ServiceInv(b)'
  PROVE  AckInv'
<1>1. FunctionsInv' /\ IdsInv'
  BY DEF AckInv, OnlyAt, IdsInv
<1>2. ASSUME NEW c \in BSs, c # b PROVE ServiceInv(c)'
  <2>1. /\ toBS'[c] = toBS[c] /\ Known(counter, toBS[c], pingPongs[c])
        /\ Received(toBS[c], c, ackedBy) /\ counter \in 0 .. MaxRequests
    BY <1>2 DEF AckInv, ServiceInv, IdsInv, OnlyAt
  <2>2. ASSUME NEW j \in 1 .. Len(toBS[c]), IsWrite(toBS[c][j]), c \in ackedBy'[toBS[c][j].id]
        PROVE  toBS[c][j].id = 0
    <3>1. toBS[c][j].id \in RequestIds
      BY <2>1, <2>2 DEF Known, RequestIds, NetAssumption
    <3>2. c \in ackedBy[toBS[c][j].id]
      BY <2>2, <3>1, <1>2
    <3> QED
      BY <2>1, <2>2, <3>2 DEF Received
  <2>3. Received(toBS[c], c, ackedBy')
    BY <2>2 DEF Received
  <2> QED
    BY <1>2, <2>3 DEF AckInv, ServiceInv, OnlyAt
<1> QED
  BY <1>1, <1>2 DEF AckInv

(* A step of one connection on which no request is sent.                   *)
LEMMA OneConnectionStep ==
  ASSUME AckInv, NetAssumption, NEW b \in BSs, OnlyAt(b),
         UNCHANGED <<counter, requestIds, ackedBy>>,
         link'[b] \in BOOLEAN, pingPongs'[b] \subseteq [ready : BOOLEAN, last : Nat],
         ChannelInv(link'[b], toBS'[b], toEGS'[b], pingPongs'[b]),
         \A j \in 1 .. Len(toBS'[b]) : \E i \in 1 .. Len(toBS[b]) : toBS'[b][j] = toBS[b][i],
         \A p \in pingPongs'[b] : p.last = 0 \/ p \in pingPongs[b]
  PROVE  AckInv'
<1>1. Known(counter, toBS[b], pingPongs[b]) /\ Received(toBS[b], b, ackedBy)
  BY DEF AckInv, ServiceInv
<1>2. Known(counter, toBS'[b], pingPongs'[b])
  BY <1>1 DEF Known
<1>3. Received(toBS'[b], b, ackedBy)
  BY <1>1 DEF Received
<1>4. /\ requestIds' \in Seq(0 .. counter - 1)
      /\ \A i \in RequestIds : /\ ackedBy'[i] \subseteq ackedBy[i] \cup {b}
                               /\ ackedBy'[i] # {} => i < counter
  BY DEF AckInv, IdsInv
<1>5. ServiceInv(b)'
  BY <1>2, <1>3 DEF ServiceInv
<1> QED
  BY <1>4, <1>5, OneService

LEMMA Unaffected ==
  ASSUME AckInv, UNCHANGED <<netVars, pingPongs, counter, requestIds, ackedBy>>
  PROVE  AckInv'
BY DEF AckInv, FunctionsInv, IdsInv, ServiceInv, netVars

LEMMA At ==
  ASSUME AckInv, NEW b \in BSs
  PROVE  /\ link[b] \in BOOLEAN
         /\ pingPongs[b] \subseteq [ready : BOOLEAN, last : Nat]
         /\ ChannelInv(link[b], toBS[b], toEGS[b], pingPongs[b])
         /\ IsSeq(toBS[b]) /\ IsSeq(toEGS[b])
  BY DEF AckInv, ServiceInv, ChannelInv

(* A message of the service that is not a pong.                            *)
LEMMA TellingKeepsAckInv ==
  ASSUME AckInv, NetAssumption, NEW b \in BSs, NEW m,
         m.type \notin {"UP", "DOWN", "BS_PONG"}, SendEGS(b, m),
         UNCHANGED <<link, toBS, pingPongs, counter, requestIds, ackedBy>>
  PROVE  AckInv'
<1>1. OnlyAt(b) /\ toEGS'[b] = IF link[b] THEN Append(toEGS[b], m) ELSE toEGS[b]
  BY DEF OnlyAt, AckInv, FunctionsInv, SendEGS
<1>2. ChannelInv(link[b], toBS[b], toEGS'[b], pingPongs[b])
  <2>1. CASE link[b] = TRUE
    <3>1. ChannelInv(TRUE, toBS[b], toEGS[b], pingPongs[b])
      BY <2>1, At
    <3> QED
      BY <1>1, <2>1, <3>1, ServiceSends
  <2>2. CASE link[b] = FALSE
    BY <1>1, <2>2, At
  <2> QED
    BY <2>1, <2>2, At
<1> QED
  BY <1>1, <1>2, At, OneConnectionStep

(* The service reads a request.                                            *)
LEMMA RequestReadKeepsAckInv ==
  ASSUME AckInv, NetAssumption, NEW b \in BSs, toBS[b] # <<>>,
         Head(toBS[b]).type # "BS_PING", toBS' = [toBS EXCEPT ![b] = Tail(@)],
         UNCHANGED <<link, toEGS, pingPongs, counter, requestIds, ackedBy>>
  PROVE  AckInv'
<1>1. OnlyAt(b) /\ toBS'[b] = Tail(toBS[b])
  BY DEF OnlyAt, AckInv, FunctionsInv
<1>2. ChannelInv(link[b], toBS'[b], toEGS[b], pingPongs[b])
  BY <1>1, At, ServiceReads
<1>3. \A j \in 1 .. Len(toBS'[b]) : \E i \in 1 .. Len(toBS[b]) : toBS'[b][j] = toBS[b][i]
  <2>1. /\ Len(toBS[b]) \in Nat /\ Len(toBS'[b]) = Len(toBS[b]) - 1
        /\ \A j \in 1 .. Len(toBS[b]) - 1 : toBS'[b][j] = toBS[b][j + 1]
    BY <1>1, At, TailFacts, SeqFacts
  <2>2. \A j \in 1 .. Len(toBS'[b]) : j + 1 \in 1 .. Len(toBS[b]) /\ toBS'[b][j] = toBS[b][j + 1]
    BY <2>1
  <2> QED
    BY <2>2
<1> QED
  BY <1>1, <1>2, <1>3, At, OneConnectionStep

LEMMA PingReadKeepsAckInv ==
  ASSUME AckInv, NetAssumption, NEW b \in BSs, BSPing(b), UNCHANGED egsVars
  PROVE  AckInv'
<1>1. /\ toBS[b] # <<>> /\ Head(toBS[b]).type = "BS_PING"
      /\ toBS' = [toBS EXCEPT ![b] = Tail(toBS[b])] /\ SendEGS(b, PongMsg)
      /\ UNCHANGED <<link, pingPongs, counter, requestIds, ackedBy>>
  BY DEF BSPing, BSReads, egsVars
<1>2. link[b] /\ ChannelInv(link[b], Tail(toBS[b]), Append(toEGS[b], PongMsg), pingPongs[b])
  BY <1>1, At, ServiceAnswers
<1>3. /\ OnlyAt(b) /\ toBS'[b] = Tail(toBS[b])
      /\ toEGS'[b] = Append(toEGS[b], PongMsg)
  BY <1>1, <1>2 DEF OnlyAt, AckInv, FunctionsInv, SendEGS
<1>4. \A j \in 1 .. Len(toBS'[b]) : \E i \in 1 .. Len(toBS[b]) : toBS'[b][j] = toBS[b][i]
  <2>1. /\ Len(toBS[b]) \in Nat /\ Len(toBS'[b]) = Len(toBS[b]) - 1
        /\ \A j \in 1 .. Len(toBS[b]) - 1 : toBS'[b][j] = toBS[b][j + 1]
    BY <1>1, <1>3, At, TailFacts, SeqFacts
  <2>2. \A j \in 1 .. Len(toBS'[b]) : j + 1 \in 1 .. Len(toBS[b]) /\ toBS'[b][j] = toBS[b][j + 1]
    BY <2>1
  <2> QED
    BY <2>2
<1> QED
  BY <1>1, <1>2, <1>3, <1>4, At, OneConnectionStep

LEMMA ConnectKeepsAckInv ==
  ASSUME AckInv, NetAssumption, NEW b \in BSs, BSConnection(b), UNCHANGED egsVars
  PROVE  AckInv'
<1>1. /\ link[b] = FALSE /\ OnlyAt(b) /\ link'[b] = TRUE
      /\ toEGS'[b] = toEGS[b] \o Greeting(b)
      /\ UNCHANGED <<toBS, pingPongs, counter, requestIds, ackedBy>>
  BY At DEF BSConnection, egsVars, OnlyAt, AckInv, FunctionsInv
<1>2. ChannelInv(FALSE, toBS[b], toEGS[b], pingPongs[b])
  BY <1>1, At
<1>3. ChannelInv(TRUE, toBS[b], Append(toEGS[b], UpMsg), pingPongs[b])
  BY <1>2, Opens
<1>4. ChannelInv(TRUE, toBS[b], toEGS[b] \o Greeting(b), pingPongs[b])
  <2>1. CASE Greeting(b) = <<UpMsg>>
    <3>1. toEGS[b] \o <<UpMsg>> = Append(toEGS[b], UpMsg)
      BY At, AppendIsOne
    <3> QED
      BY <1>3, <2>1, <3>1
  <2>2. CASE Greeting(b) = <<UpMsg, StallMsg(TRUE)>>
    <3>1. toEGS[b] \o <<UpMsg, StallMsg(TRUE)>>
            = Append(Append(toEGS[b], UpMsg), StallMsg(TRUE))
      <4>1. IsSeq(toEGS[b])
        BY At
      <4>2. \A e, f : toEGS[b] \o <<e, f>> = Append(Append(toEGS[b], e), f)
        BY <4>1, AppendIsOne
      <4> QED
        BY <4>2
    <3>2. StallMsg(TRUE).type \notin {"UP", "DOWN", "BS_PONG"}
      BY DEF StallMsg
    <3> QED
      BY <1>3, <2>2, <3>1, <3>2, ServiceSends
  <2> QED
    BY <2>1, <2>2 DEF Greeting
<1>5. \A j \in 1 .. Len(toBS'[b]) : \E i \in 1 .. Len(toBS[b]) : toBS'[b][j] = toBS[b][i]
  BY <1>1
<1>6. ChannelInv(link'[b], toBS'[b], toEGS'[b], pingPongs'[b])
  BY <1>1, <1>4
<1> QED
  BY <1>1, <1>5, <1>6, At, OneConnectionStep

LEMMA BreakKeepsAckInv ==
  ASSUME AckInv, NetAssumption, NEW b \in BSs, BreakLink(b), UNCHANGED egsVars
  PROVE  AckInv'
<1>1. UNCHANGED <<pingPongs, counter, requestIds, ackedBy>>
  BY DEF egsVars
<1>2. OnlyAt(b) /\ link'[b] = FALSE /\ toBS'[b] = <<>>
  BY <1>1 DEF BreakLink, OnlyAt, AckInv, FunctionsInv
<1>3. ChannelInv(FALSE, <<>>, toEGS'[b], pingPongs[b])
  <2>1. CASE link[b]
    <3>1. PICK n \in 0 .. Len(toEGS[b]) :
            /\ \A i \in n + 1 .. Len(toEGS[b]) : toEGS[b][i].type \notin {"UP", "DOWN"}
            /\ toEGS' = [toEGS EXCEPT ![b] = Append(SubSeq(toEGS[b], 1, n), DownMsg)]
      BY <2>1 DEF BreakLink
    <3>2. ChannelInv(FALSE, <<>>, Append(SubSeq(toEGS[b], 1, n), DownMsg), pingPongs[b])
      BY <3>1, At, Breaks
    <3>3. toEGS'[b] = Append(SubSeq(toEGS[b], 1, n), DownMsg)
      BY <3>1 DEF AckInv, FunctionsInv
    <3> QED
      BY <3>2, <3>3
  <2>2. CASE ~link[b]
    <3>1. toEGS' = toEGS /\ link[b] = FALSE /\ toBS[b] = <<>>
      BY <2>2, At DEF BreakLink, ChannelInv, OneConnection
    <3> QED
      BY <3>1, At
  <2> QED
    BY <2>1, <2>2
<1>4. \A j \in 1 .. Len(toBS'[b]) : \E i \in 1 .. Len(toBS[b]) : toBS'[b][j] = toBS[b][i]
  BY <1>2, EmptyIsSeq
<1>5. ChannelInv(link'[b], toBS'[b], toEGS'[b], pingPongs'[b])
  BY <1>1, <1>2, <1>3
<1> QED
  BY <1>1, <1>2, <1>4, <1>5, At, OneConnectionStep
-----------------------------------------------------------------------------
(* Steps of the EGS.                                                       *)

LEMMA EGSReadsAt ==
  ASSUME AckInv, NEW b \in BSs, NEW t, EGSReads(b, t)
  PROVE  /\ toEGS[b] # <<>> /\ Head(toEGS[b]).type = t
         /\ toEGS'[b] = Tail(toEGS[b])
         /\ link' = link /\ toBS' = toBS
         /\ \/ \E pp : pingPongs' = [pingPongs EXCEPT ![b] = pp]
            \/ pingPongs' = pingPongs
            => OnlyAt(b)
  BY DEF EGSReads, OnlyAt, AckInv, FunctionsInv

(* An event, or a message without consequence for the register.            *)
LEMMA EventKeepsAckInv ==
  ASSUME AckInv, NetAssumption, NEW b \in BSs,
         \/ cbBSConnection(b) \/ cbBSDisconnection(b) \/ cbFile(b) \/ cbStallMode(b)
  PROVE  AckInv'
<1>1. UNCHANGED <<counter, requestIds, ackedBy>>
  BY DEF cbBSConnection, cbBSDisconnection, cbFile, cbStallMode
<1>2. \A j \in 1 .. Len(toBS[b]) : \E i \in 1 .. Len(toBS[b]) : toBS[b][j] = toBS[b][i]
  OBVIOUS
<1>3. CASE cbBSConnection(b)
  <2>1. EGSReads(b, "UP") /\ pingPongs' = [pingPongs EXCEPT ![b] = {NewPingPong}]
    BY <1>3 DEF cbBSConnection
  <2>2. OnlyAt(b) /\ pingPongs'[b] = {NewPingPong}
    BY <2>1, EGSReadsAt DEF AckInv, FunctionsInv
  <2>3. ChannelInv(link[b], toBS[b], Tail(toEGS[b]), {NewPingPong})
    BY <2>1, EGSReadsAt, At, ReadUp
  <2>4. NewPingPong \in [ready : BOOLEAN, last : Nat] /\ NewPingPong.last = 0
    BY DEF NewPingPong
  <2>5. ChannelInv(link'[b], toBS'[b], toEGS'[b], pingPongs'[b])
    BY <2>1, <2>2, <2>3, EGSReadsAt
  <2> QED
    BY <1>1, <1>2, <2>1, <2>2, <2>4, <2>5, EGSReadsAt, At, OneConnectionStep
<1>4. CASE cbBSDisconnection(b)
  <2>1. EGSReads(b, "DOWN") /\ pingPongs' = [pingPongs EXCEPT ![b] = {}]
    BY <1>4 DEF cbBSDisconnection
  <2>2. OnlyAt(b) /\ pingPongs'[b] = {}
    BY <2>1, EGSReadsAt DEF AckInv, FunctionsInv
  <2>3. ChannelInv(link[b], toBS[b], Tail(toEGS[b]), {})
    BY <2>1, EGSReadsAt, At, ReadDown
  <2>4. ChannelInv(link'[b], toBS'[b], toEGS'[b], pingPongs'[b])
    BY <2>1, <2>2, <2>3, EGSReadsAt
  <2> QED
    BY <1>1, <1>2, <2>1, <2>2, <2>4, EGSReadsAt, At, OneConnectionStep
<1>5. CASE cbFile(b) \/ cbStallMode(b)
  <2>1. PICK t \in {"bs_file", "STALL_MODE"} : EGSReads(b, t)
    BY <1>5 DEF cbFile, cbStallMode
  <2>2. OnlyAt(b) /\ pingPongs' = pingPongs
    BY <1>5, <2>1, EGSReadsAt DEF AckInv, FunctionsInv, cbFile, cbStallMode
  <2>3. ChannelInv(link[b], toBS[b], Tail(toEGS[b]), pingPongs[b])
    BY <2>1, EGSReadsAt, At, ReadOther
  <2>4. ChannelInv(link'[b], toBS'[b], toEGS'[b], pingPongs'[b])
    BY <2>1, <2>2, <2>3, EGSReadsAt
  <2> QED
    BY <1>1, <1>2, <2>1, <2>2, <2>4, EGSReadsAt, At, OneConnectionStep
<1> QED
  BY <1>3, <1>4, <1>5

(* The pong acknowledges what is not later than its ping, and of that the  *)
(* service has nothing to read.                                            *)
LEMMA PongKeepsAckInv ==
  ASSUME AckInv, NetAssumption, NEW b \in BSs, cbBSPingPong(b)
  PROVE  AckInv'
<1> DEFINE l == getLastRequestId(requestIds')
<1>1. /\ EGSReads(b, "BS_PONG") /\ counter' = counter
      /\ pingPongs' = [pingPongs EXCEPT ![b] = {[ready |-> TRUE, last |-> l]}]
  BY DEF cbBSPingPong
<1>2. PICK p \in pingPongs[b] :
        /\ requestIds' = Trailing(requestIds, p.last)
        /\ ackedBy' = [i \in RequestIds |->
             IF i \in ToSet(Leading(requestIds, p.last)) THEN ackedBy[i] \cup {b}
             ELSE ackedBy[i]]
  BY DEF cbBSPingPong, processCallbacks, Acknowledges
<1>3. counter \in Nat /\ requestIds \in Seq(0 .. counter - 1) /\ p.last \in Nat
  BY At DEF AckInv, IdsInv, NetAssumption
<1>4. /\ \A i \in ToSet(Leading(requestIds, p.last)) : i \in 0 .. counter - 1 /\ i <= p.last
      /\ requestIds' \in Seq(0 .. counter - 1)
  BY <1>2, <1>3, LeadingFacts
<1>5. l \in Nat /\ (l = 0 \/ l < counter)
  BY <1>3, <1>4, LastRequestId
<1> HIDE DEF l
<1>6. OnlyAt(b) /\ pingPongs'[b] = {[ready |-> TRUE, last |-> l]}
  BY <1>1, EGSReadsAt DEF AckInv, FunctionsInv
<1>7. ChannelInv(link[b], toBS[b], Tail(toEGS[b]), {[ready |-> TRUE, last |-> l]})
  BY <1>1, EGSReadsAt, At, ReadPong
<1>8. ChannelInv(link'[b], toBS'[b], toEGS'[b], pingPongs'[b])
  BY <1>1, <1>6, <1>7, EGSReadsAt
<1>9. \A j \in 1 .. Len(toBS[b]) : Later(toBS[b][j], p)
  <2>1. IsSeq(toEGS[b]) /\ toEGS[b] # <<>> /\ Head(toEGS[b]).type = "BS_PONG"
    BY <1>1, EGSReadsAt, At
  <2>2. 1 \in 1 .. Len(toEGS[b]) /\ toEGS[b][1].type = "BS_PONG"
    BY <2>1, TailFacts, SeqFacts
  <2> QED
    BY <2>2, At DEF ChannelInv, PongCovers
<1>10. Received(toBS[b], b, ackedBy')
  <2> SUFFICES ASSUME NEW j \in 1 .. Len(toBS[b]), IsWrite(toBS[b][j]),
                      b \in ackedBy'[toBS[b][j].id]
               PROVE  toBS[b][j].id = 0
    BY DEF Received
  <2> DEFINE i == toBS[b][j].id
  <2>1. i \in 0 .. counter - 1 /\ i \in RequestIds
    BY DEF AckInv, ServiceInv, Known, IdsInv, RequestIds, NetAssumption
  <2>2. CASE b \in ackedBy[i]
    BY <2>2 DEF AckInv, ServiceInv, Received
  <2>3. CASE i \in ToSet(Leading(requestIds, p.last))
    <3>1. i <= p.last /\ (i = 0 \/ i > p.last)
      BY <2>3, <1>4, <1>9 DEF Later
    <3> QED
      BY <3>1, <2>1, <1>3
  <2> HIDE DEF i
  <2> QED
    BY <1>2, <2>1, <2>2, <2>3 DEF i
<1>11. Known(counter, toBS[b], pingPongs'[b])
  BY <1>5, <1>6 DEF AckInv, ServiceInv, Known
<1>12. ServiceInv(b)'
  <2>1. counter' = counter /\ link' = link /\ toBS' = toBS /\ link[b] \in BOOLEAN
    BY <1>1, EGSReadsAt, At
  <2>2. pingPongs'[b] \subseteq [ready : BOOLEAN, last : Nat]
    BY <1>5, <1>6
  <2> QED
    BY <1>8, <1>10, <1>11, <2>1, <2>2 DEF ServiceInv
<1>13. \A i \in RequestIds : /\ ackedBy'[i] \subseteq ackedBy[i] \cup {b}
                             /\ ackedBy'[i] # {} => i < counter
  BY <1>2, <1>3, <1>4 DEF AckInv, IdsInv
<1> QED
  BY <1>1, <1>4, <1>6, <1>12, <1>13, OneService
(* A request has the next id, which no pong has acknowledged and none that *)
(* is awaited will.                                                        *)
LEMMA RequestKeepsAckInv ==
  ASSUME AckInv, NetAssumption, counter < MaxRequests, NEW m,
         m.type # "BS_PING", m.id = counter, SendBSs(Connected, m), counter' = counter + 1,
         requestIds' \in {requestIds, Append(requestIds, counter)},
         UNCHANGED <<link, toEGS, pingPongs, ackedBy>>
  PROVE  AckInv'
<1>1. counter \in Nat /\ requestIds \in Seq(0 .. counter - 1) /\ counter \in RequestIds
  BY DEF AckInv, IdsInv, NetAssumption, RequestIds
<1>2. IdsInv'
  <2>1. counter' \in 0 .. MaxRequests
    BY <1>1 DEF NetAssumption
  <2>2. requestIds \in Seq(0 .. counter) /\ Append(requestIds, counter) \in Seq(0 .. counter)
    <3>1. requestIds \in Seq(0 .. counter) /\ counter \in 0 .. counter
      BY <1>1
    <3> QED
      BY <3>1
  <2>3. requestIds' \in Seq(0 .. counter' - 1)
    <3>1. counter' - 1 = counter
      BY <1>1
    <3> QED
      BY <2>2, <3>1
  <2>4. \A i \in RequestIds : ackedBy'[i] # {} => i < counter'
    BY <1>1 DEF AckInv, IdsInv, RequestIds
  <2> QED
    BY <2>1, <2>3, <2>4 DEF IdsInv
<1>3. FunctionsInv'
  BY DEF AckInv, FunctionsInv, SendBSs
<1>4. ASSUME NEW b \in BSs PROVE ServiceInv(b)'
  <2>1. Known(counter, toBS[b], pingPongs[b]) /\ Received(toBS[b], b, ackedBy)
    BY DEF AckInv, ServiceInv
  <2>2. Known(counter', toBS[b], pingPongs[b])
    BY <1>1, <2>1 DEF Known
  <2>3. CASE toBS'[b] = toBS[b]
    BY <2>1, <2>2, <2>3, At DEF ServiceInv
  <2>4. CASE b \in Connected /\ Reaches(b) /\ toBS'[b] = Append(toBS[b], m)
    <3>1. /\ Len(toBS[b]) \in Nat /\ Len(toBS'[b]) = Len(toBS[b]) + 1
          /\ toBS'[b][Len(toBS[b]) + 1] = m
          /\ \A i \in 1 .. Len(toBS[b]) : toBS'[b][i] = toBS[b][i]
      BY <2>4, At, AppendFacts, SeqFacts
    <3>2. pingPongs[b] # {} /\ link[b] /\ DownMsg \notin ToSet(toEGS[b])
      BY <2>4 DEF Connected, Reaches
    <3>3. NoEvent(toEGS[b], Len(toEGS[b]))
      BY <3>2, At, ReachesMeans
    <3>4. \A p \in pingPongs[b] : Later(m, p)
      BY <1>1, <2>1 DEF Known, Later
    <3>5. ChannelInv(link[b], toBS'[b], toEGS[b], pingPongs[b])
      <4>1. link[b] \in BOOLEAN /\ ChannelInv(link[b], toBS[b], toEGS[b], pingPongs[b])
        BY At
      <4>2. ChannelInv(link[b], Append(toBS[b], m), toEGS[b], pingPongs[b])
        BY <3>2, <3>3, <3>4, <4>1, SendRequest
      <4> QED
        BY <2>4, <4>2
    <3>6. Known(counter', toBS'[b], pingPongs[b])
      <4>1. \A j \in 1 .. Len(toBS'[b]) : j \in 1 .. Len(toBS[b]) \/ toBS'[b][j] = m
        BY <3>1
      <4>2. m.id \in 0 .. counter' - 1
        BY <1>1
      <4> QED
        BY <2>2, <3>1, <4>1, <4>2 DEF Known
    <3>7. Received(toBS'[b], b, ackedBy)
      <4>1. \A j \in 1 .. Len(toBS'[b]) : j \in 1 .. Len(toBS[b]) \/ toBS'[b][j] = m
        BY <3>1
      <4>2. b \notin ackedBy[m.id]
        BY <1>1 DEF AckInv, IdsInv
      <4> QED
        BY <2>1, <3>1, <4>1, <4>2 DEF Received
    <3> QED
      BY <3>5, <3>6, <3>7, At DEF ServiceInv
  <2> QED
    BY <2>3, <2>4 DEF SendBSs
<1> QED
  BY <1>2, <1>3, <1>4 DEF AckInv

(* A ping to each service that has answered the one before.                *)
LEMMA UpdateKeepsAckInv ==
  ASSUME AckInv, NetAssumption, EGSServiceUpdate
  PROVE  AckInv'
<1> DEFINE ready == {b \in BSs : \E p \in pingPongs[b] : p.ready}
<1>1. /\ SendBSs(ready, PingMsg)
      /\ pingPongs' = [b \in BSs |-> {[p EXCEPT !.ready = FALSE] : p \in pingPongs[b]}]
      /\ UNCHANGED <<link, toEGS, counter, requestIds, ackedBy>>
  BY DEF EGSServiceUpdate
<1>2. FunctionsInv' /\ IdsInv'
  BY <1>1 DEF AckInv, FunctionsInv, IdsInv, SendBSs
<1>3. ASSUME NEW b \in BSs PROVE ServiceInv(b)'
  <2> DEFINE qq == {[p EXCEPT !.ready = FALSE] : p \in pingPongs[b]}
  <2>1. pingPongs'[b] = qq
    BY <1>1
  <2>2. /\ Known(counter, toBS[b], pingPongs[b]) /\ Received(toBS[b], b, ackedBy)
        /\ pingPongs[b] \subseteq [ready : BOOLEAN, last : Nat]
    BY DEF AckInv, ServiceInv
  <2>3. /\ qq \subseteq [ready : BOOLEAN, last : Nat]
        /\ \A q \in qq : \E p \in pingPongs[b] : q.last = p.last
    BY <2>2
  <2>4. ChannelInv(link[b], toBS[b], toEGS[b], qq)
    BY <2>2, At, NotReady
  <2>5. ASSUME b \in ready, Reaches(b)
        PROVE  ChannelInv(link[b], Append(toBS[b], PingMsg), toEGS[b], qq)
    <3>1. /\ \E p \in pingPongs[b] : p.ready
          /\ link[b] /\ DownMsg \notin ToSet(toEGS[b])
      BY <2>5 DEF Reaches
    <3>2. NoEvent(toEGS[b], Len(toEGS[b]))
      BY <3>1, At, ReachesMeans
    <3> QED
      BY <2>2, <3>1, <3>2, At, SendPing
  <2>6. toBS'[b] = IF b \in ready /\ Reaches(b) THEN Append(toBS[b], PingMsg) ELSE toBS[b]
    BY <1>1 DEF SendBSs
  <2> HIDE DEF ready, qq
  <2>7. ChannelInv(link[b], toBS'[b], toEGS[b], qq)
    BY <2>4, <2>5, <2>6
  <2>8. \A j \in 1 .. Len(toBS'[b]) :
          IsWrite(toBS'[b][j]) => j \in 1 .. Len(toBS[b]) /\ toBS'[b][j] = toBS[b][j]
    <3>1. CASE toBS'[b] = toBS[b]
      BY <3>1
    <3>2. CASE toBS'[b] = Append(toBS[b], PingMsg)
      <4>1. /\ Len(toBS[b]) \in Nat /\ Len(toBS'[b]) = Len(toBS[b]) + 1
            /\ toBS'[b][Len(toBS[b]) + 1] = PingMsg
            /\ \A i \in 1 .. Len(toBS[b]) : toBS'[b][i] = toBS[b][i]
        BY <3>2, At, AppendFacts, SeqFacts
      <4>2. ~IsWrite(PingMsg)
        BY DEF IsWrite, Writes, PingMsg
      <4>3. \A j \in 1 .. Len(toBS'[b]) : j \in 1 .. Len(toBS[b]) \/ j = Len(toBS[b]) + 1
        BY <4>1
      <4> QED
        BY <4>1, <4>2, <4>3
    <3> QED
      BY <2>6, <3>1, <3>2
  <2>9. Known(counter, toBS'[b], qq)
    BY <2>2, <2>3, <2>8 DEF Known
  <2>10. Received(toBS'[b], b, ackedBy)
    BY <2>2, <2>8 DEF Received
  <2> QED
    BY <1>1, <2>1, <2>3, <2>7, <2>9, <2>10, At DEF ServiceInv
<1> QED
  BY <1>2, <1>3 DEF AckInv
-----------------------------------------------------------------------------
(* The theorem.                                                            *)

LEMMA AckInit == NetAssumption /\ Init => AckInv
<1> SUFFICES ASSUME NetAssumption, Init PROVE AckInv
  OBVIOUS
<1>1. FunctionsInv
  BY DEF FunctionsInv, Init, NetInit, EGSInit
<1>2. IdsInv
  BY DEF IdsInv, NetAssumption, Init, EGSInit
<1>3. ASSUME NEW b \in BSs PROVE ServiceInv(b)
  <2>1. link[b] = FALSE /\ toBS[b] = <<>> /\ toEGS[b] = <<>> /\ pingPongs[b] = {}
    BY DEF Init, NetInit, EGSInit
  <2>2. Closed(<<>>, Len(<<>>) + 1, {})
    BY EmptyIsSeq DEF Closed
  <2>3. ChannelInv(FALSE, <<>>, <<>>, {})
    BY <2>2, EmptyIsSeq DEF ChannelInv, OneConnection, OnePing, PongCovers
  <2>4. Known(counter, <<>>, {}) /\ Received(<<>>, b, ackedBy)
    BY EmptyIsSeq DEF Known, Received
  <2> QED
    BY <2>1, <2>3, <2>4 DEF ServiceInv
<1> QED
  BY <1>1, <1>2, <1>3 DEF AckInv

(* What a step of the EGS does, by the operation.                          *)
LEMMA AckStepEGS ==
  ASSUME NetAssumption, AckInv,
         \/ \E f \in Files, t \in Writes, cb \in BOOLEAN : Write(t, f, cb)
         \/ \E f \in Files : RequestFile(f)
         \/ ServiceUpdate
         \/ \E b \in BSs : EGSStep(b)
  PROVE  AckInv'
<1>1. ASSUME NEW f \in Files, NEW t \in Writes, NEW cb \in BOOLEAN, Write(t, f, cb)
      PROVE  AckInv'
  <2> DEFINE m == Request(t, counter, f)
  <2>1. /\ counter < MaxRequests /\ SendBSs(Connected, m) /\ counter' = counter + 1
        /\ requestIds' \in {requestIds, Append(requestIds, counter)}
        /\ UNCHANGED <<link, toEGS, pingPongs, ackedBy>>
    BY <1>1 DEF Write, EGSWrite
  <2>2. m.type # "BS_PING" /\ m.id = counter
    BY DEF Request, Writes
  <2> HIDE DEF m
  <2> QED
    BY <2>1, <2>2, RequestKeepsAckInv
<1>2. ASSUME NEW f \in Files, RequestFile(f) PROVE AckInv'
  <2> DEFINE m == Request("load", counter, f)
  <2>1. /\ counter < MaxRequests /\ SendBSs(Connected, m) /\ counter' = counter + 1
        /\ requestIds' \in {requestIds, Append(requestIds, counter)}
        /\ UNCHANGED <<link, toEGS, pingPongs, ackedBy>>
    BY <1>2 DEF RequestFile, EGSRequestFile
  <2>2. m.type # "BS_PING" /\ m.id = counter
    BY DEF Request
  <2> HIDE DEF m
  <2> QED
    BY <2>1, <2>2, RequestKeepsAckInv
<1>3. CASE ServiceUpdate
  BY <1>3, UpdateKeepsAckInv DEF ServiceUpdate
<1>4. ASSUME NEW b \in BSs, EGSStep(b) PROVE AckInv'
  BY <1>4, EventKeepsAckInv, PongKeepsAckInv
     DEF EGSStep, Connection, Disconnection, PingPongs, File, StallMode
<1> QED
  BY <1>1, <1>2, <1>3, <1>4

(* An answer is sent, or has nowhere to go.                                *)
LEMMA ReplyFacts ==
  ASSUME AckInv, NEW b \in BSs, NEW m, Reply(b, m)
  PROVE  SendEGS(b, m) \/ UNCHANGED toEGS
<1>1. toEGS = [c \in BSs |-> toEGS[c]]
  BY DEF AckInv, FunctionsInv
<1>2. CASE link[b] /\ Head(accesses[b]).id \notin stale[b]
  BY <1>2 DEF Reply, SendEGS
<1>3. CASE ~(link[b] /\ Head(accesses[b]).id \notin stale[b])
  BY <1>1, <1>3 DEF Reply
<1> QED
  BY <1>2, <1>3

(* What a step of a service, of an operator or of the network does.        *)
LEMMA AckStepService ==
  ASSUME NetAssumption, AckInv, NEW b \in BSs,
         \/ NetworkStep(b) \/ Connect(b) \/ UpdateStep(b)
         \/ LoadFails(b) \/ DeleteFails(b) \/ WriteFails(b)
         \/ StallShard(b) \/ ResumeShard(b) \/ RemoveFileAccess(b)
         \/ Crash(b) \/ Restart(b) \/ Break(b) \/ MasterBreak(b)
  PROVE  AckInv'
<1>1. UNCHANGED egsVars
  BY DEF NetworkStep, WriteFile, LoadFile, Ping, MasterDown, Connect, UpdateStep, Load, Delete,
         OpenAndWrite, CloseDelete, CloseMove, LoadFails, DeleteFails, WriteFails, StallShard,
         ResumeShard, RemoveFileAccess, Crash, Restart, Break, MasterBreak, Local
<1>2. UNCHANGED <<pingPongs, counter, requestIds, ackedBy>>
  BY <1>1 DEF egsVars
<1>3. CASE WriteFile(b) \/ LoadFile(b)
  <2>1. /\ toBS[b] # <<>> /\ Head(toBS[b]).type # "BS_PING"
        /\ toBS' = [toBS EXCEPT ![b] = Tail(@)] /\ UNCHANGED <<link, toEGS>>
    BY <1>3 DEF WriteFile, BSWriteFile, LoadFile, BSLoadFile, BSReads, Writes
  <2> QED
    BY <1>2, <2>1, RequestReadKeepsAckInv
<1>4. CASE Ping(b)
  BY <1>1, <1>4, PingReadKeepsAckInv DEF Ping
<1>5. CASE \/ MasterDown(b) \/ Delete(b) \/ OpenAndWrite(b) \/ CloseDelete(b) \/ CloseMove(b)
           \/ DeleteFails(b) \/ RemoveFileAccess(b) \/ Restart(b) \/ MasterBreak(b)
  <2>1. UNCHANGED netVars
    BY <1>5 DEF MasterDown, BSMasterDown, Delete, ExecuteDelete, OpenAndWrite, ExecuteWrite,
       CloseDelete, CloseDeletes, CloseMove, CloseMoves, DeleteFails, FailDelete,
       RemoveFileAccess, BSRemoveFileAccess, Restart, BSRestart, MasterBreak, BSLosesMaster
  <2> QED
    BY <1>2, <2>1, Unaffected
<1>6. CASE Connect(b)
  BY <1>1, <1>6, ConnectKeepsAckInv DEF Connect
<1>7. CASE Load(b) \/ LoadFails(b)
  <2>1. PICK c : Answer(b, c)
    BY <1>7 DEF Load, ExecuteLoad, LoadFails, FailLoad
  <2>2. /\ SendEGS(b, FileMsg(Head(accesses[b]).id, c)) \/ UNCHANGED toEGS
        /\ UNCHANGED <<link, toBS>>
    BY <2>1, ReplyFacts DEF Answer
  <2>3. FileMsg(Head(accesses[b]).id, c).type \notin {"UP", "DOWN", "BS_PONG"}
    BY DEF FileMsg
  <2> QED
    BY <1>2, <2>2, <2>3, TellingKeepsAckInv, Unaffected DEF netVars
<1>8. CASE WriteFails(b) \/ StallShard(b) \/ ResumeShard(b)
  <2>1. PICK m : setMode(b, m) /\ UNCHANGED <<link, toBS>>
    BY <1>8 DEF WriteFails, FailWrite, StallShard, ResumeShard, BSSetMode
  <2>2. CASE SendEGS(b, StallMsg(m # "Normal"))
    <3>1. StallMsg(m # "Normal").type \notin {"UP", "DOWN", "BS_PONG"}
      BY DEF StallMsg
    <3> QED
      BY <1>2, <2>1, <2>2, <3>1, TellingKeepsAckInv
  <2>3. CASE UNCHANGED toEGS
    BY <1>2, <2>1, <2>3, Unaffected DEF netVars
  <2> QED
    BY <2>1, <2>2, <2>3 DEF setMode
<1>9. CASE Crash(b) \/ Break(b)
  BY <1>1, <1>9, BreakKeepsAckInv DEF Crash, BSCrash, Break
<1> QED
  BY <1>3, <1>4, <1>5, <1>6, <1>7, <1>8, <1>9 DEF NetworkStep, UpdateStep

LEMMA AckStep == NetAssumption /\ AckInv /\ [Next]_vars => AckInv'
<1> SUFFICES ASSUME NetAssumption, AckInv, [Next]_vars PROVE AckInv'
  OBVIOUS
<1>1. CASE UNCHANGED vars
  BY <1>1, Unaffected DEF vars, netVars, egsVars
<1>2. CASE Next
  BY <1>2, AckStepEGS, AckStepService DEF Next
<1> QED
  BY <1>1, <1>2

(* A pong acknowledges no write that is still on its way to the service    *)
(* that sent it (processCallbacks), but for the first request of the       *)
(* process: whatever the services, their crashes and the connections that  *)
(* break, and however requests and pings interleave.                       *)
THEOREM AcksDoNotOvertakeCorrect == Spec => []AcksDoNotOvertake
<1>1. Init => AckInv
  BY AckInit, NetAssumption
<1>2. AckInv /\ [Next]_vars => AckInv'
  BY AckStep, NetAssumption
<1> QED
  BY <1>1, <1>2, AckInvSuffices, PTL DEF Spec
-----------------------------------------------------------------------------
(* The order of acknowledgements.  What has been acknowledged, what waits  *)
(* for it and what the register holds are three ascending lists of ids.    *)

Register(n, ids, waiting, calls) ==
  /\ ids \in Seq(0 .. n - 1) /\ waiting \in Seq(0 .. n - 1) /\ calls \in Seq(0 .. n - 1)
  /\ Ascending(ids) /\ Ascending(waiting) /\ Ascending(calls)
  /\ \A i \in 1 .. Len(calls), j \in 1 .. Len(waiting) : calls[i] < waiting[j]
  /\ \A j \in 1 .. Len(waiting) : \E i \in 1 .. Len(ids) : waiting[j] = ids[i]

RegisterInv == Register(counter, requestIds, responses, acked)

LEMMA ConcatAscending ==
  ASSUME NEW n \in Nat, NEW s \in Seq(0 .. n - 1), NEW t \in Seq(0 .. n - 1),
         Ascending(s), Ascending(t),
         \A i \in 1 .. Len(s), j \in 1 .. Len(t) : s[i] < t[j]
  PROVE  /\ s \o t \in Seq(0 .. n - 1) /\ Ascending(s \o t)
         /\ Len(s \o t) = Len(s) + Len(t)
<1> DEFINE st == s \o t
<1>1. st \in Seq(0 .. n - 1) /\ Len(st) = Len(s) + Len(t)
  OBVIOUS
<1>2. /\ \A i \in 1 .. Len(s) : st[i] = s[i]
      /\ \A i \in Len(s) + 1 .. Len(st) : st[i] = t[i - Len(s)] /\ i - Len(s) \in 1 .. Len(t)
  BY <1>1
<1>3. DOMAIN st = 1 .. Len(st) /\ DOMAIN s = 1 .. Len(s) /\ DOMAIN t = 1 .. Len(t)
  BY <1>1
<1>4. Len(s) \in Nat /\ Len(t) \in Nat
  OBVIOUS
<1> HIDE DEF st
<1>5. ASSUME NEW i \in 1 .. Len(st), NEW j \in 1 .. Len(st), i < j PROVE st[i] < st[j]
  <2>1. CASE j \in 1 .. Len(s)
    <3>1. i \in 1 .. Len(s)
      BY <1>1, <1>4, <1>5, <2>1
    <3> QED
      BY <1>2, <1>3, <1>5, <2>1, <3>1 DEF Ascending
  <2>2. CASE i \in Len(s) + 1 .. Len(st)
    <3>1. j \in Len(s) + 1 .. Len(st) /\ i - Len(s) < j - Len(s)
      BY <1>1, <1>4, <1>5, <2>2
    <3> QED
      BY <1>2, <1>3, <1>4, <2>2, <3>1 DEF Ascending
  <2>3. CASE i \in 1 .. Len(s) /\ j \in Len(s) + 1 .. Len(st)
    BY <1>2, <2>3
  <2> QED
    BY <1>1, <1>4, <1>5, <2>1, <2>2, <2>3
<1> QED
  BY <1>1, <1>3, <1>5 DEF Ascending, st

LEMMA RegisterSuffices ==
  ASSUME NEW n \in Nat, NEW ids, NEW waiting, NEW calls, Register(n, ids, waiting, calls)
  PROVE  /\ Ascending(calls \o waiting) /\ Ascending(ids)
         /\ ToSet(waiting) \subseteq ToSet(ids)
<1>1. Ascending(calls \o waiting)
  BY ConcatAscending DEF Register
<1>2. ASSUME NEW i \in ToSet(waiting) PROVE i \in ToSet(ids)
  <2>1. PICK j \in 1 .. Len(waiting) : i = waiting[j]
    BY DEF ToSet, Register
  <2>2. PICK k \in 1 .. Len(ids) : waiting[j] = ids[k]
    BY DEF Register
  <2> QED
    BY <2>1, <2>2 DEF ToSet, Register
<1> QED
  BY <1>1, <1>2 DEF Register

(* A new request has the greatest id.                                      *)
LEMMA RegisterAppend ==
  ASSUME NEW n \in Nat, NEW s \in Seq(0 .. n - 1), Ascending(s)
  PROVE  /\ Append(s, n) \in Seq(0 .. n) /\ Ascending(Append(s, n))
         /\ Len(Append(s, n)) = Len(s) + 1 /\ Append(s, n)[Len(s) + 1] = n
         /\ \A i \in 1 .. Len(s) : Append(s, n)[i] = s[i]
<1> DEFINE t == Append(s, n)
<1>1. t \in Seq(0 .. n) /\ Len(t) = Len(s) + 1 /\ t[Len(s) + 1] = n
  OBVIOUS
<1>2. \A i \in 1 .. Len(s) : t[i] = s[i]
  OBVIOUS
<1>3. DOMAIN t = 1 .. Len(t) /\ DOMAIN s = 1 .. Len(s) /\ Len(s) \in Nat
  BY <1>1
<1>4. \A i \in 1 .. Len(s) : s[i] \in 0 .. n - 1
  OBVIOUS
<1> HIDE DEF t
<1>5. ASSUME NEW i \in 1 .. Len(t), NEW j \in 1 .. Len(t), i < j PROVE t[i] < t[j]
  <2>1. i \in 1 .. Len(s) /\ t[i] = s[i] /\ s[i] \in 0 .. n - 1
    BY <1>1, <1>2, <1>3, <1>4, <1>5
  <2>2. CASE j = Len(s) + 1
    BY <1>1, <2>1, <2>2
  <2>3. CASE j \in 1 .. Len(s)
    BY <1>2, <1>3, <1>5, <2>1, <2>3 DEF Ascending
  <2> QED
    BY <1>1, <1>3, <2>2, <2>3
<1> QED
  BY <1>1, <1>2, <1>3, <1>5 DEF Ascending, t

LEMMA RequestRegisters ==
  ASSUME NEW n \in Nat, NEW ids, NEW waiting, NEW calls, Register(n, ids, waiting, calls),
         NEW w \in {waiting, Append(waiting, n)}
  PROVE  Register(n + 1, Append(ids, n), w, calls)
<1>1. /\ ids \in Seq(0 .. n - 1) /\ waiting \in Seq(0 .. n - 1) /\ calls \in Seq(0 .. n - 1)
      /\ Ascending(ids) /\ Ascending(waiting) /\ Ascending(calls)
      /\ \A i \in 1 .. Len(calls), j \in 1 .. Len(waiting) : calls[i] < waiting[j]
      /\ \A j \in 1 .. Len(waiting) : \E i \in 1 .. Len(ids) : waiting[j] = ids[i]
  BY DEF Register
<1> DEFINE is == Append(ids, n)
<1>2. /\ is \in Seq(0 .. n) /\ Ascending(is) /\ Len(is) = Len(ids) + 1
      /\ is[Len(ids) + 1] = n /\ \A i \in 1 .. Len(ids) : is[i] = ids[i]
  BY <1>1, RegisterAppend
<1>3. calls \in Seq(0 .. n) /\ Len(ids) \in Nat /\ Len(waiting) \in Nat
  BY <1>1
<1>4. \A i \in 1 .. Len(calls) : calls[i] \in 0 .. n - 1
  BY <1>1
<1> HIDE DEF is
<1>7. (n + 1) - 1 = n
  OBVIOUS
<1>5. ASSUME w = waiting PROVE Register(n + 1, is, w, calls)
  <2>1. w \in Seq(0 .. n)
    BY <1>1, <1>5
  <2>2. \A j \in 1 .. Len(w) : \E i \in 1 .. Len(is) : w[j] = is[i]
    BY <1>1, <1>2, <1>3, <1>5
  <2> QED
    BY <1>1, <1>2, <1>3, <1>5, <1>7, <2>1, <2>2 DEF Register
<1>6. ASSUME w = Append(waiting, n) PROVE Register(n + 1, is, w, calls)
  <2>1. /\ w \in Seq(0 .. n) /\ Ascending(w) /\ Len(w) = Len(waiting) + 1
        /\ w[Len(waiting) + 1] = n /\ \A i \in 1 .. Len(waiting) : w[i] = waiting[i]
    BY <1>1, <1>6, RegisterAppend
  <2>2. ASSUME NEW j \in 1 .. Len(w) PROVE \E i \in 1 .. Len(is) : w[j] = is[i]
    <3>1. CASE j \in 1 .. Len(waiting)
      BY <1>1, <1>2, <1>3, <2>1, <3>1
    <3>2. CASE j = Len(waiting) + 1
      <4>1. Len(ids) + 1 \in 1 .. Len(is)
        BY <1>2, <1>3
      <4> QED
        BY <1>2, <2>1, <3>2, <4>1
    <3> QED
      BY <1>3, <2>1, <3>1, <3>2
  <2>3. ASSUME NEW i \in 1 .. Len(calls), NEW j \in 1 .. Len(w) PROVE calls[i] < w[j]
    <3>1. CASE j \in 1 .. Len(waiting)
      BY <1>1, <2>1, <3>1
    <3>2. CASE j = Len(waiting) + 1
      BY <1>4, <2>1, <3>2
    <3> QED
      BY <1>3, <2>1, <3>1, <3>2
  <2> QED
    BY <1>1, <1>2, <1>3, <1>7, <2>1, <2>2, <2>3 DEF Register
<1> QED
  BY <1>5, <1>6 DEF is

(* The tail of an ascending list.                                          *)
LEMMA SubSeqFacts ==
  ASSUME NEW n \in Nat, NEW s \in Seq(0 .. n - 1), NEW k \in 0 .. Len(s)
  PROVE  /\ SubSeq(s, 1, k) \in Seq(0 .. n - 1) /\ Len(SubSeq(s, 1, k)) = k
         /\ \A i \in 1 .. k : SubSeq(s, 1, k)[i] = s[i]
         /\ SubSeq(s, k + 1, Len(s)) \in Seq(0 .. n - 1)
         /\ Len(SubSeq(s, k + 1, Len(s))) = Len(s) - k
         /\ \A i \in 1 .. Len(s) - k : SubSeq(s, k + 1, Len(s))[i] = s[k + i]
<1>1. Len(s) \in Nat /\ k \in Nat /\ k <= Len(s)
  OBVIOUS
<1>2. SubSeq(s, 1, k) \in Seq(0 .. n - 1) /\ Len(SubSeq(s, 1, k)) = k
  BY <1>1
<1>3. \A i \in 1 .. k : SubSeq(s, 1, k)[i] = s[i]
  BY <1>1
<1>4. /\ SubSeq(s, k + 1, Len(s)) \in Seq(0 .. n - 1)
      /\ Len(SubSeq(s, k + 1, Len(s))) = Len(s) - k
  BY <1>1
<1>5. ASSUME NEW i \in 1 .. Len(s) - k PROVE SubSeq(s, k + 1, Len(s))[i] = s[k + i]
  <2>1. i \in 1 .. Len(s) - (k + 1) + 1 /\ (k + 1) + i - 1 = k + i
    BY <1>1
  <2> QED
    BY <1>1, <2>1
<1> QED
  BY <1>2, <1>3, <1>4, <1>5

LEMMA SubSeqAscending ==
  ASSUME NEW n \in Nat, NEW s \in Seq(0 .. n - 1), Ascending(s), NEW k \in 0 .. Len(s)
  PROVE  Ascending(SubSeq(s, 1, k)) /\ Ascending(SubSeq(s, k + 1, Len(s)))
<1> DEFINE front == SubSeq(s, 1, k)
           back == SubSeq(s, k + 1, Len(s))
<1>1. /\ front \in Seq(0 .. n - 1) /\ Len(front) = k /\ \A i \in 1 .. k : front[i] = s[i]
      /\ back \in Seq(0 .. n - 1) /\ Len(back) = Len(s) - k
      /\ \A i \in 1 .. Len(s) - k : back[i] = s[k + i]
  BY SubSeqFacts
<1>2. Len(s) \in Nat /\ k \in Nat /\ k <= Len(s) /\ DOMAIN s = 1 .. Len(s)
  OBVIOUS
<1> HIDE DEF front, back
<1>3. DOMAIN front = 1 .. k /\ DOMAIN back = 1 .. Len(s) - k
  BY <1>1
<1>4. ASSUME NEW i \in 1 .. k, NEW j \in 1 .. k, i < j PROVE front[i] < front[j]
  <2>1. i \in 1 .. Len(s) /\ j \in 1 .. Len(s)
    BY <1>2
  <2> QED
    BY <1>1, <1>2, <1>4, <2>1 DEF Ascending
<1>5. ASSUME NEW i \in 1 .. Len(s) - k, NEW j \in 1 .. Len(s) - k, i < j
      PROVE  back[i] < back[j]
  <2>1. k + i \in 1 .. Len(s) /\ k + j \in 1 .. Len(s) /\ k + i < k + j
    BY <1>2, <1>5
  <2> QED
    BY <1>1, <1>2, <2>1 DEF Ascending
<1>6. Ascending(front)
  BY <1>3, <1>4 DEF Ascending
<1>7. Ascending(back)
  BY <1>3, <1>5 DEF Ascending
<1> QED
  BY <1>6, <1>7 DEF front, back

(* processCallbacks calls whatever it pops: when all of it is of requests  *)
(* just removed, nothing is skipped.                                       *)
LEMMA NothingSkipped ==
  ASSUME NEW n \in Nat, NEW popped \in Seq(0 .. n - 1), NEW done,
         \A i \in 1 .. Len(popped) : popped[i] \in ToSet(done)
  PROVE  Called(popped, done) = popped
<1> DEFINE l == Len(popped)
           Is(h) == h = [i \in 0 .. l |->
                           IF i = 0 THEN <<>>
                           ELSE IF popped[i] \in ToSet(done) THEN Append(h[i - 1], popped[i])
                                ELSE h[i - 1]]
           called == CHOOSE h : Is(h)
           fronts == [i \in 0 .. l |-> SubSeq(popped, 1, i)]
<1>1. l \in Nat /\ \A i \in 0 .. l : fronts[i] = SubSeq(popped, 1, i)
  OBVIOUS
<1>2. fronts[0] = <<>> /\ fronts[l] = popped
  BY <1>1
<1>3. ASSUME NEW i \in 1 .. l PROVE fronts[i] = Append(fronts[i - 1], popped[i])
  <2>1. i - 1 \in 0 .. l /\ i \in 0 .. l
    BY <1>1
  <2>2. SubSeq(popped, 1, i) = Append(SubSeq(popped, 1, i - 1), popped[i])
    BY <1>1
  <2> QED
    BY <1>1, <2>1, <2>2
<1>4. fronts = [i \in 0 .. l |-> fronts[i]]
  OBVIOUS
<1> HIDE DEF fronts
<1>5. Is(fronts)
  <2>1. ASSUME NEW i \in 0 .. l
        PROVE  fronts[i] = IF i = 0 THEN <<>>
                           ELSE IF popped[i] \in ToSet(done) THEN Append(fronts[i - 1], popped[i])
                                ELSE fronts[i - 1]
    <3>1. CASE i = 0
      BY <1>2, <3>1
    <3>2. CASE i # 0
      <4>1. i \in 1 .. l
        BY <1>1, <3>2
      <4> QED
        BY <1>3, <3>2, <4>1
    <3> QED
      BY <3>1, <3>2
  <2> QED
    BY <1>4, <2>1, Zenon
<1>6. Is(called)
  BY <1>5
<1>7. Called(popped, done) = called[l]
  BY DEF Called
<1> HIDE DEF called
<1>8. called[0] = <<>>
  BY <1>1, <1>6
<1>9. ASSUME NEW i \in 1 .. l PROVE called[i] = Append(called[i - 1], popped[i])
  <2>1. i \in 0 .. l /\ i # 0
    BY <1>1
  <2> QED
    BY <1>6, <2>1
<1> HIDE DEF Is, l
<1> DEFINE Same == {i \in 0 .. l : called[i] = fronts[i]}
<1>10. 0 \in Same
  BY <1>1, <1>2, <1>8
<1>11. ASSUME NEW k \in 0 .. l - 1, k \in Same PROVE k + 1 \in Same
  <2>1. k + 1 \in 1 .. l /\ (k + 1) - 1 = k /\ k + 1 \in 0 .. l
    BY <1>1
  <2> QED
    BY <1>3, <1>9, <1>11, <2>1
<1> HIDE DEF Same
<1>12. \A k \in 0 .. l : k \in Same
  BY <1>1, <1>10, <1>11, UpToN
<1>13. called[l] = fronts[l]
  BY <1>1, <1>12 DEF Same
<1> QED
  BY <1>2, <1>7, <1>13

(* A pong: the callbacks popped are those of the requests removed.         *)
LEMMA PongRegisters ==
  ASSUME NEW n \in Nat, NEW ids, NEW waiting, NEW calls, Register(n, ids, waiting, calls),
         NEW last \in Nat, NEW done, NEW popped,
         done = Leading(ids, last),
         popped = IF done = <<>> THEN <<>> ELSE Leading(waiting, getLastRequestId(done))
  PROVE  Register(n, Trailing(ids, last), SubSeq(waiting, Len(popped) + 1, Len(waiting)),
                  calls \o Called(popped, done))
<1> DEFINE k == UpTo(ids, last)
           m == Len(popped)
           is == Trailing(ids, last)
           ws == SubSeq(waiting, m + 1, Len(waiting))
<1>1. /\ ids \in Seq(0 .. n - 1) /\ waiting \in Seq(0 .. n - 1) /\ calls \in Seq(0 .. n - 1)
      /\ Ascending(ids) /\ Ascending(waiting) /\ Ascending(calls)
      /\ \A i \in 1 .. Len(calls), j \in 1 .. Len(waiting) : calls[i] < waiting[j]
      /\ \A j \in 1 .. Len(waiting) : \E i \in 1 .. Len(ids) : waiting[j] = ids[i]
  BY DEF Register
<1>2. /\ \A i \in 1 .. Len(ids) : ids[i] \in 0 .. n - 1
      /\ \A i \in 1 .. Len(waiting) : waiting[i] \in 0 .. n - 1
      /\ ids \in Seq(Nat) /\ waiting \in Seq(Nat)
      /\ Len(ids) \in Nat /\ Len(waiting) \in Nat
      /\ DOMAIN ids = 1 .. Len(ids) /\ DOMAIN waiting = 1 .. Len(waiting)
  BY <1>1
<1>16. /\ \A i, j \in 1 .. Len(ids) : i < j => ids[i] < ids[j]
       /\ \A i, j \in 1 .. Len(waiting) : i < j => waiting[i] < waiting[j]
  BY <1>1, <1>2 DEF Ascending
<1>3. k \in 0 .. Len(ids)
  BY <1>2, UpToExists
<1>4. done = SubSeq(ids, 1, k) /\ is = SubSeq(ids, k + 1, Len(ids))
  BY DEF Leading, Trailing
<1> HIDE DEF k, is
<1>5. /\ done \in Seq(0 .. n - 1) /\ Len(done) = k /\ \A i \in 1 .. k : done[i] = ids[i]
      /\ is \in Seq(0 .. n - 1) /\ Len(is) = Len(ids) - k
      /\ \A i \in 1 .. Len(ids) - k : is[i] = ids[k + i]
  BY <1>1, <1>3, <1>4, SubSeqFacts
(* The last of the requests removed separates both lists.                  *)
<1>6. /\ m \in 0 .. Len(waiting) /\ popped = SubSeq(waiting, 1, m)
      /\ \A j \in 1 .. m : \E i \in 1 .. k : waiting[j] = ids[i]
      /\ \A j \in m + 1 .. Len(waiting) : \E i \in k + 1 .. Len(ids) : waiting[j] = ids[i]
  <2>1. CASE k = 0
    <3>1. done = <<>> /\ popped = <<>>
      BY <1>5, <2>1
    <3>2. m = 0
      BY <3>1
    <3> QED
      BY <1>1, <1>2, <2>1, <3>1, <3>2
  <2>2. CASE k # 0
    <3> DEFINE d == getLastRequestId(done)
               u == UpTo(waiting, d)
    <3>1. k \in 1 .. Len(ids) /\ done # <<>>
      BY <1>2, <1>3, <1>5, <2>2
    <3>2. d = ids[k] /\ d \in Nat
      BY <1>2, <1>5, <3>1 DEF getLastRequestId
    <3> HIDE DEF d
    <3>3. /\ u \in 0 .. Len(waiting) /\ \A j \in 1 .. u : waiting[j] <= d
          /\ u < Len(waiting) => waiting[u + 1] > d
      BY <1>2, <3>2, UpToExists
    <3>4. popped = SubSeq(waiting, 1, u)
      BY <3>1 DEF Leading, d
    <3> HIDE DEF u
    <3>5. m = u
      BY <1>1, <3>3, <3>4, SubSeqFacts
    <3>6. ASSUME NEW j \in 1 .. u PROVE \E i \in 1 .. k : waiting[j] = ids[i]
      <4>1. j \in 1 .. Len(waiting)
        BY <1>2, <3>3
      <4>2. PICK i \in 1 .. Len(ids) : waiting[j] = ids[i]
        BY <1>1, <4>1
      <4>3. ~(ids[k] < ids[i])
        BY <1>2, <3>1, <3>2, <3>3, <4>2
      <4>4. ~(k < i)
        BY <1>16, <3>1, <4>3, <4>2
      <4> QED
        BY <3>1, <4>2, <4>4
    <3>7. ASSUME NEW j \in u + 1 .. Len(waiting)
          PROVE  \E i \in k + 1 .. Len(ids) : waiting[j] = ids[i]
      <4>1. j \in 1 .. Len(waiting) /\ u + 1 \in 1 .. Len(waiting) /\ u < Len(waiting)
        BY <1>2, <3>3
      <4>2. PICK i \in 1 .. Len(ids) : waiting[j] = ids[i]
        BY <1>1, <4>1
      <4>3. waiting[u + 1] <= waiting[j]
        <5>1. CASE j = u + 1
          BY <1>2, <4>1, <5>1
        <5>2. CASE u + 1 < j
          <6>1. waiting[u + 1] < waiting[j]
            BY <1>16, <4>1, <5>2
          <6>2. waiting[u + 1] \in 0 .. n - 1 /\ waiting[j] \in 0 .. n - 1
            BY <1>2, <4>1
          <6> QED
            BY <6>1, <6>2
        <5> QED
          BY <3>3, <4>1, <5>1, <5>2
      <4>4. ids[k] < ids[i]
        BY <1>2, <3>2, <3>3, <4>1, <4>2, <4>3
      <4>5. k < i
        <5>1. ids[k] \in 0 .. n - 1 /\ ids[i] \in 0 .. n - 1
          BY <1>2, <3>1
        <5>2. ~(i = k)
          BY <4>4, <5>1
        <5>3. ~(i < k)
          <6>1. i < k => ids[i] < ids[k]
            BY <1>16, <3>1, <4>2
          <6> QED
            BY <4>4, <5>1, <6>1
        <5> QED
          BY <3>1, <5>2, <5>3
      <4> QED
        BY <3>1, <4>2, <4>5
    <3> QED
      BY <3>3, <3>4, <3>5, <3>6, <3>7
  <2> QED
    BY <2>1, <2>2
<1>7. /\ popped \in Seq(0 .. n - 1) /\ Len(popped) = m
      /\ \A i \in 1 .. m : popped[i] = waiting[i]
      /\ ws \in Seq(0 .. n - 1) /\ Len(ws) = Len(waiting) - m
      /\ \A i \in 1 .. Len(waiting) - m : ws[i] = waiting[m + i]
  <2>1. m \in 0 .. Len(waiting) /\ popped = SubSeq(waiting, 1, m)
    BY <1>6
  <2>2. ws = SubSeq(waiting, m + 1, Len(waiting))
    OBVIOUS
  <2>3. waiting \in Seq(0 .. n - 1)
    BY <1>1
  <2> HIDE DEF m, ws
  <2>4. /\ popped \in Seq(0 .. n - 1) /\ Len(popped) = m
        /\ \A i \in 1 .. m : popped[i] = waiting[i]
    BY <2>1, <2>3, SubSeqFacts
  <2>5. /\ ws \in Seq(0 .. n - 1) /\ Len(ws) = Len(waiting) - m
        /\ \A i \in 1 .. Len(waiting) - m : ws[i] = waiting[m + i]
    BY <2>1, <2>2, <2>3, SubSeqFacts
  <2> QED
    BY <2>4, <2>5
<1> HIDE DEF m, ws
<1>8. Called(popped, done) = popped
  <2>1. ASSUME NEW i \in 1 .. Len(popped) PROVE popped[i] \in ToSet(done)
    <3>1. PICK j \in 1 .. k : waiting[i] = ids[j]
      BY <1>6, <1>7
    <3>2. done[j] = ids[j] /\ DOMAIN done = 1 .. k
      <4>1. done[j] = ids[j]
        BY <1>5, <3>1
      <4>2. done \in Seq(0 .. n - 1) /\ Len(done) = k
        BY <1>5
      <4>3. DOMAIN done = 1 .. Len(done)
        BY <4>2
      <4> QED
        BY <4>1, <4>2, <4>3
    <3>3. popped[i] = done[j] /\ j \in DOMAIN done
      BY <1>7, <3>1, <3>2
    <3> QED
      BY <3>3 DEF ToSet
  <2> QED
    BY <1>7, <2>1, NothingSkipped
<1>9. Ascending(is) /\ Ascending(ws) /\ Ascending(popped)
  BY <1>1, <1>3, <1>4, <1>6, SubSeqAscending DEF ws
<1> HIDE DEF ws
<1>10. Len(calls) \in Nat /\ m \in Nat /\ k \in Nat /\ m <= Len(waiting) /\ k <= Len(ids)
  BY <1>1, <1>2, <1>3, <1>6
<1>11. \A i \in 1 .. m : popped[i] = waiting[i] /\ i \in 1 .. Len(waiting)
  <2>1. \A i \in 1 .. m : i \in 1 .. Len(waiting)
    BY <1>2, <1>10
  <2> QED
    BY <1>7, <2>1
<1> DEFINE cs == calls \o popped
<1>12. cs \in Seq(0 .. n - 1) /\ Ascending(cs) /\ Len(cs) = Len(calls) + Len(popped)
  <2>1. \A i \in 1 .. Len(calls), j \in 1 .. Len(popped) : calls[i] < popped[j]
    BY <1>1, <1>7, <1>11
  <2> QED
    BY <1>1, <1>7, <1>9, <2>1, ConcatAscending
<1>13. ASSUME NEW i \in 1 .. Len(cs), NEW j \in 1 .. Len(ws) PROVE cs[i] < ws[j]
  <2>1. calls \in Seq(0 .. n - 1) /\ popped \in Seq(0 .. n - 1) /\ Len(popped) = m
    BY <1>1, <1>7
  <2>2. m + j \in 1 .. Len(waiting) /\ ws[j] = waiting[m + j]
    BY <1>2, <1>7, <1>10
  <2>3. Len(cs) = Len(calls) + m
    BY <1>12, <2>1
  <2>4. CASE i \in 1 .. Len(calls)
    <3>1. cs[i] = calls[i]
      BY <2>1, <2>4
    <3> QED
      BY <1>1, <2>2, <2>4, <3>1
  <2>5. CASE i \in Len(calls) + 1 .. Len(cs)
    <3>1. i - Len(calls) \in 1 .. m
      BY <1>10, <2>3, <2>5
    <3>2. cs[i] = popped[i - Len(calls)]
      BY <1>10, <2>1, <2>3, <2>5
    <3>3. cs[i] = waiting[i - Len(calls)] /\ i - Len(calls) \in 1 .. Len(waiting)
      BY <1>11, <3>1, <3>2
    <3>4. i - Len(calls) < m + j
      BY <1>10, <3>1
    <3> QED
      BY <1>1, <1>2, <2>2, <3>3, <3>4 DEF Ascending
  <2> QED
    BY <1>10, <2>3, <2>4, <2>5
<1> HIDE DEF cs
<1>14. ASSUME NEW j \in 1 .. Len(ws) PROVE \E i \in 1 .. Len(is) : ws[j] = is[i]
  <2>1. m + j \in m + 1 .. Len(waiting) /\ ws[j] = waiting[m + j]
    BY <1>2, <1>7, <1>10
  <2>2. PICK i \in k + 1 .. Len(ids) : ws[j] = ids[i]
    BY <1>6, <2>1
  <2>3. i - k \in 1 .. Len(ids) - k /\ k + (i - k) = i
    BY <1>2, <1>10
  <2> QED
    BY <1>5, <2>2, <2>3
<1>15. Register(n, is, ws, cs)
  BY <1>5, <1>7, <1>9, <1>10, <1>12, <1>13, <1>14 DEF Register
<1> QED
  BY <1>8, <1>15 DEF is, ws, cs, m

LEMMA RegisterInit == NetAssumption /\ Init => RegisterInv
<1> SUFFICES ASSUME NetAssumption, Init PROVE RegisterInv
  OBVIOUS
<1>1. counter = 0 /\ requestIds = <<>> /\ responses = <<>> /\ acked = <<>>
  BY DEF Init, EGSInit
<1>2. <<>> \in Seq(0 .. 0 - 1) /\ Len(<<>>) = 0 /\ DOMAIN <<>> = 1 .. 0
  OBVIOUS
<1>3. Ascending(<<>>)
  BY <1>2 DEF Ascending
<1> QED
  BY <1>1, <1>2, <1>3 DEF RegisterInv, Register

LEMMA PongKeepsRegister ==
  ASSUME NetAssumption, AckInv, RegisterInv, NEW b \in BSs, cbBSPingPong(b)
  PROVE  RegisterInv'
<1>1. PICK p \in pingPongs[b] : processCallbacks(b, p.last)
  BY DEF cbBSPingPong, Acknowledges
<1>2. p.last \in Nat /\ counter \in Nat /\ counter' = counter
  BY At DEF cbBSPingPong, AckInv, IdsInv, NetAssumption
<1> DEFINE done == Leading(requestIds, p.last)
           popped == Popped(done)
<1>3. /\ requestIds' = Trailing(requestIds, p.last)
      /\ responses' = SubSeq(responses, Len(popped) + 1, Len(responses))
      /\ acked' = acked \o Called(popped, done)
  BY <1>1 DEF processCallbacks
<1>4. popped = IF done = <<>> THEN <<>> ELSE Leading(responses, getLastRequestId(done))
  BY DEF Popped
<1>5. done = Leading(requestIds, p.last)
  OBVIOUS
<1> HIDE DEF done, popped
<1>6. Register(counter, requestIds, responses, acked)
  BY DEF RegisterInv
<1>7. Register(counter, Trailing(requestIds, p.last),
               SubSeq(responses, Len(popped) + 1, Len(responses)),
               acked \o Called(popped, done))
  BY <1>2, <1>4, <1>5, <1>6, PongRegisters
<1> QED
  BY <1>2, <1>3, <1>7 DEF RegisterInv

registerVars == <<counter, requestIds, responses, acked>>

LEMMA RegisterStep ==
  ASSUME NetAssumption, AckInv, RegisterInv, [Next]_vars
  PROVE  RegisterInv'
<1>1. counter \in Nat
  BY DEF AckInv, IdsInv, NetAssumption
<1>2. ASSUME NEW f \in Files, NEW t \in Writes, NEW cb \in BOOLEAN, Write(t, f, cb)
      PROVE  RegisterInv'
  <2>1. /\ counter' = counter + 1 /\ acked' = acked
        /\ requestIds' = Append(requestIds, counter)
        /\ responses' \in {responses, Append(responses, counter)}
    BY <1>2 DEF Write, EGSWrite
  <2> QED
    BY <1>1, <2>1, RequestRegisters DEF RegisterInv
<1>3. ASSUME NEW f \in Files, RequestFile(f) PROVE RegisterInv'
  <2>1. counter' = counter + 1 /\ acked' = acked /\ requestIds' = requestIds /\ responses' = responses
    BY <1>3 DEF RequestFile, EGSRequestFile
  <2>2. Seq(0 .. counter - 1) \subseteq Seq(0 .. counter)
    BY <1>1
  <2>3. (counter + 1) - 1 = counter
    BY <1>1
  <2> QED
    BY <2>1, <2>2, <2>3 DEF RegisterInv, Register
<1>4. ASSUME UNCHANGED registerVars PROVE RegisterInv'
  BY <1>4 DEF RegisterInv, registerVars
<1>5. CASE ServiceUpdate
  BY <1>4, <1>5 DEF ServiceUpdate, EGSServiceUpdate, registerVars
<1>6. ASSUME NEW b \in BSs, EGSStep(b) PROVE RegisterInv'
  <2>1. CASE PingPongs(b)
    BY <2>1, PongKeepsRegister DEF PingPongs
  <2>2. CASE Connection(b) \/ Disconnection(b) \/ File(b) \/ StallMode(b)
    BY <1>4, <2>2 DEF Connection, Disconnection, File, StallMode, cbBSConnection,
       cbBSDisconnection, cbFile, cbStallMode, registerVars
  <2> QED
    BY <1>6, <2>1, <2>2 DEF EGSStep
<1>7. ASSUME NEW b \in BSs,
             \/ NetworkStep(b) \/ Connect(b) \/ UpdateStep(b)
             \/ LoadFails(b) \/ DeleteFails(b) \/ WriteFails(b)
             \/ StallShard(b) \/ ResumeShard(b) \/ RemoveFileAccess(b)
             \/ Crash(b) \/ Restart(b) \/ Break(b) \/ MasterBreak(b)
      PROVE  RegisterInv'
  <2>1. UNCHANGED egsVars
    BY <1>7 DEF NetworkStep, UpdateStep, Connect, LoadFails, DeleteFails, WriteFails,
       StallShard, ResumeShard, RemoveFileAccess, Crash, Restart, Break, MasterBreak, WriteFile,
       LoadFile, Ping, MasterDown, Load, Delete, OpenAndWrite, CloseDelete, CloseMove, Local
  <2> QED
    BY <1>4, <2>1 DEF egsVars, registerVars
<1>8. CASE UNCHANGED vars
  BY <1>4, <1>8 DEF vars, egsVars, registerVars
<1> QED
  BY <1>2, <1>3, <1>5, <1>6, <1>7, <1>8 DEF Next

(* Callbacks of acknowledgements are called in the order of the requests,  *)
(* each once, and none is skipped, for all values of the constants.        *)
THEOREM AcksInOrderCorrect == Spec => []AcksInOrder
<1> USE NetAssumption
<1>1. Init => AckInv /\ RegisterInv
  BY AckInit, RegisterInit
<1>2. AckInv /\ RegisterInv /\ [Next]_vars => AckInv' /\ RegisterInv'
  BY AckStep, RegisterStep
<1>3. AckInv /\ RegisterInv => AcksInOrder
  <2> SUFFICES ASSUME AckInv, RegisterInv PROVE AcksInOrder
    OBVIOUS
  <2>1. counter \in Nat
    BY DEF AckInv, IdsInv
  <2> QED
    BY <2>1, RegisterSuffices DEF RegisterInv, AcksInOrder
<1> QED
  BY <1>1, <1>2, <1>3, PTL DEF Spec
-----------------------------------------------------------------------------
(* The types.  Those of the messages are what a step takes over from them. *)

Accesses == [type : Writes \cup {"load"}, id : RequestIds, file : Files]

(* A message about a stall tells whether there is one.                     *)
Telling(egs) ==
  \A i \in 1 .. Len(egs) : egs[i].type = "STALL_MODE" => egs[i].stalled \in BOOLEAN

MessageTypes ==
  /\ toBS \in [BSs -> Seq(Accesses \cup {PingMsg})]
  /\ \A b \in BSs : Telling(toEGS[b])

ClientTypes ==
  /\ loads \subseteq RequestIds
  /\ pingPongs \in [BSs -> SUBSET PingPong]
  /\ ticksHalted \in BOOLEAN
  /\ ackedBy \in [RequestIds -> SUBSET BSs]

(* A file is being replaced for the write at the head of the queue.        *)
Replacing(b) == phase[b] \in {"written", "deleted"}

TypesInv ==
  /\ BSTypeOK /\ ClientTypes /\ MessageTypes
  /\ \A b \in BSs : Replacing(b) => accesses[b] # <<>>

LEMMA TypesSuffice ==
  ASSUME NetAssumption, AckInv, RegisterInv, TypesInv
  PROVE  TypeOK
<1>1. counter \in 0 .. MaxRequests /\ 0 .. counter - 1 \subseteq RequestIds
  BY DEF AckInv, IdsInv, RequestIds, NetAssumption
<1>2. \A s \in Seq(0 .. counter - 1) : s \in Seq(RequestIds)
  <2> DEFINE S == 0 .. counter - 1
  <2> HIDE DEF S
  <2>1. \A s \in Seq(S) : S \subseteq RequestIds => s \in Seq(RequestIds)
    OBVIOUS
  <2> QED
    BY <1>1, <2>1 DEF S
<1>3. requestIds \in Seq(RequestIds) /\ responses \in Seq(RequestIds) /\ acked \in Seq(RequestIds)
  BY <1>2 DEF RegisterInv, Register
<1>4. link \in [BSs -> BOOLEAN]
  BY At DEF AckInv, FunctionsInv
<1> QED
  BY <1>1, <1>3, <1>4 DEF TypesInv, ClientTypes, TypeOK, EGSTypeOK

(* What the queue of the EGS may become.                                   *)
LEMMA TellingOne ==
  ASSUME NEW egs, IsSeq(egs), Telling(egs), NEW m,
         m.type = "STALL_MODE" => m.stalled \in BOOLEAN
  PROVE  Telling(Append(egs, m)) /\ IsSeq(Append(egs, m))
<1>1. /\ Len(egs) \in Nat /\ Len(Append(egs, m)) = Len(egs) + 1
      /\ \A i \in 1 .. Len(egs) : Append(egs, m)[i] = egs[i]
      /\ Append(egs, m)[Len(egs) + 1] = m
  BY AppendFacts, SeqFacts
<1>2. \A i \in 1 .. Len(egs) + 1 : i \in 1 .. Len(egs) \/ i = Len(egs) + 1
  BY <1>1
<1> QED
  BY <1>1, <1>2, AppendFacts DEF Telling

LEMMA TellingTail ==
  ASSUME NEW egs, IsSeq(egs), egs # <<>>, Telling(egs)
  PROVE  /\ Telling(Tail(egs))
         /\ Head(egs).type = "STALL_MODE" => Head(egs).stalled \in BOOLEAN
<1>1. /\ Len(egs) \in Nat /\ Len(Tail(egs)) = Len(egs) - 1
      /\ \A i \in 1 .. Len(egs) - 1 : Tail(egs)[i] = egs[i + 1]
      /\ Head(egs) = egs[1] /\ Len(egs) >= 1
  BY TailFacts, SeqFacts
<1>2. \A i \in 1 .. Len(egs) - 1 : i + 1 \in 1 .. Len(egs)
  BY <1>1
<1>3. 1 \in 1 .. Len(egs)
  BY <1>1
<1> QED
  BY <1>1, <1>2, <1>3 DEF Telling

LEMMA TellingBreak ==
  ASSUME NEW egs, IsSeq(egs), Telling(egs), NEW n \in 0 .. Len(egs)
  PROVE  Telling(Append(SubSeq(egs, 1, n), DownMsg))
<1> DEFINE front == SubSeq(egs, 1, n)
<1>1. /\ Len(egs) \in Nat /\ IsSeq(front) /\ Len(front) = n
      /\ \A i \in 1 .. n : front[i] = egs[i] /\ i \in 1 .. Len(egs)
  BY FrontFacts, SeqFacts
<1> HIDE DEF front
<1>2. Telling(front)
  BY <1>1 DEF Telling
<1>3. DownMsg.type # "STALL_MODE"
  BY DEF DownMsg
<1>4. Telling(Append(front, DownMsg))
  BY <1>1, <1>2, <1>3, TellingOne
<1> QED
  BY <1>4 DEF front

(* A message sent to the EGS, read by the EGS, requests sent.              *)
LEMMA SendEGSTypes ==
  ASSUME AckInv, MessageTypes, NEW b \in BSs, NEW m, SendEGS(b, m),
         m.type = "STALL_MODE" => m.stalled \in BOOLEAN
  PROVE  \A c \in BSs : Telling(toEGS'[c])
<1>1. IsSeq(toEGS[b]) /\ toEGS = [c \in BSs |-> toEGS[c]]
  BY At DEF AckInv, FunctionsInv
<1>2. Telling(Append(toEGS[b], m))
  BY <1>1, TellingOne DEF MessageTypes
<1>3. /\ \A c \in BSs : c # b => toEGS'[c] = toEGS[c]
      /\ toEGS'[b] = Append(toEGS[b], m) \/ toEGS'[b] = toEGS[b]
  BY <1>1 DEF SendEGS
<1> QED
  BY <1>2, <1>3 DEF MessageTypes

LEMMA EGSReadsTypes ==
  ASSUME AckInv, MessageTypes, NEW b \in BSs, NEW type, EGSReads(b, type)
  PROVE  /\ MessageTypes'
         /\ type = "STALL_MODE" => Head(toEGS[b]).stalled \in BOOLEAN
<1>1. IsSeq(toEGS[b]) /\ toEGS = [c \in BSs |-> toEGS[c]] /\ toEGS[b] # <<>>
  BY At DEF AckInv, FunctionsInv, EGSReads
<1>2. /\ Telling(Tail(toEGS[b]))
      /\ type = "STALL_MODE" => Head(toEGS[b]).stalled \in BOOLEAN
  BY <1>1, TellingTail DEF MessageTypes, EGSReads
<1>3. /\ \A c \in BSs : c # b => toEGS'[c] = toEGS[c]
      /\ toEGS'[b] = Tail(toEGS[b]) /\ toBS' = toBS
  BY <1>1 DEF EGSReads
<1> QED
  BY <1>2, <1>3 DEF MessageTypes

LEMMA SendBSsTypes ==
  ASSUME MessageTypes, NEW up, NEW m \in Accesses \cup {PingMsg}, SendBSs(up, m),
         toEGS' = toEGS
  PROVE  MessageTypes'
<1>1. \A b \in BSs : toBS[b] \in Seq(Accesses \cup {PingMsg})
  BY DEF MessageTypes
<1>2. \A b \in BSs : Append(toBS[b], m) \in Seq(Accesses \cup {PingMsg})
  BY <1>1
<1>3. toBS' \in [BSs -> Seq(Accesses \cup {PingMsg})]
  BY <1>1, <1>2 DEF SendBSs
<1> QED
  BY <1>3 DEF MessageTypes

LEMMA BreakTypes ==
  ASSUME AckInv, MessageTypes, NEW b \in BSs, BreakLink(b)
  PROVE  MessageTypes'
<1>1. IsSeq(toEGS[b]) /\ toEGS = [c \in BSs |-> toEGS[c]]
  BY At DEF AckInv, FunctionsInv
<1>2. toBS' \in [BSs -> Seq(Accesses \cup {PingMsg})]
  <2>1. <<>> \in Seq(Accesses \cup {PingMsg})
    OBVIOUS
  <2> QED
    BY <2>1 DEF MessageTypes, BreakLink
<1>3. CASE link[b]
  <2>1. PICK n \in 0 .. Len(toEGS[b]) :
          toEGS' = [toEGS EXCEPT ![b] = Append(SubSeq(toEGS[b], 1, n), DownMsg)]
    BY <1>3 DEF BreakLink
  <2>2. Telling(Append(SubSeq(toEGS[b], 1, n), DownMsg))
    BY <1>1, TellingBreak DEF MessageTypes
  <2>3. /\ \A c \in BSs : c # b => toEGS'[c] = toEGS[c]
        /\ toEGS'[b] = Append(SubSeq(toEGS[b], 1, n), DownMsg)
    BY <1>1, <2>1
  <2> QED
    BY <1>2, <2>2, <2>3 DEF MessageTypes
<1>4. CASE ~link[b]
  BY <1>2, <1>4 DEF MessageTypes, BreakLink
<1> QED
  BY <1>3, <1>4

LEMMA ConnectTypes ==
  ASSUME AckInv, MessageTypes, NEW b \in BSs, BSConnection(b)
  PROVE  MessageTypes'
<1>1. IsSeq(toEGS[b]) /\ toEGS = [c \in BSs |-> toEGS[c]]
  BY At DEF AckInv, FunctionsInv
<1>2. UpMsg.type # "STALL_MODE" /\ StallMsg(TRUE).stalled \in BOOLEAN
  BY DEF UpMsg, StallMsg
<1>3. IsSeq(Append(toEGS[b], UpMsg)) /\ Telling(Append(toEGS[b], UpMsg))
  BY <1>1, <1>2, TellingOne DEF MessageTypes
<1>4. Telling(Append(Append(toEGS[b], UpMsg), StallMsg(TRUE)))
  BY <1>2, <1>3, TellingOne
<1>5. Telling(toEGS[b] \o Greeting(b))
  <2>1. \A e, f : /\ toEGS[b] \o <<e>> = Append(toEGS[b], e)
                  /\ toEGS[b] \o <<e, f>> = Append(Append(toEGS[b], e), f)
    BY <1>1, AppendIsOne
  <2>2. CASE Greeting(b) = <<UpMsg>>
    BY <1>3, <2>1, <2>2
  <2>3. CASE Greeting(b) = <<UpMsg, StallMsg(TRUE)>>
    BY <1>4, <2>1, <2>3
  <2> QED
    BY <2>2, <2>3 DEF Greeting
<1>6. /\ \A c \in BSs : c # b => toEGS'[c] = toEGS[c]
      /\ toEGS'[b] = toEGS[b] \o Greeting(b) /\ toBS' = toBS
  BY <1>1 DEF BSConnection
<1> QED
  BY <1>5, <1>6 DEF MessageTypes

(* What the service makes of its queue of accesses.                        *)
LEMMA PopTypes ==
  ASSUME BSTypeOK, NEW b \in BSs, accesses[b] # <<>>, Pop(b)
  PROVE  /\ accesses' \in [BSs -> Seq(Accesses)] /\ phase' \in [BSs -> Phases]
         /\ phase'[b] \in {"network", "update"}
         /\ \A c \in BSs : c # b => accesses'[c] = accesses[c] /\ phase'[c] = phase[c]
<1>1. accesses \in [BSs -> Seq(Accesses)] /\ phase \in [BSs -> Phases]
  BY DEF BSTypeOK, Accesses
<1>2. Tail(accesses[b]) \in Seq(Accesses)
  BY <1>1
<1>3. accesses' = [accesses EXCEPT ![b] = Tail(accesses[b])]
  BY DEF Pop
<1>4. /\ phase' \in [BSs -> Phases] /\ phase'[b] \in {"network", "update"}
      /\ \A c \in BSs : c # b => phase'[c] = phase[c]
  BY <1>1 DEF Pop, Phases
<1> QED
  BY <1>1, <1>2, <1>3, <1>4

LEMMA ReadTypes ==
  ASSUME BSTypeOK, MessageTypes, NEW b \in BSs, NEW types, BSReads(b, types), toEGS' = toEGS
  PROVE  /\ MessageTypes' /\ Head(toBS[b]) \in Accesses \cup {PingMsg}
<1>1. toBS[b] \in Seq(Accesses \cup {PingMsg}) /\ toBS[b] # <<>>
  BY DEF MessageTypes, BSReads
<1>2. Head(toBS[b]) \in Accesses \cup {PingMsg} /\ Tail(toBS[b]) \in Seq(Accesses \cup {PingMsg})
  BY <1>1
<1> QED
  BY <1>2 DEF MessageTypes, BSReads

LEMMA StackTypes ==
  ASSUME BSTypeOK, NEW b \in BSs, NEW a \in Accesses, stackFileAccess(b, a)
  PROVE  /\ accesses' \in [BSs -> Seq(Accesses)]
         /\ \A c \in BSs : c # b => accesses'[c] = accesses[c]
<1>1. accesses \in [BSs -> Seq(Accesses)]
  BY DEF BSTypeOK, Accesses
<1>2. Append(accesses[b], a) \in Seq(Accesses)
  BY <1>1
<1> QED
  BY <1>1, <1>2 DEF stackFileAccess

LEMMA NetworkTypes ==
  ASSUME AckInv, TypesInv, NEW b \in BSs, NetworkStep(b)
  PROVE  TypesInv'
<1>1. CASE WriteFile(b)
  <2>1. /\ BSReads(b, Writes) /\ stackFileAccess(b, Head(toBS[b])) /\ toEGS' = toEGS
        /\ UNCHANGED <<running, phase, mode, disk, temp, stale, readState, masterLost>>
        /\ UNCHANGED <<loads, pingPongs, ticksHalted, ackedBy>>
    BY <1>1 DEF WriteFile, BSWriteFile, Local, egsVars
  <2>2. MessageTypes' /\ Head(toBS[b]) \in Accesses \cup {PingMsg}
    BY <2>1, ReadTypes DEF TypesInv
  <2>3. Head(toBS[b]) \in Accesses
    BY <2>1, <2>2 DEF BSReads, Writes, PingMsg
  <2>4. /\ accesses' \in [BSs -> Seq(Accesses)]
        /\ \A c \in BSs : c # b => accesses'[c] = accesses[c]
    BY <2>1, <2>3, StackTypes DEF TypesInv
  <2>5. \A c \in BSs : Replacing(c)' => accesses'[c] # <<>>
    BY <2>1, <2>4 DEF TypesInv, Replacing, BSReads
  <2> QED
    BY <2>1, <2>2, <2>4, <2>5 DEF TypesInv, BSTypeOK, ClientTypes, Accesses
<1>2. CASE LoadFile(b)
  <2>1. /\ BSReads(b, {"load"}) /\ toEGS' = toEGS
        /\ stackFileAccess(b, Head(toBS[b])) \/ UNCHANGED accesses
        /\ UNCHANGED <<running, phase, mode, disk, temp, stale, readState, masterLost>>
        /\ UNCHANGED <<loads, pingPongs, ticksHalted, ackedBy>>
    BY <1>2 DEF LoadFile, BSLoadFile, Local, egsVars
  <2>2. MessageTypes' /\ Head(toBS[b]) \in Accesses \cup {PingMsg}
    BY <2>1, ReadTypes DEF TypesInv
  <2>3. Head(toBS[b]) \in Accesses
    BY <2>1, <2>2 DEF BSReads, PingMsg
  <2>4. /\ accesses' \in [BSs -> Seq(Accesses)]
        /\ \A c \in BSs : c # b => accesses'[c] = accesses[c]
    BY <2>1, <2>3, StackTypes DEF TypesInv, BSTypeOK, Accesses
  <2>5. \A c \in BSs : Replacing(c)' => accesses'[c] # <<>>
    BY <2>1, <2>4 DEF TypesInv, Replacing, BSReads
  <2> QED
    BY <2>1, <2>2, <2>4, <2>5 DEF TypesInv, BSTypeOK, ClientTypes, Accesses
<1>3. CASE Ping(b)
  <2>1. /\ BSReads(b, {"BS_PING"}) /\ SendEGS(b, PongMsg) /\ UNCHANGED bsVars
        /\ UNCHANGED <<loads, pingPongs, ticksHalted, ackedBy>>
    BY <1>3 DEF Ping, BSPing, Local, egsVars
  <2>2. \A c \in BSs : Telling(toEGS'[c])
    <3>1. PongMsg.type # "STALL_MODE"
      BY DEF PongMsg
    <3> QED
      BY <2>1, <3>1, SendEGSTypes DEF TypesInv
  <2>3. toBS' \in [BSs -> Seq(Accesses \cup {PingMsg})]
    <3>1. toBS[b] \in Seq(Accesses \cup {PingMsg}) /\ toBS[b] # <<>>
      BY <2>1 DEF TypesInv, MessageTypes, BSReads
    <3>2. Tail(toBS[b]) \in Seq(Accesses \cup {PingMsg})
      BY <3>1
    <3> QED
      BY <2>1, <3>2 DEF TypesInv, MessageTypes, BSReads
  <2> QED
    BY <2>1, <2>2, <2>3 DEF TypesInv, BSTypeOK, ClientTypes, MessageTypes, bsVars, Replacing
<1>4. CASE MasterDown(b)
  BY <1>4 DEF MasterDown, BSMasterDown, Local, egsVars, netVars, TypesInv, BSTypeOK,
     ClientTypes, MessageTypes, Replacing
<1> QED
  BY <1>1, <1>2, <1>3, <1>4 DEF NetworkStep

(* An access is executed or given up.                                      *)
LEMMA ExecutesTypes ==
  ASSUME AckInv, TypesInv, NEW b \in BSs,
         \/ UpdateStep(b) \/ LoadFails(b) \/ DeleteFails(b)
  PROVE  TypesInv'
<1>1. UNCHANGED <<loads, pingPongs, ticksHalted, ackedBy>>
  BY DEF UpdateStep, Load, Delete, OpenAndWrite, CloseDelete, CloseMove, LoadFails,
     DeleteFails, Local, egsVars
<1>2. CASE Load(b) \/ LoadFails(b)
  <2>1. PICK content : Answer(b, content)
    BY <1>2 DEF Load, ExecuteLoad, LoadFails, FailLoad
  <2>2. /\ SendEGS(b, FileMsg(Head(accesses[b]).id, content)) \/ UNCHANGED toEGS
        /\ Pop(b) /\ accesses[b] # <<>>
        /\ UNCHANGED <<link, toBS, running, mode, disk, temp, stale, readState, masterLost>>
    BY <2>1, ReplyFacts DEF Answer, Executes
  <2>3. \A d \in BSs : Telling(toEGS'[d])
    <3>1. FileMsg(Head(accesses[b]).id, content).type # "STALL_MODE"
      BY DEF FileMsg
    <3> QED
      BY <2>2, <3>1, SendEGSTypes DEF TypesInv, MessageTypes
  <2>4. /\ accesses' \in [BSs -> Seq(Accesses)] /\ phase' \in [BSs -> Phases]
        /\ \A c \in BSs : Replacing(c)' => accesses'[c] # <<>>
    BY <2>2, PopTypes DEF TypesInv, Replacing
  <2> QED
    BY <1>1, <2>2, <2>3, <2>4 DEF TypesInv, BSTypeOK, ClientTypes, MessageTypes, Accesses
<1>3. CASE Delete(b) \/ DeleteFails(b)
  <2>1. /\ Pop(b) /\ accesses[b] # <<>>
        /\ UNCHANGED <<netVars, running, mode, temp, stale, readState, masterLost>>
        /\ disk' = disk \/ disk' = [disk EXCEPT ![b][Head(accesses[b]).file] = NoFile]
    BY <1>3 DEF Delete, ExecuteDelete, DeleteFails, FailDelete, Executes
  <2>2. /\ accesses' \in [BSs -> Seq(Accesses)] /\ phase' \in [BSs -> Phases]
        /\ \A c \in BSs : Replacing(c)' => accesses'[c] # <<>>
    BY <2>1, PopTypes DEF TypesInv, Replacing
  <2>3. DOMAIN disk' = BSs /\ \A c \in BSs : DOMAIN disk'[c] = Files
    BY <2>1 DEF TypesInv, BSTypeOK
  <2> QED
    BY <1>1, <2>1, <2>2, <2>3 DEF TypesInv, BSTypeOK, ClientTypes, MessageTypes, Accesses, netVars
<1>4. CASE OpenAndWrite(b)
  <2>1. /\ DOMAIN temp' = DOMAIN temp /\ phase' = [phase EXCEPT ![b] = "written"] /\ accesses[b] # <<>>
        /\ UNCHANGED <<netVars, running, mode, accesses, disk, stale, readState, masterLost>>
    BY <1>4 DEF OpenAndWrite, ExecuteWrite, Executes
  <2> QED
    BY <1>1, <2>1 DEF TypesInv, BSTypeOK, ClientTypes, MessageTypes, Phases, netVars, Replacing
<1>5. CASE CloseDelete(b)
  <2>1. /\ DOMAIN temp' = DOMAIN temp /\ phase' = [phase EXCEPT ![b] = "deleted"] /\ phase[b] = "written"
        /\ disk' = [disk EXCEPT ![b][Head(accesses[b]).file] = NoFile]
        /\ UNCHANGED <<netVars, running, mode, accesses, stale, readState, masterLost>>
    BY <1>5 DEF CloseDelete, CloseDeletes
  <2>2. DOMAIN disk' = BSs /\ \A c \in BSs : DOMAIN disk'[c] = Files
    BY <2>1 DEF TypesInv, BSTypeOK
  <2> QED
    BY <1>1, <2>1, <2>2 DEF TypesInv, BSTypeOK, ClientTypes, MessageTypes, Phases, netVars, Replacing
<1>6. CASE CloseMove(b)
  <2>1. /\ DOMAIN temp' = DOMAIN temp /\ Pop(b) /\ phase[b] = "deleted"
        /\ disk' = [disk EXCEPT ![b][Head(accesses[b]).file] = temp[b]]
        /\ UNCHANGED <<netVars, running, mode, stale, readState, masterLost>>
    BY <1>6 DEF CloseMove, CloseMoves
  <2>2. /\ accesses' \in [BSs -> Seq(Accesses)] /\ phase' \in [BSs -> Phases]
        /\ \A c \in BSs : Replacing(c)' => accesses'[c] # <<>>
    BY <2>1, PopTypes DEF TypesInv, Replacing
  <2>3. DOMAIN disk' = BSs /\ \A c \in BSs : DOMAIN disk'[c] = Files
    BY <2>1 DEF TypesInv, BSTypeOK
  <2> QED
    BY <1>1, <2>1, <2>2, <2>3 DEF TypesInv, BSTypeOK, ClientTypes, MessageTypes, Accesses, netVars
<1> QED
  BY <1>2, <1>3, <1>4, <1>5, <1>6 DEF UpdateStep

(* The operator, a disk that refuses, the death of a service, the network. *)
LEMMA UpsetTypes ==
  ASSUME AckInv, TypesInv, NEW b \in BSs,
         \/ Connect(b) \/ WriteFails(b) \/ StallShard(b) \/ ResumeShard(b)
         \/ RemoveFileAccess(b) \/ Crash(b) \/ Restart(b) \/ Break(b) \/ MasterBreak(b)
  PROVE  TypesInv'
<1>1. UNCHANGED <<loads, pingPongs, ticksHalted, ackedBy>>
  BY DEF Connect, WriteFails, StallShard, ResumeShard, RemoveFileAccess, Crash, Restart,
     Break, MasterBreak, Local, egsVars
<1>2. CASE Connect(b)
  <2>1. stale' \in [BSs -> SUBSET RequestIds]
    BY <1>2 DEF Connect, BSConnection, QueuedLoads, TypesInv, BSTypeOK
  <2> QED
    BY <1>1, <1>2, <2>1, ConnectTypes DEF Connect, BSConnection, TypesInv, BSTypeOK,
       ClientTypes, Replacing
<1>3. CASE WriteFails(b) \/ StallShard(b) \/ ResumeShard(b)
  <2>1. /\ \E m \in {"Normal", "Stalled"} : setMode(b, m)
        /\ phase' = phase \/ phase' = [phase EXCEPT ![b] = "network"]
        /\ UNCHANGED <<link, toBS, running, accesses, disk, temp, stale, readState, masterLost>>
    BY <1>3 DEF WriteFails, FailWrite, StallShard, ResumeShard, BSSetMode
  <2>2. PICK m \in {"Normal", "Stalled"} : setMode(b, m)
    BY <2>1
  <2>3. mode' \in [BSs -> {"Normal", "Stalled"}]
    BY <2>2 DEF setMode, TypesInv, BSTypeOK
  <2>4. \A c \in BSs : Telling(toEGS'[c])
    <3>1. StallMsg(m # "Normal").stalled \in BOOLEAN
      BY DEF StallMsg
    <3>2. CASE SendEGS(b, StallMsg(m # "Normal"))
      BY <3>1, <3>2, SendEGSTypes DEF TypesInv
    <3>3. CASE UNCHANGED toEGS
      BY <3>3 DEF TypesInv, MessageTypes
    <3> QED
      BY <2>2, <3>2, <3>3 DEF setMode
  <2>5. phase' \in [BSs -> Phases] /\ \A c \in BSs : Replacing(c)' => accesses'[c] # <<>>
    BY <2>1 DEF TypesInv, BSTypeOK, Replacing, Phases
  <2> QED
    BY <1>1, <2>1, <2>3, <2>4, <2>5 DEF TypesInv, BSTypeOK, ClientTypes, MessageTypes
<1>4. CASE RemoveFileAccess(b)
  <2>1. /\ phase[b] = "network"
        /\ \E i \in DOMAIN accesses[b] :
             accesses' = [accesses EXCEPT ![b] = RemoveAt(accesses[b], i)]
        /\ UNCHANGED <<netVars, running, phase, mode, disk, temp, stale, readState, masterLost>>
    BY <1>4 DEF RemoveFileAccess, BSRemoveFileAccess
  <2>2. PICK i \in DOMAIN accesses[b] :
          accesses' = [accesses EXCEPT ![b] = RemoveAt(accesses[b], i)]
    BY <2>1
  <2>3. RemoveAt(accesses[b], i) \in Seq(Accesses)
    <3>1. accesses[b] \in Seq(Accesses)
      BY DEF TypesInv, BSTypeOK, Accesses
    <3>3. i \in 1 .. Len(accesses[b]) /\ Len(accesses[b]) \in Nat
      BY <3>1
    <3>2. /\ SubSeq(accesses[b], 1, i - 1) \in Seq(Accesses)
          /\ SubSeq(accesses[b], i + 1, Len(accesses[b])) \in Seq(Accesses)
      BY <3>1, <3>3
    <3> QED
      BY <3>2 DEF RemoveAt
  <2>4. accesses' \in [BSs -> Seq(Accesses)]
    BY <2>2, <2>3 DEF TypesInv, BSTypeOK, Accesses
  <2>5. \A c \in BSs : Replacing(c)' => accesses'[c] # <<>>
    BY <2>1, <2>2 DEF TypesInv, BSTypeOK, Replacing
  <2> QED
    BY <1>1, <2>1, <2>4, <2>5 DEF TypesInv, BSTypeOK, ClientTypes, MessageTypes, Accesses, netVars
<1>5. CASE Crash(b)
  <2>1. BSCrash(b) /\ BreakLink(b)
    BY <1>5 DEF Crash, BSCrash
  <2>2. MessageTypes'
    BY <2>1, BreakTypes DEF TypesInv
  <2>3. <<>> \in Seq(Accesses)
    OBVIOUS
  <2>4. /\ running' \in [BSs -> BOOLEAN] /\ phase' \in [BSs -> Phases]
        /\ mode' \in [BSs -> {"Normal", "Stalled"}]
        /\ stale' \in [BSs -> SUBSET RequestIds]
        /\ readState' \in [BSs -> BOOLEAN] /\ disk' = disk /\ DOMAIN temp' = BSs
    BY <2>1 DEF BSCrash, TypesInv, BSTypeOK, Phases
  <2>5. accesses' \in [BSs -> Seq(Accesses)]
    BY <2>1, <2>3 DEF BSCrash, TypesInv, BSTypeOK, Accesses
  <2>6. masterLost' \in [BSs -> BOOLEAN]
    BY <2>1 DEF BSCrash, TypesInv, BSTypeOK
  <2>7. \A c \in BSs : Replacing(c)' => accesses'[c] # <<>>
    BY <2>1 DEF BSCrash, TypesInv, BSTypeOK, Replacing
  <2> QED
    BY <1>1, <2>2, <2>4, <2>5, <2>6, <2>7 DEF TypesInv, BSTypeOK, ClientTypes, Accesses
<1>6. CASE Restart(b)
  BY <1>1, <1>6 DEF Restart, BSRestart, netVars, TypesInv, BSTypeOK, ClientTypes, MessageTypes,
     Replacing
<1>7. CASE Break(b)
  BY <1>1, <1>7, BreakTypes DEF Break, bsVars, TypesInv, BSTypeOK, ClientTypes, Replacing
<1>8. CASE MasterBreak(b)
  BY <1>1, <1>8 DEF MasterBreak, BSLosesMaster, netVars, TypesInv, BSTypeOK, ClientTypes,
     MessageTypes, Replacing
<1> QED
  BY <1>2, <1>3, <1>4, <1>5, <1>6, <1>7, <1>8

(* The EGS.                                                                *)
LEMMA EGSTypes ==
  ASSUME NetAssumption, AckInv, TypesInv,
         \/ \E f \in Files, t \in Writes, cb \in BOOLEAN : Write(t, f, cb)
         \/ \E f \in Files : RequestFile(f)
         \/ ServiceUpdate
         \/ \E b \in BSs : EGSStep(b)
  PROVE  TypesInv'
<1>1. UNCHANGED bsVars
  BY DEF Write, RequestFile, ServiceUpdate, EGSStep, Connection, Disconnection, PingPongs,
     File, StallMode
<1>2. BSTypeOK' /\ \A b \in BSs : Replacing(b)' => accesses'[b] # <<>>
  BY <1>1 DEF TypesInv, BSTypeOK, bsVars, Replacing
<1>3. counter \in Nat /\ (counter < MaxRequests => counter \in RequestIds)
  BY DEF AckInv, IdsInv, RequestIds, NetAssumption
<1>4. ASSUME NEW f \in Files, NEW t \in Writes, NEW cb \in BOOLEAN, Write(t, f, cb)
      PROVE  TypesInv'
  <2>1. /\ counter < MaxRequests /\ SendBSs(Connected, Request(t, counter, f))
        /\ UNCHANGED <<toEGS, loads, pingPongs, ticksHalted, ackedBy>>
    BY <1>4 DEF Write, EGSWrite
  <2>2. Request(t, counter, f) \in Accesses
    BY <1>3, <2>1 DEF Request, Accesses
  <2>3. MessageTypes'
    BY <2>1, <2>2, SendBSsTypes DEF TypesInv
  <2> QED
    BY <1>2, <2>1, <2>3 DEF TypesInv, ClientTypes
<1>5. ASSUME NEW f \in Files, RequestFile(f) PROVE TypesInv'
  <2>1. /\ counter < MaxRequests /\ SendBSs(Connected, Request("load", counter, f))
        /\ loads' = loads \cup {counter}
        /\ UNCHANGED <<toEGS, pingPongs, ticksHalted, ackedBy>>
    BY <1>5 DEF RequestFile, EGSRequestFile
  <2>2. Request("load", counter, f) \in Accesses
    BY <1>3, <2>1 DEF Request, Accesses
  <2>3. MessageTypes'
    BY <2>1, <2>2, SendBSsTypes DEF TypesInv
  <2> QED
    BY <1>2, <1>3, <2>1, <2>3 DEF TypesInv, ClientTypes
<1>6. CASE ServiceUpdate
  <2>1. PICK ready : SendBSs(ready, PingMsg)
    BY <1>6 DEF ServiceUpdate, EGSServiceUpdate
  <2>2. /\ pingPongs' = [b \in BSs |-> {[p EXCEPT !.ready = FALSE] : p \in pingPongs[b]}]
        /\ UNCHANGED <<toEGS, loads, ticksHalted, ackedBy>>
    BY <1>6 DEF ServiceUpdate, EGSServiceUpdate
  <2>3. MessageTypes'
    BY <2>1, <2>2, SendBSsTypes DEF TypesInv
  <2>4. pingPongs' \in [BSs -> SUBSET PingPong]
    <3>1. ASSUME NEW b \in BSs, NEW p \in pingPongs[b]
          PROVE  [p EXCEPT !.ready = FALSE] \in PingPong
      <4>1. p \in PingPong
        BY DEF TypesInv, ClientTypes
      <4> QED
        BY <4>1 DEF PingPong
    <3> QED
      BY <2>2, <3>1
  <2> QED
    BY <1>2, <2>2, <2>3, <2>4 DEF TypesInv, ClientTypes
<1>7. ASSUME NEW b \in BSs, EGSStep(b) PROVE TypesInv'
  <2>1. MessageTypes'
    BY <1>7, EGSReadsTypes DEF TypesInv, EGSStep, Connection, Disconnection, PingPongs, File,
       StallMode, cbBSConnection, cbBSDisconnection, cbBSPingPong, cbFile, cbStallMode
  <2>2. CASE Connection(b)
    <3>1. NewPingPong \in PingPong
      BY DEF NewPingPong, PingPong
    <3> QED
      BY <1>2, <2>1, <2>2, <3>1 DEF Connection, cbBSConnection, TypesInv, ClientTypes
  <2>3. CASE Disconnection(b)
    BY <1>2, <2>1, <2>3 DEF Disconnection, cbBSDisconnection, TypesInv, ClientTypes
  <2>4. CASE File(b)
    BY <1>2, <2>1, <2>4 DEF File, cbFile, TypesInv, ClientTypes
  <2>5. CASE StallMode(b)
    <3>1. /\ EGSReads(b, "STALL_MODE") /\ ticksHalted' = Head(toEGS[b]).stalled
          /\ UNCHANGED <<loads, pingPongs, ackedBy>>
      BY <2>5 DEF StallMode, cbStallMode
    <3>2. ticksHalted' \in BOOLEAN
      BY <3>1, EGSReadsTypes DEF TypesInv
    <3> QED
      BY <1>2, <2>1, <3>1, <3>2 DEF TypesInv, ClientTypes
  <2>6. CASE PingPongs(b)
    <3>1. AckInv' /\ IdsInv'
      BY <2>6, PongKeepsAckInv DEF PingPongs, AckInv
    <3>2. requestIds' \in Seq(0 .. counter - 1) /\ counter \in 0 .. MaxRequests
      BY <2>6, <3>1 DEF PingPongs, cbBSPingPong, IdsInv
    <3> DEFINE l == getLastRequestId(requestIds')
    <3>3. l \in Nat /\ (l = 0 \/ l < counter)
      BY <1>3, <3>2, LastRequestId
    <3>4. l \in {0} \cup RequestIds
      BY <3>2, <3>3 DEF RequestIds, NetAssumption
    <3>5. /\ pingPongs' = [pingPongs EXCEPT ![b] = {[ready |-> TRUE, last |-> l]}]
          /\ UNCHANGED <<loads, ticksHalted>>
      BY <2>6 DEF PingPongs, cbBSPingPong
    <3>6. PICK last : ackedBy' = [i \in RequestIds |->
                        IF i \in ToSet(Leading(requestIds, last)) THEN ackedBy[i] \cup {b}
                        ELSE ackedBy[i]]
      BY <2>6 DEF PingPongs, cbBSPingPong, processCallbacks
    <3> HIDE DEF l
    <3>7. [ready |-> TRUE, last |-> l] \in PingPong
      BY <3>4 DEF PingPong
    <3>8. pingPongs' \in [BSs -> SUBSET PingPong]
      BY <3>5, <3>7 DEF TypesInv, ClientTypes
    <3>9. ackedBy' \in [RequestIds -> SUBSET BSs]
      BY <3>6 DEF TypesInv, ClientTypes
    <3> QED
      BY <1>2, <2>1, <3>5, <3>8, <3>9 DEF TypesInv, ClientTypes
  <2> QED
    BY <1>7, <2>2, <2>3, <2>4, <2>5, <2>6 DEF EGSStep
<1> QED
  BY <1>4, <1>5, <1>6, <1>7

LEMMA TypesInit == NetAssumption /\ Init => TypesInv
<1> SUFFICES ASSUME NetAssumption, Init PROVE TypesInv
  OBVIOUS
<1>1. BSTypeOK /\ \A b \in BSs : ~Replacing(b)
  <2>1. <<>> \in Seq([type : Writes \cup {"load"}, id : RequestIds, file : Files])
    OBVIOUS
  <2> QED
    BY <2>1 DEF Init, BSInit, BSTypeOK, Phases, Replacing
<1>2. ClientTypes
  BY DEF Init, EGSInit, ClientTypes
<1>3. MessageTypes
  <2>1. <<>> \in Seq(Accesses \cup {PingMsg})
    OBVIOUS
  <2>2. Telling(<<>>)
    BY EmptyIsSeq DEF Telling
  <2> QED
    BY <2>1, <2>2 DEF Init, NetInit, MessageTypes
<1> QED
  BY <1>1, <1>2, <1>3 DEF TypesInv

LEMMA TypesStep ==
  ASSUME NetAssumption, AckInv, TypesInv, [Next]_vars
  PROVE  TypesInv'
<1>1. CASE UNCHANGED vars
  BY <1>1 DEF vars, netVars, bsVars, egsVars, TypesInv, BSTypeOK, ClientTypes, MessageTypes,
     Replacing
<1> QED
  BY <1>1, EGSTypes, NetworkTypes, ExecutesTypes, UpsetTypes DEF Next

(* Every variable stays in its type, whatever is stalled, breaks or dies.  *)
THEOREM TypeCorrect == Spec => []TypeOK
<1> USE NetAssumption
<1>1. Init => AckInv /\ RegisterInv /\ TypesInv
  BY AckInit, RegisterInit, TypesInit
<1>2. AckInv /\ RegisterInv /\ TypesInv /\ [Next]_vars => AckInv' /\ RegisterInv' /\ TypesInv'
  BY AckStep, RegisterStep, TypesStep
<1>3. AckInv /\ RegisterInv /\ TypesInv => TypeOK
  BY TypesSuffice
<1> QED
  BY <1>1, <1>2, <1>3, PTL DEF Spec
=============================================================================
