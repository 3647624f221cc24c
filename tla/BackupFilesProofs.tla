-------------------------- MODULE BackupFilesProofs --------------------------
(***************************************************************************)
(* Theorems about the files of the backup services, for any number of      *)
(* services, files, requests and failures: the services implement          *)
(* FileStore, those that have lost nothing hold what the EGS wrote, and a  *)
(* load reads it.                                                          *)
(***************************************************************************)
EXTENDS BackupProofs

-----------------------------------------------------------------------------
(* What a sequence of messages makes of a set of files.                    *)

IsReplays(h, d, s, n) ==
  h = [i \in 0 .. n |-> IF i = 0 THEN d ELSE Access(h[i - 1], s[i])]

LEMMA ReplaysExists ==
  ASSUME NEW d, NEW s, NEW n \in Nat
  PROVE  \E h : IsReplays(h, d, s, n)
<1> DEFINE Holds == {k \in 0 .. n : \E h : IsReplays(h, d, s, k)}
<1>1. 0 \in Holds
  <2> DEFINE h == [i \in 0 .. 0 |-> d]
  <2>1. IsReplays(h, d, s, 0)
    BY SMT DEF IsReplays
  <2> QED
    BY <2>1
<1>2. ASSUME NEW k \in 0 .. n - 1, k \in Holds PROVE k + 1 \in Holds
  <2>1. PICK h : IsReplays(h, d, s, k)
    BY <1>2
  <2> DEFINE e == [i \in 0 .. k + 1 |-> IF i <= k THEN h[i] ELSE Access(h[k], s[k + 1])]
  <2>2. \A i \in 0 .. k : e[i] = h[i]
    OBVIOUS
  <2>3. ASSUME NEW i \in 0 .. k + 1
        PROVE  e[i] = IF i = 0 THEN d ELSE Access(e[i - 1], s[i])
    <3>1. CASE i = 0
      <4>1. e[0] = h[0] /\ h[0] = d
        BY <2>1, <2>2 DEF IsReplays
      <4> QED
        BY <3>1, <4>1
    <3>2. CASE i \in 1 .. k
      <4>1. i - 1 \in 0 .. k /\ i \in 0 .. k /\ i # 0
        BY <3>2
      <4>2. e[i] = h[i] /\ e[i - 1] = h[i - 1]
        BY <2>2, <4>1
      <4>3. h[i] = Access(h[i - 1], s[i])
        BY <2>1, <4>1 DEF IsReplays
      <4> QED
        BY <4>1, <4>2, <4>3
    <3>3. CASE i = k + 1
      <4>1. i - 1 = k /\ k \in 0 .. k /\ i # 0 /\ ~(i <= k)
        BY <3>3
      <4>2. e[i] = Access(h[k], s[i]) /\ e[k] = h[k]
        BY <2>2, <3>3, <4>1
      <4> QED
        BY <4>1, <4>2
    <3> QED
      BY <3>1, <3>2, <3>3
  <2>4. e = [i \in 0 .. k + 1 |-> e[i]]
    OBVIOUS
  <2> HIDE DEF e
  <2>5. IsReplays(e, d, s, k + 1)
    BY <2>3, <2>4, Zenon DEF IsReplays
  <2>6. k + 1 \in 0 .. n
    OBVIOUS
  <2> QED
    BY <2>5, <2>6
<1> HIDE DEF Holds
<1>3. n \in Holds
  <2>1. \A k \in 0 .. n : k \in Holds
    BY <1>1, <1>2, UpToN
  <2> QED
    BY <2>1
<1> QED
  BY <1>3 DEF Holds

(* The recursion that defines Replays.                                     *)
LEMMA ReplaysRecursion ==
  ASSUME NEW d, NEW s, Len(s) \in Nat
  PROVE  /\ Replays(d, s)[0] = d
         /\ \A i \in 1 .. Len(s) : Replays(d, s)[i] = Access(Replays(d, s)[i - 1], s[i])
<1> DEFINE n == Len(s)
           after == CHOOSE h : IsReplays(h, d, s, n)
<1>1. n \in Nat
  OBVIOUS
<1>2. \E h : IsReplays(h, d, s, n)
  <2> HIDE DEF n
  <2> QED
    BY <1>1, ReplaysExists
<1>3. IsReplays(after, d, s, n)
  BY <1>2
<1>4. Replays(d, s) = after
  BY DEF Replays, IsReplays
<1> HIDE DEF after, n
<1>5. after[0] = d
  BY <1>1, <1>3 DEF IsReplays
<1>6. ASSUME NEW i \in 1 .. n PROVE after[i] = Access(after[i - 1], s[i])
  <2>1. i \in 0 .. n /\ i # 0
    BY <1>1
  <2> QED
    BY <1>3, <2>1 DEF IsReplays
<1> QED
  BY <1>4, <1>5, <1>6 DEF n

(* Two sequences that agree so far have made the same of the files.        *)
LEMMA ReplaysAgree ==
  ASSUME NEW d, NEW s, NEW t, Len(s) \in Nat, Len(t) \in Nat,
         NEW m \in Nat, m <= Len(s), m <= Len(t), \A i \in 1 .. m : s[i] = t[i]
  PROVE  \A i \in 0 .. m : Replays(d, s)[i] = Replays(d, t)[i]
<1> DEFINE Same == {i \in 0 .. m : Replays(d, s)[i] = Replays(d, t)[i]}
<1>1. 0 \in Same
  BY ReplaysRecursion
<1>2. ASSUME NEW k \in 0 .. m - 1, k \in Same PROVE k + 1 \in Same
  <2>1. k + 1 \in 1 .. m /\ k + 1 \in 1 .. Len(s) /\ k + 1 \in 1 .. Len(t) /\ (k + 1) - 1 = k
    OBVIOUS
  <2>2. /\ Replays(d, s)[k + 1] = Access(Replays(d, s)[k], s[k + 1])
        /\ Replays(d, t)[k + 1] = Access(Replays(d, t)[k], t[k + 1])
    BY <2>1, ReplaysRecursion
  <2> QED
    BY <1>2, <2>1, <2>2
<1> HIDE DEF Same
<1>3. \A k \in 0 .. m : k \in Same
  BY <1>1, <1>2, UpToN
<1> QED
  BY <1>3 DEF Same

LEMMA ReplayEmpty ==
  ASSUME NEW d
  PROVE  Replay(d, <<>>) = d
<1>1. Len(<<>>) \in Nat /\ Len(<<>>) = 0
  BY EmptyIsSeq
<1>2. Replays(d, <<>>)[0] = d
  BY <1>1, ReplaysRecursion
<1> QED
  BY <1>1, <1>2 DEF Replay

(* One more message at the end.                                            *)
LEMMA ReplayAppend ==
  ASSUME NEW d, NEW s, IsSeq(s), NEW m
  PROVE  /\ Replay(d, Append(s, m)) = Access(Replay(d, s), m)
         /\ \A i \in 0 .. Len(s) : Replays(d, Append(s, m))[i] = Replays(d, s)[i]
<1> DEFINE t == Append(s, m)
           n == Len(s)
<1>1. /\ n \in Nat /\ Len(t) = n + 1 /\ t[n + 1] = m
      /\ \A i \in 1 .. n : t[i] = s[i]
  BY SeqFacts, AppendFacts
<1> HIDE DEF t
<1>2. \A i \in 0 .. n : Replays(d, t)[i] = Replays(d, s)[i]
  <2>1. Len(s) \in Nat /\ Len(t) \in Nat /\ n <= Len(s) /\ n <= Len(t)
    BY <1>1
  <2>2. \A i \in 1 .. n : t[i] = s[i]
    BY <1>1
  <2> HIDE DEF n
  <2> QED
    BY <1>1, <2>1, <2>2, ReplaysAgree
<1>3. Replays(d, t)[n + 1] = Access(Replays(d, t)[n], m)
  <2>1. n + 1 \in 1 .. Len(t) /\ (n + 1) - 1 = n /\ Len(t) \in Nat
    BY <1>1
  <2> HIDE DEF n
  <2> QED
    BY <1>1, <2>1, ReplaysRecursion
<1>4. n \in 0 .. n
  BY <1>1
<1> QED
  BY <1>1, <1>2, <1>3, <1>4 DEF Replay, t

(* The first message has been made.                                        *)
LEMMA ReplayTail ==
  ASSUME NEW d, NEW s, IsSeq(s), s # <<>>
  PROVE  /\ Replay(d, s) = Replay(Access(d, Head(s)), Tail(s))
         /\ \A i \in 1 .. Len(s) :
              Replays(d, s)[i] = Replays(Access(d, Head(s)), Tail(s))[i - 1]
<1> DEFINE t == Tail(s)
           n == Len(t)
           a == Access(d, Head(s))
           Same == {i \in 0 .. n : Replays(d, s)[i + 1] = Replays(a, t)[i]}
<1>1. /\ n \in Nat /\ Len(s) = n + 1 /\ Head(s) = s[1]
      /\ \A i \in 1 .. n : t[i] = s[i + 1]
  BY SeqFacts, TailFacts
<1>2. Len(s) \in Nat /\ Len(t) \in Nat
  BY <1>1
<1> HIDE DEF t, a
<1>3. Replays(d, s)[0] = d /\ Replays(a, t)[0] = a
  BY <1>2, ReplaysRecursion
<1>4. 0 \in Same
  <2>1. 1 \in 1 .. Len(s) /\ 1 - 1 = 0 /\ 0 + 1 = 1 /\ 0 \in 0 .. n
    BY <1>1
  <2>2. Replays(d, s)[1] = Access(Replays(d, s)[0], s[1])
    BY <1>2, <2>1, ReplaysRecursion
  <2> QED
    BY <1>1, <1>3, <2>1, <2>2 DEF a
<1>5. ASSUME NEW k \in 0 .. n - 1, k \in Same PROVE k + 1 \in Same
  <2>1. /\ k + 1 \in 1 .. n /\ k + 1 \in 0 .. n /\ (k + 1) + 1 \in 1 .. Len(s)
        /\ ((k + 1) + 1) - 1 = k + 1 /\ (k + 1) - 1 = k
    BY <1>1
  <2>2. Replays(d, s)[(k + 1) + 1] = Access(Replays(d, s)[k + 1], s[(k + 1) + 1])
    BY <1>2, <2>1, ReplaysRecursion
  <2>3. Replays(a, t)[k + 1] = Access(Replays(a, t)[k], t[k + 1])
    BY <1>2, <2>1, ReplaysRecursion
  <2> QED
    BY <1>1, <1>5, <2>1, <2>2, <2>3
<1> HIDE DEF Same, n
<1>6. \A k \in 0 .. n : k \in Same
  BY <1>1, <1>4, <1>5, UpToN
<1>7. ASSUME NEW i \in 1 .. Len(s) PROVE Replays(d, s)[i] = Replays(a, t)[i - 1]
  <2>1. i - 1 \in 0 .. n /\ (i - 1) + 1 = i
    BY <1>1
  <2> QED
    BY <1>6, <2>1 DEF Same
<1>8. n + 1 \in 1 .. Len(s) /\ (n + 1) - 1 = n
  BY <1>1
<1>9. Replays(d, s)[n + 1] = Replays(a, t)[n]
  BY <1>7, <1>8
<1>10. Replay(d, s) = Replay(a, t)
  BY <1>1, <1>9 DEF Replay, n
<1> QED
  BY <1>7, <1>10 DEF a, t

-----------------------------------------------------------------------------
(* The inductive invariant.  Of one service, p is phase, d disk, t temp, q *)
(* accesses, bs and egs are toBS and toEGS.                                *)

Requests(k) == [type : Writes \cup {"load"}, id : 0 .. k - 1, file : Files]

(* All that the service holds is of requests before the k-th.              *)
Before(k, d, t, q) ==
  /\ d \in [Files -> Seq(0 .. k - 1)] /\ t \in Seq(0 .. k - 1) /\ q \in Seq(Requests(k))

(* Requests arrive in the order of their ids, n of which have been given.  *)
InOrder(n, d, t, q, bs) ==
  /\ Before(n, d, t, q)
  /\ \A j \in 1 .. Len(bs) : bs[j] = PingMsg \/ bs[j] \in Requests(n)
  /\ \A j \in 1 .. Len(bs) : bs[j].type # "BS_PING" => Before(bs[j].id, d, t, q)
  /\ \A i, j \in 1 .. Len(bs) :
       i < j /\ bs[i].type # "BS_PING" /\ bs[j].type # "BS_PING" => bs[i].id < bs[j].id

(* The temporary file is that of the write at the head of the queue.       *)
Writing(p, d, t, q) ==
  /\ p \in {"written", "deleted"} => q # <<>> /\ Head(q).type \in {"save", "append"}
  /\ p = "written" => t = Written(Head(q), d[Head(q).file])

(* The files with the write that is being made, the accesses that follow,  *)
(* and the files when they have been made.                                 *)
Base(p, d, t, q) == IF p = "deleted" THEN [d EXCEPT ![Head(q).file] = t] ELSE d
Rest(p, q) == IF p = "deleted" THEN Tail(q) ELSE q
Content(p, d, t, q) == Replay(Base(p, d, t, q), Rest(p, q))

(* A load finds the file that is expected of it.                           *)
LoadsRead(d, s, exp) ==
  \A i \in 1 .. Len(s) : s[i].type = "load" => Replays(d, s)[i - 1][s[i].file] = exp[s[i].id]

Answered(n, egs, exp) ==
  \A j \in 1 .. Len(egs) :
    egs[j].type = "bs_file" => egs[j].id \in 0 .. n - 1 /\ egs[j].content = exp[egs[j].id]

(* The service will have the files the EGS wrote, and its answers are      *)
(* those the EGS expects.                                                  *)
Agrees(n, p, d, t, q, bs, egs, files, exp) ==
  /\ Replay(Content(p, d, t, q), bs) = files
  /\ LoadsRead(Base(p, d, t, q), Rest(p, q), exp)
  /\ LoadsRead(Content(p, d, t, q), bs, exp)
  /\ Answered(n, egs, exp)

StoresInv ==
  /\ phase = [b \in BSs |-> phase[b]] /\ disk = [b \in BSs |-> disk[b]]
  /\ temp = [b \in BSs |-> temp[b]] /\ accesses = [b \in BSs |-> accesses[b]]
  /\ losses \in [BSs -> Nat] /\ missed \subseteq BSs
  /\ sent = [f \in Files |-> sent[f]] /\ expected = [i \in RequestIds |-> expected[i]]

FilesInv ==
  /\ StoresInv
  /\ \A b \in BSs :
       /\ InOrder(counter, disk[b], temp[b], accesses[b], toBS[b])
       /\ Writing(phase[b], disk[b], temp[b], accesses[b])
       /\ Faithful(b) => Agrees(counter, phase[b], disk[b], temp[b], accesses[b],
                                toBS[b], toEGS[b], sent, expected)

-----------------------------------------------------------------------------
(* Types.                                                                  *)

LEMMA RequestFacts ==
  ASSUME NEW k, NEW m \in Requests(k)
  PROVE  /\ m.type \in Writes \cup {"load"} /\ m.id \in 0 .. k - 1 /\ m.file \in Files
         /\ m.type # "BS_PING" /\ (IsWrite(m) <=> m.type # "load")
  BY DEF Requests, Writes, IsWrite

LEMMA WrittenType ==
  ASSUME NEW I, NEW c \in Seq(I), NEW m, IsWrite(m), m.id \in I
  PROVE  Written(m, c) \in Seq(I)
<1>1. CASE m.type = "save"
  BY <1>1 DEF Written
<1>2. CASE m.type = "append"
  BY <1>2 DEF Written
<1>3. CASE m.type = "delete"
  BY <1>3 DEF Written, NoFile
<1> QED
  BY <1>1, <1>2, <1>3 DEF IsWrite, Writes

LEMMA AccessType ==
  ASSUME NEW k, NEW d \in [Files -> Seq(0 .. k - 1)], NEW m \in Requests(k)
  PROVE  Access(d, m) \in [Files -> Seq(0 .. k - 1)]
<1>1. CASE IsWrite(m)
  <2>1. m.id \in 0 .. k - 1 /\ m.file \in Files
    BY RequestFacts
  <2>2. d[m.file] \in Seq(0 .. k - 1)
    BY <2>1
  <2>3. Written(m, d[m.file]) \in Seq(0 .. k - 1)
    BY <1>1, <2>1, <2>2, WrittenType
  <2>4. Access(d, m) = [d EXCEPT ![m.file] = Written(m, d[m.file])]
    BY <1>1 DEF Access
  <2> QED
    BY <2>3, <2>4
<1>2. CASE ~IsWrite(m)
  BY <1>2 DEF Access
<1> QED
  BY <1>1, <1>2

LEMMA ReplaysType ==
  ASSUME NEW k, NEW d \in [Files -> Seq(0 .. k - 1)], NEW s, Len(s) \in Nat,
         \A i \in 1 .. Len(s) : s[i] \in Requests(k)
  PROVE  \A i \in 0 .. Len(s) : Replays(d, s)[i] \in [Files -> Seq(0 .. k - 1)]
<1> DEFINE n == Len(s)
           D == [Files -> Seq(0 .. k - 1)]
           Typed == {i \in 0 .. n : Replays(d, s)[i] \in D}
<1>1. 0 \in Typed
  BY ReplaysRecursion
<1>2. ASSUME NEW i \in 0 .. n - 1, i \in Typed PROVE i + 1 \in Typed
  <2>1. i + 1 \in 1 .. n /\ i + 1 \in 0 .. n /\ (i + 1) - 1 = i
    OBVIOUS
  <2>2. Replays(d, s)[i + 1] = Access(Replays(d, s)[i], s[i + 1])
    BY <2>1, ReplaysRecursion
  <2>3. Replays(d, s)[i] \in D /\ s[i + 1] \in Requests(k)
    BY <1>2, <2>1
  <2>4. Access(Replays(d, s)[i], s[i + 1]) \in D
    BY <2>3, AccessType
  <2> QED
    BY <2>1, <2>2, <2>4
<1> HIDE DEF Typed
<1>3. n \in Nat
  OBVIOUS
<1> HIDE DEF n
<1>4. \A i \in 0 .. n : i \in Typed
  BY <1>1, <1>2, <1>3, UpToN
<1> QED
  BY <1>4 DEF Typed, n

LEMMA IdsGrow ==
  ASSUME NEW k \in Nat, NEW n \in Nat, k <= n
  PROVE  /\ 0 .. k - 1 \subseteq 0 .. n - 1 /\ Seq(0 .. k - 1) \subseteq Seq(0 .. n - 1)
         /\ Requests(k) \subseteq Requests(n)
<1>1. 0 .. k - 1 \subseteq 0 .. n - 1
  OBVIOUS
<1> QED
  BY <1>1 DEF Requests

LEMMA BeforeGrows ==
  ASSUME NEW k \in Nat, NEW n \in Nat, k <= n, NEW d, NEW t, NEW q, Before(k, d, t, q)
  PROVE  Before(n, d, t, q)
<1>1. /\ Seq(0 .. k - 1) \subseteq Seq(0 .. n - 1)
      /\ Requests(k) \subseteq Requests(n)
  BY IdsGrow
<1> DEFINE S == Seq(0 .. k - 1)
           T == Seq(0 .. n - 1)
<1>2. d \in [Files -> S] /\ t \in S /\ q \in Seq(Requests(k)) /\ S \subseteq T
  BY <1>1 DEF Before
<1> HIDE DEF S, T
<1>3. d \in [Files -> T] /\ t \in T /\ q \in Seq(Requests(n))
  BY <1>1, <1>2
<1> QED
  BY <1>3 DEF Before, T

(* What the service holds when the files are those of all its accesses.    *)
LEMMA BaseType ==
  ASSUME NEW k, NEW p, NEW d, NEW t, NEW q, Before(k, d, t, q), Writing(p, d, t, q)
  PROVE  /\ Base(p, d, t, q) \in [Files -> Seq(0 .. k - 1)]
         /\ Rest(p, q) \in Seq(Requests(k))
<1>1. CASE p = "deleted"
  <2>1. q \in Seq(Requests(k)) /\ q # <<>>
    BY <1>1 DEF Before, Writing
  <2>2. Head(q) \in Requests(k) /\ Tail(q) \in Seq(Requests(k))
    BY <2>1
  <2>3. [d EXCEPT ![Head(q).file] = t] \in [Files -> Seq(0 .. k - 1)]
    BY <2>2, RequestFacts DEF Before
  <2> QED
    BY <1>1, <2>2, <2>3 DEF Base, Rest
<1>2. CASE p # "deleted"
  BY <1>2 DEF Base, Rest, Before
<1> QED
  BY <1>1, <1>2

LEMMA ContentType ==
  ASSUME NEW k, NEW p, NEW d, NEW t, NEW q, Before(k, d, t, q), Writing(p, d, t, q)
  PROVE  Content(p, d, t, q) \in [Files -> Seq(0 .. k - 1)]
<1> DEFINE s == Rest(p, q)
           c == Base(p, d, t, q)
<1>1. c \in [Files -> Seq(0 .. k - 1)] /\ s \in Seq(Requests(k))
  BY BaseType
<1> HIDE DEF s, c
<1>2. Len(s) \in Nat /\ Len(s) \in 0 .. Len(s) /\ \A i \in 1 .. Len(s) : s[i] \in Requests(k)
  BY <1>1
<1>3. Replays(c, s)[Len(s)] \in [Files -> Seq(0 .. k - 1)]
  BY <1>1, <1>2, ReplaysType
<1> QED
  BY <1>3 DEF Content, Replay, s, c

-----------------------------------------------------------------------------
(* Requests arrive in the order of their ids.                              *)

LEMMA InOrderHolds ==
  ASSUME NEW n \in Nat, NEW d, NEW t, NEW q, NEW bs, InOrder(n, d, t, q, bs),
         NEW d2, NEW t2, NEW q2,
         \A k \in 0 .. n : Before(k, d, t, q) => Before(k, d2, t2, q2)
  PROVE  InOrder(n, d2, t2, q2, bs)
<1>1. Before(n, d2, t2, q2)
  BY DEF InOrder
<1>2. ASSUME NEW j \in 1 .. Len(bs), bs[j].type # "BS_PING"
      PROVE  Before(bs[j].id, d2, t2, q2)
  <2>1. bs[j] # PingMsg
    BY <1>2 DEF PingMsg
  <2>2. bs[j] \in Requests(n)
    BY <2>1 DEF InOrder
  <2>3. bs[j].id \in 0 .. n
    BY <2>2 DEF Requests
  <2>4. Before(bs[j].id, d, t, q)
    BY <1>2 DEF InOrder
  <2> QED
    BY <2>3, <2>4
<1> QED
  BY <1>1, <1>2 DEF InOrder

LEMMA InOrderEmpty ==
  ASSUME NEW n, NEW d, NEW t, NEW q, Before(n, d, t, q)
  PROVE  InOrder(n, d, t, q, <<>>)
  BY EmptyIsSeq DEF InOrder

LEMMA InOrderTail ==
  ASSUME NEW n, NEW d, NEW t, NEW q, NEW bs, InOrder(n, d, t, q, bs), IsSeq(bs), bs # <<>>
  PROVE  InOrder(n, d, t, q, Tail(bs))
<1> DEFINE s == Tail(bs)
<1>1. /\ Len(s) \in Nat /\ Len(bs) = Len(s) + 1
      /\ \A i \in 1 .. Len(s) : s[i] = bs[i + 1] /\ i + 1 \in 1 .. Len(bs)
  BY SeqFacts, TailFacts
<1> HIDE DEF s
<1>2. \A j \in 1 .. Len(s) : s[j] = PingMsg \/ s[j] \in Requests(n)
  BY <1>1 DEF InOrder
<1>3. \A j \in 1 .. Len(s) : s[j].type # "BS_PING" => Before(s[j].id, d, t, q)
  BY <1>1 DEF InOrder
<1>4. ASSUME NEW i \in 1 .. Len(s), NEW j \in 1 .. Len(s), i < j,
             s[i].type # "BS_PING", s[j].type # "BS_PING"
      PROVE  s[i].id < s[j].id
  <2>1. i + 1 < j + 1
    BY <1>1, <1>4
  <2> QED
    BY <1>1, <1>4, <2>1 DEF InOrder
<1> QED
  BY <1>2, <1>3, <1>4 DEF InOrder, s

(* The service queues the request it reads.                                *)
LEMMA InOrderAccept ==
  ASSUME NEW n \in Nat, NEW d, NEW t, NEW q, NEW bs, InOrder(n, d, t, q, bs), IsSeq(bs),
         bs # <<>>, Head(bs) # PingMsg
  PROVE  InOrder(n, d, t, Append(q, Head(bs)), Tail(bs))
<1> DEFINE s == Tail(bs)
           m == Head(bs)
           r == Append(q, m)
<1>1. /\ Len(s) \in Nat /\ Len(bs) = Len(s) + 1 /\ bs[1] = m /\ 1 \in 1 .. Len(bs)
      /\ \A i \in 1 .. Len(s) : s[i] = bs[i + 1] /\ i + 1 \in 1 .. Len(bs)
  BY SeqFacts, TailFacts
<1>2. InOrder(n, d, t, q, s)
  BY InOrderTail
<1> HIDE DEF s, m
<1>3. m \in Requests(n) /\ m.type # "BS_PING" /\ m.id \in 0 .. n - 1
  <2>1. m \in Requests(n)
    BY <1>1 DEF InOrder, m
  <2> QED
    BY <2>1, RequestFacts
<1>4. ASSUME NEW k \in Nat, m.id < k, Before(k, d, t, q) PROVE Before(k, d, t, r)
  <2>1. m \in Requests(k)
    BY <1>3, <1>4 DEF Requests
  <2> QED
    BY <1>4, <2>1 DEF Before
<1>5. Before(n, d, t, r)
  BY <1>2, <1>3, <1>4 DEF InOrder
<1>6. ASSUME NEW j \in 1 .. Len(s), s[j].type # "BS_PING" PROVE Before(s[j].id, d, t, r)
  <2>1. 1 < j + 1 /\ bs[j + 1].type # "BS_PING" /\ bs[1].type # "BS_PING"
    BY <1>1, <1>3, <1>6
  <2>2. m.id < s[j].id
    BY <1>1, <2>1 DEF InOrder
  <2>3. s[j] # PingMsg
    BY <1>6 DEF PingMsg
  <2>4. s[j] \in Requests(n)
    BY <1>2, <2>3 DEF InOrder
  <2>5. s[j].id \in Nat
    BY <2>4 DEF Requests
  <2>6. Before(s[j].id, d, t, q)
    BY <1>2, <1>6 DEF InOrder
  <2> QED
    BY <1>4, <2>2, <2>5, <2>6
<1> HIDE DEF r
<1>7. InOrder(n, d, t, r, s)
  BY <1>2, <1>5, <1>6 DEF InOrder
<1> QED
  BY <1>7 DEF r, s, m

LEMMA InOrderPing ==
  ASSUME NEW n, NEW d, NEW t, NEW q, NEW bs, InOrder(n, d, t, q, bs), IsSeq(bs)
  PROVE  InOrder(n, d, t, q, Append(bs, PingMsg))
<1> DEFINE s == Append(bs, PingMsg)
<1>1. /\ Len(bs) \in Nat /\ Len(s) = Len(bs) + 1 /\ s[Len(bs) + 1] = PingMsg
      /\ \A i \in 1 .. Len(bs) : s[i] = bs[i]
  BY SeqFacts, AppendFacts
<1> HIDE DEF s
<1>2. \A i \in 1 .. Len(s) : s[i] = PingMsg \/ (i \in 1 .. Len(bs) /\ s[i] = bs[i])
  BY <1>1
<1>3. PingMsg.type = "BS_PING"
  BY DEF PingMsg
<1>4. \A j \in 1 .. Len(s) : s[j] = PingMsg \/ s[j] \in Requests(n)
  BY <1>2 DEF InOrder
<1>5. \A j \in 1 .. Len(s) : s[j].type # "BS_PING" => Before(s[j].id, d, t, q)
  BY <1>2, <1>3 DEF InOrder
<1>6. \A i, j \in 1 .. Len(s) :
        i < j /\ s[i].type # "BS_PING" /\ s[j].type # "BS_PING" => s[i].id < s[j].id
  BY <1>2, <1>3 DEF InOrder
<1> QED
  BY <1>4, <1>5, <1>6 DEF InOrder, s

(* A request has the next id, whether the service is sent it or not.       *)
LEMMA InOrderNext ==
  ASSUME NEW n \in Nat, NEW d, NEW t, NEW q, NEW bs, InOrder(n, d, t, q, bs)
  PROVE  InOrder(n + 1, d, t, q, bs)
<1>1. n + 1 \in Nat /\ n <= n + 1
  OBVIOUS
<1>2. Before(n + 1, d, t, q)
  BY <1>1, BeforeGrows DEF InOrder
<1>3. Requests(n) \subseteq Requests(n + 1)
  BY <1>1, IdsGrow
<1> QED
  BY <1>2, <1>3 DEF InOrder

LEMMA InOrderRequest ==
  ASSUME NEW n \in Nat, NEW d, NEW t, NEW q, NEW bs, InOrder(n, d, t, q, bs), IsSeq(bs),
         NEW m \in Requests(n + 1), m.id = n
  PROVE  InOrder(n + 1, d, t, q, Append(bs, m))
<1> DEFINE s == Append(bs, m)
<1>1. /\ Len(bs) \in Nat /\ Len(s) = Len(bs) + 1 /\ s[Len(bs) + 1] = m
      /\ \A i \in 1 .. Len(bs) : s[i] = bs[i]
  BY SeqFacts, AppendFacts
<1> HIDE DEF s
<1>2. InOrder(n + 1, d, t, q, bs)
  BY InOrderNext
<1>3. \A i \in 1 .. Len(s) : (i = Len(s) /\ s[i] = m) \/ (i \in 1 .. Len(bs) /\ s[i] = bs[i])
  BY <1>1
<1>4. \A j \in 1 .. Len(s) : s[j] = PingMsg \/ s[j] \in Requests(n + 1)
  BY <1>2, <1>3 DEF InOrder
<1>5. \A j \in 1 .. Len(s) : s[j].type # "BS_PING" => Before(s[j].id, d, t, q)
  <2>1. Before(m.id, d, t, q)
    BY DEF InOrder
  <2> QED
    BY <1>2, <1>3, <2>1 DEF InOrder
<1>6. ASSUME NEW i \in 1 .. Len(s), NEW j \in 1 .. Len(s), i < j,
             s[i].type # "BS_PING", s[j].type # "BS_PING"
      PROVE  s[i].id < s[j].id
  <2>1. i \in 1 .. Len(bs) /\ s[i] = bs[i]
    BY <1>1, <1>6
  <2>2. CASE j \in 1 .. Len(bs)
    BY <1>1, <1>6, <2>1, <2>2 DEF InOrder
  <2>3. CASE s[j] = m
    <3>1. bs[i] # PingMsg
      BY <1>6, <2>1 DEF PingMsg
    <3>2. bs[i] \in Requests(n)
      BY <2>1, <3>1 DEF InOrder
    <3>3. bs[i].id \in 0 .. n - 1
      BY <3>2 DEF Requests
    <3> QED
      BY <2>1, <2>3, <3>3
  <2> QED
    BY <1>3, <2>2, <2>3
<1>7. Before(n + 1, d, t, q)
  BY <1>2 DEF InOrder
<1> QED
  BY <1>4, <1>5, <1>6, <1>7 DEF InOrder, s

-----------------------------------------------------------------------------
(* What a service holds while it executes its accesses.                    *)

LEMMA QueueFacts ==
  ASSUME NEW k, NEW q \in Seq(Requests(k)), q # <<>>
  PROVE  /\ IsSeq(q) /\ Head(q) \in Requests(k) /\ Tail(q) \in Seq(Requests(k))
         /\ Head(q).file \in Files /\ Head(q).id \in 0 .. k - 1
<1>1. IsSeq(q)
  BY RangeIsSeq
<1>2. Head(q) \in Requests(k) /\ Tail(q) \in Seq(Requests(k))
  OBVIOUS
<1> QED
  BY <1>1, <1>2, RequestFacts

LEMMA PoppedBefore ==
  ASSUME NEW k, NEW d, NEW t, NEW q, Before(k, d, t, q), q # <<>>, NEW c \in {t, NoFile}
  PROVE  /\ Before(k, d, t, Tail(q))
         /\ Before(k, [d EXCEPT ![Head(q).file] = c], NoFile, Tail(q))
         /\ Before(k, [d EXCEPT ![Head(q).file] = c], t, q)
         /\ Before(k, [d EXCEPT ![Head(q).file] = c], t, Tail(q))
<1>1. Tail(q) \in Seq(Requests(k)) /\ Head(q).file \in Files
  BY QueueFacts DEF Before
<1>2. NoFile \in Seq(0 .. k - 1)
  BY DEF NoFile
<1>3. c \in Seq(0 .. k - 1)
  BY <1>2 DEF Before
<1>4. [d EXCEPT ![Head(q).file] = c] \in [Files -> Seq(0 .. k - 1)]
  BY <1>1, <1>3 DEF Before
<1> QED
  BY <1>1, <1>2, <1>4 DEF Before

LEMMA OpenedBefore ==
  ASSUME NEW k, NEW d, NEW t, NEW q, Before(k, d, t, q), q # <<>>, IsWrite(Head(q))
  PROVE  Before(k, d, Written(Head(q), d[Head(q).file]), q)
<1>1. Head(q).file \in Files /\ Head(q).id \in 0 .. k - 1
  BY QueueFacts DEF Before
<1>2. d[Head(q).file] \in Seq(0 .. k - 1)
  BY <1>1 DEF Before
<1>3. Written(Head(q), d[Head(q).file]) \in Seq(0 .. k - 1)
  BY <1>1, <1>2, WrittenType
<1> QED
  BY <1>3 DEF Before

LEMMA RemovedBefore ==
  ASSUME NEW k, NEW d, NEW t, NEW q, Before(k, d, t, q), NEW i \in DOMAIN q
  PROVE  Before(k, d, t, RemoveAt(q, i))
<1>1. q \in Seq(Requests(k)) /\ Len(q) \in Nat /\ i \in 1 .. Len(q)
  BY DEF Before
<1>2. SubSeq(q, 1, i - 1) \in Seq(Requests(k))
  BY <1>1
<1>3. SubSeq(q, i + 1, Len(q)) \in Seq(Requests(k))
  BY <1>1
<1>4. RemoveAt(q, i) \in Seq(Requests(k))
  BY <1>2, <1>3 DEF RemoveAt
<1> QED
  BY <1>4 DEF Before

LEMMA CrashedBefore ==
  ASSUME NEW k, NEW d, NEW t, NEW q, Before(k, d, t, q)
  PROVE  Before(k, d, NoFile, <<>>)
  BY DEF Before, NoFile

-----------------------------------------------------------------------------
(* The loads of a sequence of messages.                                    *)

LEMMA LoadsReadTail ==
  ASSUME NEW d, NEW s, IsSeq(s), s # <<>>, NEW exp, LoadsRead(d, s, exp)
  PROVE  LoadsRead(Access(d, Head(s)), Tail(s), exp)
<1> DEFINE t == Tail(s)
           a == Access(d, Head(s))
<1>1. /\ Len(t) \in Nat /\ Len(s) = Len(t) + 1
      /\ \A i \in 1 .. Len(t) : t[i] = s[i + 1]
      /\ \A i \in 1 .. Len(s) : Replays(d, s)[i] = Replays(a, t)[i - 1]
  BY SeqFacts, TailFacts, ReplayTail
<1> HIDE DEF t, a
<1>2. ASSUME NEW i \in 1 .. Len(t), t[i].type = "load"
      PROVE  Replays(a, t)[i - 1][t[i].file] = exp[t[i].id]
  <2>1. i + 1 \in 1 .. Len(s) /\ (i + 1) - 1 = i /\ i \in 1 .. Len(s) /\ t[i] = s[i + 1]
    BY <1>1
  <2>2. Replays(d, s)[i][s[i + 1].file] = exp[s[i + 1].id]
    BY <1>2, <2>1 DEF LoadsRead
  <2> QED
    BY <1>1, <2>1, <2>2
<1> QED
  BY <1>2 DEF LoadsRead, t, a

LEMMA LoadsReadAppend ==
  ASSUME NEW d, NEW s, IsSeq(s), NEW m, NEW exp, LoadsRead(d, s, exp),
         m.type = "load" => Replay(d, s)[m.file] = exp[m.id]
  PROVE  LoadsRead(d, Append(s, m), exp)
<1> DEFINE t == Append(s, m)
           n == Len(s)
<1>1. /\ n \in Nat /\ Len(t) = n + 1 /\ t[n + 1] = m
      /\ \A i \in 1 .. n : t[i] = s[i]
      /\ \A i \in 0 .. n : Replays(d, t)[i] = Replays(d, s)[i]
      /\ Replay(d, s) = Replays(d, s)[n]
  BY SeqFacts, AppendFacts, ReplayAppend DEF Replay
<1>2. \A i \in 1 .. n : s[i].type = "load" => Replays(d, s)[i - 1][s[i].file] = exp[s[i].id]
  BY DEF LoadsRead
<1> HIDE DEF t, n
<1>3. ASSUME NEW i \in 1 .. Len(t), t[i].type = "load"
      PROVE  Replays(d, t)[i - 1][t[i].file] = exp[t[i].id]
  <2>1. CASE i \in 1 .. n
    <3>1. i - 1 \in 0 .. n /\ t[i] = s[i]
      BY <1>1, <2>1
    <3>2. Replays(d, t)[i - 1] = Replays(d, s)[i - 1]
      BY <1>1, <3>1
    <3> QED
      BY <1>2, <1>3, <2>1, <3>1, <3>2
  <2>2. CASE i = n + 1
    <3>1. i - 1 = n /\ n \in 0 .. n /\ t[i] = m
      BY <1>1, <2>2
    <3>2. Replays(d, t)[i - 1] = Replay(d, s)
      BY <1>1, <3>1
    <3> QED
      BY <1>3, <3>1, <3>2
  <2> QED
    BY <1>1, <2>1, <2>2
<1> QED
  BY <1>3 DEF LoadsRead, t

LEMMA LoadsReadHead ==
  ASSUME NEW d, NEW s, IsSeq(s), s # <<>>, NEW exp, LoadsRead(d, s, exp), Head(s).type = "load"
  PROVE  d[Head(s).file] = exp[Head(s).id]
<1>1. 1 \in 1 .. Len(s) /\ Head(s) = s[1] /\ 1 - 1 = 0 /\ Len(s) \in Nat
  BY SeqFacts, TailFacts
<1>2. Replays(d, s)[0][s[1].file] = exp[s[1].id]
  BY <1>1 DEF LoadsRead
<1>3. Replays(d, s)[0] = d
  BY <1>1, ReplaysRecursion
<1> QED
  BY <1>1, <1>2, <1>3

LEMMA LoadsReadEmpty ==
  ASSUME NEW d, NEW exp
  PROVE  LoadsRead(d, <<>>, exp)
  BY EmptyIsSeq DEF LoadsRead

(* The id of a new request is not that of one under way.                   *)
LEMMA LoadsReadNext ==
  ASSUME NEW n \in Nat, NEW d, NEW s, NEW exp, LoadsRead(d, s, exp), NEW c,
         \A i \in 1 .. Len(s) : s[i].type = "load" => s[i].id \in 0 .. n - 1,
         NEW I, exp = [i \in I |-> exp[i]], 0 .. n - 1 \subseteq I
  PROVE  LoadsRead(d, s, [exp EXCEPT ![n] = c])
<1> DEFINE e == [exp EXCEPT ![n] = c]
<1>1. \A i \in 0 .. n - 1 : e[i] = exp[i]
  <2> TAKE i \in 0 .. n - 1
  <2>1. i # n /\ i \in I
    OBVIOUS
  <2> QED
    BY <2>1
<1> HIDE DEF e
<1>2. LoadsRead(d, s, e)
  BY <1>1 DEF LoadsRead
<1> QED
  BY <1>2 DEF e

(* Answers.                                                                *)

LEMMA AnsweredTail ==
  ASSUME NEW n, NEW egs, IsSeq(egs), egs # <<>>, NEW exp, Answered(n, egs, exp)
  PROVE  Answered(n, Tail(egs), exp)
<1> DEFINE s == Tail(egs)
<1>1. /\ Len(s) \in Nat /\ Len(egs) = Len(s) + 1
      /\ \A i \in 1 .. Len(s) : s[i] = egs[i + 1] /\ i + 1 \in 1 .. Len(egs)
  BY SeqFacts, TailFacts
<1> HIDE DEF s
<1>2. Answered(n, s, exp)
  BY <1>1 DEF Answered
<1> QED
  BY <1>2 DEF s

LEMMA AnsweredAppend ==
  ASSUME NEW n, NEW egs, IsSeq(egs), NEW exp, Answered(n, egs, exp), NEW m,
         m.type = "bs_file" => m.id \in 0 .. n - 1 /\ m.content = exp[m.id]
  PROVE  Answered(n, Append(egs, m), exp)
<1> DEFINE s == Append(egs, m)
<1>1. /\ Len(egs) \in Nat /\ Len(s) = Len(egs) + 1 /\ s[Len(egs) + 1] = m
      /\ \A i \in 1 .. Len(egs) : s[i] = egs[i]
  BY SeqFacts, AppendFacts
<1> HIDE DEF s
<1>2. \A i \in 1 .. Len(s) : s[i] = m \/ (i \in 1 .. Len(egs) /\ s[i] = egs[i])
  BY <1>1
<1>3. Answered(n, s, exp)
  BY <1>2 DEF Answered
<1> QED
  BY <1>3 DEF s

LEMMA AnsweredNext ==
  ASSUME NEW n \in Nat, NEW egs, NEW exp, Answered(n, egs, exp), NEW c,
         NEW I, exp = [i \in I |-> exp[i]], 0 .. n - 1 \subseteq I
  PROVE  Answered(n + 1, egs, [exp EXCEPT ![n] = c])
<1> DEFINE e == [exp EXCEPT ![n] = c]
<1>1. \A i \in 0 .. n - 1 : e[i] = exp[i] /\ i \in 0 .. (n + 1) - 1
  <2> TAKE i \in 0 .. n - 1
  <2>1. i # n /\ i \in I
    OBVIOUS
  <2> QED
    BY <2>1
<1> HIDE DEF e
<1>2. Answered(n + 1, egs, e)
  BY <1>1 DEF Answered
<1> QED
  BY <1>2 DEF e

-----------------------------------------------------------------------------
(* A service that agrees with the EGS.                                     *)

(* The service reads a request and queues it.                              *)
LEMMA AgreesAccept ==
  ASSUME NEW n, NEW p, p # "deleted", NEW d, NEW t, NEW q, NEW bs, NEW egs, NEW files, NEW exp,
         Agrees(n, p, d, t, q, bs, egs, files, exp), IsSeq(q), IsSeq(bs), bs # <<>>
  PROVE  Agrees(n, p, d, t, Append(q, Head(bs)), Tail(bs), egs, files, exp)
<1> DEFINE m == Head(bs)
           s == Tail(bs)
           r == Append(q, m)
<1>1. /\ Base(p, d, t, q) = d /\ Rest(p, q) = q /\ Content(p, d, t, q) = Replay(d, q)
      /\ Base(p, d, t, r) = d /\ Rest(p, r) = r /\ Content(p, d, t, r) = Replay(d, r)
  BY DEF Base, Rest, Content
<1>2. Replay(d, r) = Access(Replay(d, q), m)
  BY ReplayAppend
<1>3. Replay(Replay(d, q), bs) = Replay(Replay(d, r), s)
  BY <1>2, ReplayTail
<1>4. m.type = "load" => Replay(d, q)[m.file] = exp[m.id]
  BY <1>1, LoadsReadHead DEF Agrees
<1>5. LoadsRead(d, r, exp)
  BY <1>1, <1>4, LoadsReadAppend DEF Agrees
<1>6. LoadsRead(Replay(d, r), s, exp)
  BY <1>1, <1>2, LoadsReadTail DEF Agrees
<1> HIDE DEF m, s, r
<1>7. Agrees(n, p, d, t, r, s, egs, files, exp)
  BY <1>1, <1>3, <1>5, <1>6 DEF Agrees
<1> QED
  BY <1>7 DEF m, s, r

(* The service reads what changes no file.                                 *)
LEMMA AgreesIgnore ==
  ASSUME NEW n, NEW p, NEW d, NEW t, NEW q, NEW bs, NEW egs, NEW files, NEW exp,
         Agrees(n, p, d, t, q, bs, egs, files, exp), IsSeq(bs), bs # <<>>, ~IsWrite(Head(bs))
  PROVE  Agrees(n, p, d, t, q, Tail(bs), egs, files, exp)
<1> DEFINE c == Content(p, d, t, q)
<1>1. Access(c, Head(bs)) = c
  BY DEF Access
<1>2. Replay(c, bs) = Replay(c, Tail(bs))
  BY <1>1, ReplayTail
<1>3. LoadsRead(c, Tail(bs), exp)
  BY <1>1, LoadsReadTail DEF Agrees
<1> QED
  BY <1>2, <1>3 DEF Agrees

(* The service has made the access at the head of its queue.               *)
LEMMA ContentMade ==
  ASSUME NEW p, NEW d, NEW t, NEW q, NEW p2, NEW d2, NEW t2, NEW q2,
         IsSeq(Rest(p, q)), Rest(p, q) # <<>>,
         Base(p2, d2, t2, q2) = Access(Base(p, d, t, q), Head(Rest(p, q))),
         Rest(p2, q2) = Tail(Rest(p, q))
  PROVE  Content(p2, d2, t2, q2) = Content(p, d, t, q)
  BY ReplayTail DEF Content

LEMMA AgreesMade ==
  ASSUME NEW n, NEW p, NEW d, NEW t, NEW q, NEW bs, NEW egs, NEW files, NEW exp,
         NEW p2, NEW d2, NEW t2, NEW q2,
         Agrees(n, p, d, t, q, bs, egs, files, exp), IsSeq(Rest(p, q)), Rest(p, q) # <<>>,
         Base(p2, d2, t2, q2) = Access(Base(p, d, t, q), Head(Rest(p, q))),
         Rest(p2, q2) = Tail(Rest(p, q))
  PROVE  Agrees(n, p2, d2, t2, q2, bs, egs, files, exp)
<1>1. Content(p2, d2, t2, q2) = Content(p, d, t, q)
  BY ContentMade
<1>2. LoadsRead(Base(p2, d2, t2, q2), Rest(p2, q2), exp)
  BY LoadsReadTail DEF Agrees
<1> QED
  BY <1>1, <1>2 DEF Agrees

(* The service has not.                                                    *)
LEMMA AgreesSame ==
  ASSUME NEW n, NEW p, NEW d, NEW t, NEW q, NEW bs, NEW egs, NEW files, NEW exp,
         NEW p2, NEW d2, NEW t2, NEW q2,
         Base(p2, d2, t2, q2) = Base(p, d, t, q), Rest(p2, q2) = Rest(p, q)
  PROVE  /\ Content(p2, d2, t2, q2) = Content(p, d, t, q)
         /\ Agrees(n, p, d, t, q, bs, egs, files, exp)
              => Agrees(n, p2, d2, t2, q2, bs, egs, files, exp)
  BY DEF Agrees, Content

(* The EGS sends a ping, a write, a load.                                  *)
LEMMA AgreesPing ==
  ASSUME NEW n, NEW p, NEW d, NEW t, NEW q, NEW bs, NEW egs, NEW files, NEW exp,
         Agrees(n, p, d, t, q, bs, egs, files, exp), IsSeq(bs)
  PROVE  Agrees(n, p, d, t, q, Append(bs, PingMsg), egs, files, exp)
<1> DEFINE c == Content(p, d, t, q)
<1>1. PingMsg.type # "load" /\ ~IsWrite(PingMsg)
  BY DEF PingMsg, IsWrite, Writes
<1>2. Replay(c, Append(bs, PingMsg)) = Replay(c, bs)
  BY <1>1, ReplayAppend DEF Access
<1>3. LoadsRead(c, Append(bs, PingMsg), exp)
  BY <1>1, LoadsReadAppend DEF Agrees
<1> QED
  BY <1>2, <1>3 DEF Agrees

LEMMA AgreesWrite ==
  ASSUME NEW n \in Nat, NEW p, NEW d, NEW t, NEW q, NEW bs, NEW egs, NEW files, NEW exp,
         Agrees(n, p, d, t, q, bs, egs, files, exp), IsSeq(bs), NEW m, IsWrite(m)
  PROVE  Agrees(n + 1, p, d, t, q, Append(bs, m), egs, Access(files, m), exp)
<1> DEFINE c == Content(p, d, t, q)
<1>1. m.type # "load"
  BY DEF IsWrite, Writes
<1>2. Replay(c, Append(bs, m)) = Access(files, m)
  BY ReplayAppend DEF Agrees
<1>3. LoadsRead(c, Append(bs, m), exp)
  BY <1>1, LoadsReadAppend DEF Agrees
<1>4. Answered(n + 1, egs, exp)
  <2>1. \A i \in 0 .. n - 1 : i \in 0 .. (n + 1) - 1
    OBVIOUS
  <2> QED
    BY <2>1 DEF Agrees, Answered
<1> QED
  BY <1>2, <1>3, <1>4 DEF Agrees

LEMMA AgreesLoad ==
  ASSUME NEW n \in Nat, NEW p, NEW d, NEW t, NEW q, NEW bs, NEW egs, NEW files, NEW exp,
         Agrees(n, p, d, t, q, bs, egs, files, exp), IsSeq(bs), NEW m, m.type = "load", m.id = n,
         \A i \in 1 .. Len(Rest(p, q)) : Rest(p, q)[i] \in Requests(n),
         \A i \in 1 .. Len(bs) : bs[i] = PingMsg \/ bs[i] \in Requests(n),
         NEW I, exp = [i \in I |-> exp[i]], n \in I, 0 .. n - 1 \subseteq I
  PROVE  Agrees(n + 1, p, d, t, q, Append(bs, m), egs, files, [exp EXCEPT ![n] = files[m.file]])
<1> DEFINE c == Content(p, d, t, q)
           e == [exp EXCEPT ![n] = files[m.file]]
<1>1. Replay(c, bs) = files /\ ~IsWrite(m)
  BY DEF Agrees, IsWrite, Writes
<1>2. Replay(c, Append(bs, m)) = files
  BY <1>1, ReplayAppend DEF Access
<1>3. \A i \in 1 .. Len(Rest(p, q)) : Rest(p, q)[i].id \in 0 .. n - 1
  BY RequestFacts
<1>4. \A i \in 1 .. Len(bs) : bs[i].type = "load" => bs[i].id \in 0 .. n - 1
  BY RequestFacts DEF PingMsg
<1>5. LoadsRead(Base(p, d, t, q), Rest(p, q), e)
  BY <1>3, LoadsReadNext DEF Agrees
<1>6. LoadsRead(c, bs, e)
  BY <1>4, LoadsReadNext DEF Agrees
<1>7. e[n] = files[m.file]
  OBVIOUS
<1>8. Answered(n + 1, egs, e)
  BY AnsweredNext DEF Agrees
<1> HIDE DEF e, c
<1>9. LoadsRead(c, Append(bs, m), e)
  BY <1>1, <1>6, <1>7, LoadsReadAppend
<1> QED
  BY <1>2, <1>5, <1>8, <1>9 DEF Agrees, e, c

-----------------------------------------------------------------------------
(* Steps of a service.                                                     *)

(* What the invariant says of a service.                                   *)
LEMMA ServiceFacts ==
  ASSUME AckInv, FilesInv, NetAssumption, NEW b \in BSs
  PROVE  /\ counter \in Nat /\ IsSeq(toBS[b]) /\ IsSeq(toEGS[b]) /\ IsSeq(accesses[b])
         /\ Before(counter, disk[b], temp[b], accesses[b])
         /\ InOrder(counter, disk[b], temp[b], accesses[b], toBS[b])
         /\ Writing(phase[b], disk[b], temp[b], accesses[b])
         /\ Faithful(b) => Agrees(counter, phase[b], disk[b], temp[b], accesses[b],
                                  toBS[b], toEGS[b], sent, expected)
<1>1. counter \in Nat /\ IsSeq(toBS[b]) /\ IsSeq(toEGS[b])
  BY DEF AckInv, IdsInv, ServiceInv, ChannelInv, NetAssumption
<1>2. InOrder(counter, disk[b], temp[b], accesses[b], toBS[b])
  BY DEF FilesInv
<1>3. Before(counter, disk[b], temp[b], accesses[b])
  BY <1>2 DEF InOrder
<1>4. IsSeq(accesses[b])
  BY <1>3, RangeIsSeq DEF Before
<1> QED
  BY <1>1, <1>2, <1>3, <1>4 DEF FilesInv

LEMMA SelfUpdate ==
  ASSUME AckInv, FilesInv, NEW b \in BSs
  PROVE  /\ phase = [phase EXCEPT ![b] = phase[b]] /\ disk = [disk EXCEPT ![b] = disk[b]]
         /\ temp = [temp EXCEPT ![b] = temp[b]]
         /\ accesses = [accesses EXCEPT ![b] = accesses[b]]
         /\ toBS = [toBS EXCEPT ![b] = toBS[b]] /\ toEGS = [toEGS EXCEPT ![b] = toEGS[b]]
  BY DEF AckInv, FunctionsInv, FilesInv, StoresInv

(* A step of service b, or of the EGS that reads its messages, and what it *)
(* makes of them.                                                          *)
Becomes(b, p, d, t, q, bs, egs) ==
  /\ phase' = [phase EXCEPT ![b] = p] /\ disk' = [disk EXCEPT ![b] = d]
  /\ temp' = [temp EXCEPT ![b] = t] /\ accesses' = [accesses EXCEPT ![b] = q]
  /\ toBS' = [toBS EXCEPT ![b] = bs] /\ toEGS' = [toEGS EXCEPT ![b] = egs]
  /\ counter' = counter /\ sent' = sent /\ expected' = expected

NoneLost == losses' = losses /\ missed' = missed

(* What the step is to the store: a loss, nothing, or a write accepted.    *)
Stored(b, p, d, t, q) ==
  LET old == Content(phase[b], disk[b], temp[b], accesses[b])
      new == Content(p, d, t, q)
  IN  \/ Loss(b)
      \/ losses' = losses /\ new = old
      \/ losses' = losses /\ \E m \in Requests(counter) :
           /\ IsWrite(m) /\ new = Access(old, m)
           /\ \A f \in Files : \A i \in DOMAIN old[f] : old[f][i] < m.id

Contents == [b \in BSs |-> Logical(b)]

StoreStep == Store!Next \/ UNCHANGED <<Contents, losses>>

LEMMA LogicalIsContent ==
  ASSUME NEW b
  PROVE  Logical(b) = Content(phase[b], disk[b], temp[b], accesses[b])
<1>1. CASE phase[b] = "deleted"
  BY <1>1 DEF Logical, Content, Base, Rest
<1>2. CASE phase[b] # "deleted"
  BY <1>2 DEF Logical, Content, Base, Rest
<1> QED
  BY <1>1, <1>2

(* No service does anything.                                               *)
LEMMA StoreStutters ==
  ASSUME UNCHANGED <<phase, disk, temp, accesses>>, losses' = losses
  PROVE  StoreStep
<1>1. ASSUME NEW b \in BSs PROVE Logical(b)' = Logical(b)
  BY DEF Logical
<1>2. Contents' = Contents
  BY <1>1 DEF Contents
<1> QED
  BY <1>2 DEF StoreStep

LEMMA OneServiceStored ==
  ASSUME AckInv, FilesInv, NetAssumption, NEW b \in BSs,
         NEW p, NEW d, NEW t, NEW q, NEW bs, NEW egs,
         Becomes(b, p, d, t, q, bs, egs), Stored(b, p, d, t, q)
  PROVE  StoreStep
<1> DEFINE old == Content(phase[b], disk[b], temp[b], accesses[b])
           new == Content(p, d, t, q)
<1>1. ASSUME NEW c \in BSs \ {b} PROVE Logical(c)' = Logical(c)
  <2>1. /\ phase'[c] = phase[c] /\ disk'[c] = disk[c] /\ temp'[c] = temp[c]
        /\ accesses'[c] = accesses[c]
    BY DEF FilesInv, StoresInv, Becomes
  <2> QED
    BY <2>1 DEF Logical
<1>2. Logical(b) = old /\ Logical(b)' = new
  <2>1. phase'[b] = p /\ disk'[b] = d /\ temp'[b] = t /\ accesses'[b] = q
    BY DEF FilesInv, StoresInv, Becomes
  <2>2. Logical(b)' = new
    <3>1. CASE p = "deleted"
      BY <2>1, <3>1 DEF Logical, Content, Base, Rest
    <3>2. CASE p # "deleted"
      BY <2>1, <3>2 DEF Logical, Content, Base, Rest
    <3> QED
      BY <3>1, <3>2
  <2> QED
    BY <2>2, LogicalIsContent
<1>3. CASE Loss(b)
  <2>1. \A c \in BSs \ {b} : Contents'[c] = Contents[c]
    BY <1>1 DEF Contents
  <2>2. Store!Lose(b)
    BY <1>3, <2>1 DEF Store!Lose, Loss, Contents
  <2> QED
    BY <2>2 DEF StoreStep, Store!Next
<1>4. CASE losses' = losses /\ new = old
  <2>1. Contents' = Contents
    BY <1>1, <1>2, <1>4 DEF Contents
  <2> QED
    BY <1>4, <2>1 DEF StoreStep
<1>5. ASSUME losses' = losses, NEW m \in Requests(counter), IsWrite(m), new = Access(old, m),
             \A f \in Files : \A i \in DOMAIN old[f] : old[f][i] < m.id
      PROVE  StoreStep
  <2>1. m.file \in Files /\ m.id \in RequestIds
    BY RequestFacts DEF AckInv, IdsInv, NetAssumption, RequestIds
  <2>2. new = [old EXCEPT ![m.file] = Written(m, old[m.file])]
    BY <1>5 DEF Access
  <2>3. Contents[b] = old
    BY <1>2 DEF Contents
  <2>4. Contents' = [Contents EXCEPT ![b] = new]
    BY <1>1, <1>2 DEF Contents
  <2>5. Contents' = [Contents EXCEPT ![b] = [@ EXCEPT ![m.file] = Written(m, old[m.file])]]
    BY <2>2, <2>3, <2>4
  <2>6. Written(m, old[m.file]) \in {<<m.id>>, Append(old[m.file], m.id), <<>>}
    <3>1. CASE m.type = "save"
      BY <3>1 DEF Written
    <3>2. CASE m.type = "append"
      BY <3>2 DEF Written
    <3>3. CASE m.type = "delete"
      BY <3>3 DEF Written, NoFile
    <3> QED
      BY <1>5, <3>1, <3>2, <3>3 DEF IsWrite, Writes
  <2>7. \A i \in DOMAIN Contents[b][m.file] : Contents[b][m.file][i] < m.id
    BY <1>5, <2>1, <2>3
  <2> HIDE DEF old, new
  <2>8. \/ Contents' = [Contents EXCEPT ![b][m.file] = <<m.id>>]
        \/ Contents' = [Contents EXCEPT ![b][m.file] = Append(@, m.id)]
        \/ Contents' = [Contents EXCEPT ![b][m.file] = <<>>]
    BY <2>3, <2>5, <2>6
  <2>9. Store!Accept(b, m.file, m.id)
    BY <1>5, <2>7, <2>8 DEF Store!Accept, Contents
  <2> QED
    BY <2>1, <2>9 DEF StoreStep, Store!Next
<1> QED
  BY <1>3, <1>4, <1>5 DEF Stored

LEMMA OneServiceStep ==
  ASSUME AckInv, FilesInv, NetAssumption, NEW b \in BSs,
         NEW p, NEW d, NEW t, NEW q, NEW bs, NEW egs,
         Becomes(b, p, d, t, q, bs, egs), Stored(b, p, d, t, q),
         Loss(b) \/ losses' = losses,
         missed' = missed \cup {b} \/ missed' = missed,
         InOrder(counter, d, t, q, bs), Writing(p, d, t, q),
         NoneLost /\ Faithful(b)
           => Agrees(counter, p, d, t, q, bs, egs, sent, expected)
  PROVE  FilesInv' /\ StoreStep
<1>1. losses \in [BSs -> Nat] /\ missed \subseteq BSs
  BY DEF FilesInv, StoresInv
<1>2. losses' \in [BSs -> Nat] /\ missed' \subseteq BSs
  BY <1>1 DEF Loss
<1>3. StoresInv'
  BY <1>2 DEF FilesInv, StoresInv, Becomes
<1>4. /\ phase'[b] = p /\ disk'[b] = d /\ temp'[b] = t /\ accesses'[b] = q
      /\ toBS'[b] = bs /\ toEGS'[b] = egs
  BY DEF FilesInv, StoresInv, AckInv, FunctionsInv, Becomes
<1>5. Faithful(b)' => NoneLost /\ Faithful(b)
  <2>1. ASSUME Faithful(b)' PROVE NoneLost
    <3>1. losses'[b] = 0 /\ b \notin missed'
      BY <2>1 DEF Faithful, NoneLost
    <3>2. ~Loss(b)
      BY <1>1, <3>1 DEF Loss
    <3>3. missed' = missed
      BY <3>1
    <3> QED
      BY <3>2, <3>3 DEF NoneLost
  <2> QED
    BY <2>1 DEF Faithful, NoneLost
<1>6. ASSUME NEW c \in BSs
      PROVE  /\ InOrder(counter, disk[c], temp[c], accesses[c], toBS[c])'
             /\ Writing(phase[c], disk[c], temp[c], accesses[c])'
             /\ (Faithful(c) => Agrees(counter, phase[c], disk[c], temp[c], accesses[c],
                                       toBS[c], toEGS[c], sent, expected))'
  <2>1. CASE c = b
    BY <1>4, <1>5, <2>1 DEF Becomes
  <2>2. CASE c # b
    <3>1. /\ phase'[c] = phase[c] /\ disk'[c] = disk[c] /\ temp'[c] = temp[c]
          /\ accesses'[c] = accesses[c] /\ toBS'[c] = toBS[c] /\ toEGS'[c] = toEGS[c]
      BY <2>2 DEF FilesInv, StoresInv, AckInv, FunctionsInv, Becomes
    <3>2. losses'[c] = losses[c] /\ (c \in missed' <=> c \in missed)
      BY <1>1, <2>2 DEF Loss
    <3>3. counter' = counter /\ sent' = sent /\ expected' = expected
      BY DEF Becomes
    <3> QED
      BY <3>1, <3>2, <3>3 DEF FilesInv, Faithful
  <2> QED
    BY <2>1, <2>2
<1>7. StoreStep
  BY OneServiceStored
<1> QED
  BY <1>3, <1>6, <1>7 DEF FilesInv

(* The service tells the EGS something, or the EGS hears of it.            *)
LEMMA EGSQueueStep ==
  ASSUME AckInv, FilesInv, NetAssumption, NEW b \in BSs, NEW egs,
         toEGS' = [toEGS EXCEPT ![b] = egs],
         UNCHANGED <<phase, disk, temp, accesses, toBS>>,
         UNCHANGED <<counter, sent, expected>>, NoneLost,
         Answered(counter, toEGS[b], expected) => Answered(counter, egs, expected)
  PROVE  FilesInv' /\ StoreStep
<1>1. Becomes(b, phase[b], disk[b], temp[b], accesses[b], toBS[b], egs)
  BY SelfUpdate DEF Becomes
<1>2. Faithful(b) => Agrees(counter, phase[b], disk[b], temp[b], accesses[b],
                            toBS[b], egs, sent, expected)
  BY ServiceFacts DEF Agrees
<1>3. losses' = losses /\ missed' = missed
  BY DEF NoneLost
<1>4. Stored(b, phase[b], disk[b], temp[b], accesses[b])
  BY <1>3 DEF Stored
<1> QED
  BY <1>1, <1>2, <1>3, <1>4, ServiceFacts, OneServiceStep

(* A request that the service queues, and what it holds came before.       *)
LEMMA AcceptStored ==
  ASSUME AckInv, FilesInv, NetAssumption, NEW b \in BSs,
         phase[b] = "network", toBS[b] # <<>>, Head(toBS[b]) # PingMsg, losses' = losses
  PROVE  Stored(b, phase[b], disk[b], temp[b], Append(accesses[b], Head(toBS[b])))
<1> DEFINE m == Head(toBS[b])
           r == Append(accesses[b], m)
           old == Content(phase[b], disk[b], temp[b], accesses[b])
           new == Content(phase[b], disk[b], temp[b], r)
<1>1. 1 \in 1 .. Len(toBS[b]) /\ m = toBS[b][1]
  BY ServiceFacts, SeqFacts, TailFacts
<1>2. m \in Requests(counter) /\ m.type # "BS_PING"
  BY <1>1, ServiceFacts, RequestFacts DEF InOrder
<1>3. Before(m.id, disk[b], temp[b], accesses[b])
  BY <1>1, <1>2, ServiceFacts DEF InOrder
<1>4. new = Access(old, m)
  <2>1. /\ old = Replay(disk[b], accesses[b]) /\ new = Replay(disk[b], r)
    BY DEF Content, Base, Rest
  <2> QED
    BY <2>1, ServiceFacts, ReplayAppend
<1>5. old \in [Files -> Seq(0 .. m.id - 1)]
  BY <1>3, ServiceFacts, ContentType
<1>6. m.id \in Nat
  BY <1>2, RequestFacts
<1> HIDE DEF m, old, new, r
<1>7. \A f \in Files : \A i \in DOMAIN old[f] : old[f][i] < m.id
  <2> SUFFICES ASSUME NEW f \in Files, NEW i \in DOMAIN old[f] PROVE old[f][i] < m.id
    OBVIOUS
  <2>1. old[f] \in Seq(0 .. m.id - 1)
    BY <1>5
  <2>2. \A S, q : q \in Seq(S) => \A j \in DOMAIN q : q[j] \in S
    OBVIOUS
  <2>3. old[f][i] \in 0 .. m.id - 1
    BY <2>1, <2>2
  <2> QED
    BY <1>6, <2>3
<1>8. CASE IsWrite(m)
  BY <1>2, <1>4, <1>7, <1>8 DEF Stored, m, r, old, new
<1>9. CASE ~IsWrite(m)
  <2>1. new = old
    BY <1>4, <1>9 DEF Access
  <2> QED
    BY <2>1 DEF Stored, m, r, old, new
<1> QED
  BY <1>8, <1>9

(* The service reads a request.                                            *)
LEMMA WriteFileStep ==
  ASSUME AckInv, FilesInv, NetAssumption, NEW b \in BSs, WriteFile(b) \/ LoadFile(b)
  PROVE  FilesInv' /\ StoreStep
<1> DEFINE r == Append(accesses[b], Head(toBS[b]))
<1>1. /\ phase[b] = "network" /\ toBS[b] # <<>>
      /\ Head(toBS[b]).type \in Writes \cup {"load"}
      /\ toBS' = [toBS EXCEPT ![b] = Tail(toBS[b])]
      /\ UNCHANGED <<phase, disk, temp, toEGS>> /\ UNCHANGED <<counter, sent, expected>>
      /\ losses' = losses /\ missed' = missed
  BY DEF WriteFile, LoadFile, BSWriteFile, BSLoadFile, BSReads, Local, egsVars, countVars
<1>2. Head(toBS[b]) # PingMsg
  BY <1>1 DEF PingMsg, Writes
<1>3. phase[b] \notin {"written", "deleted"}
  BY <1>1
<1>4. CASE accesses' = [accesses EXCEPT ![b] = r]
  <2>1. InOrder(counter, disk[b], temp[b], r, Tail(toBS[b]))
    BY <1>1, <1>2, ServiceFacts, InOrderAccept
  <2>2. Faithful(b) => Agrees(counter, phase[b], disk[b], temp[b], r, Tail(toBS[b]), toEGS[b],
                              sent, expected)
    BY <1>1, <1>3, ServiceFacts, AgreesAccept
  <2>3. Writing(phase[b], disk[b], temp[b], r)
    BY <1>3 DEF Writing
  <2>4. Becomes(b, phase[b], disk[b], temp[b], r, Tail(toBS[b]), toEGS[b])
    BY <1>1, <1>4, SelfUpdate DEF Becomes
  <2>5. Stored(b, phase[b], disk[b], temp[b], r)
    BY <1>1, <1>2, <1>3, AcceptStored
  <2> HIDE DEF r
  <2> QED
    BY <1>1, <2>1, <2>2, <2>3, <2>4, <2>5, OneServiceStep
<1>5. CASE Head(toBS[b]).type = "load" /\ UNCHANGED accesses
  <2>1. ~IsWrite(Head(toBS[b]))
    BY <1>5 DEF IsWrite, Writes
  <2>2. InOrder(counter, disk[b], temp[b], accesses[b], Tail(toBS[b]))
    BY <1>1, ServiceFacts, InOrderTail
  <2>3. Faithful(b) => Agrees(counter, phase[b], disk[b], temp[b], accesses[b],
                              Tail(toBS[b]), toEGS[b], sent, expected)
    BY <1>1, <2>1, ServiceFacts, AgreesIgnore
  <2>4. Becomes(b, phase[b], disk[b], temp[b], accesses[b], Tail(toBS[b]), toEGS[b])
    BY <1>1, <1>5, SelfUpdate DEF Becomes
  <2>5. Writing(phase[b], disk[b], temp[b], accesses[b])
    BY ServiceFacts
  <2>6. Stored(b, phase[b], disk[b], temp[b], accesses[b])
    BY <1>1 DEF Stored
  <2> QED
    BY <1>1, <2>2, <2>3, <2>4, <2>5, <2>6, OneServiceStep
<1>6. CASE WriteFile(b)
  BY <1>4, <1>6 DEF WriteFile, BSWriteFile, stackFileAccess
<1>7. CASE LoadFile(b)
  BY <1>4, <1>5, <1>7 DEF LoadFile, BSLoadFile, BSReads, stackFileAccess
<1> QED
  BY <1>6, <1>7

(* The service reads a ping.                                               *)
LEMMA PingStep ==
  ASSUME AckInv, FilesInv, NetAssumption, NEW b \in BSs, Ping(b)
  PROVE  FilesInv' /\ StoreStep
<1>1. /\ toBS[b] # <<>> /\ Head(toBS[b]).type = "BS_PING"
      /\ toBS' = [toBS EXCEPT ![b] = Tail(toBS[b])]
      /\ UNCHANGED <<phase, disk, temp, accesses>> /\ UNCHANGED <<counter, sent, expected>>
      /\ losses' = losses /\ missed' = missed
      /\ SendEGS(b, PongMsg)
  BY DEF Ping, BSPing, BSReads, Local, bsVars, egsVars, countVars
<1>2. PICK egs \in {toEGS[b], Append(toEGS[b], PongMsg)} : toEGS' = [toEGS EXCEPT ![b] = egs]
  BY <1>1 DEF SendEGS
<1>3. Becomes(b, phase[b], disk[b], temp[b], accesses[b], Tail(toBS[b]), egs)
  BY <1>1, <1>2, SelfUpdate DEF Becomes
<1>4. ~IsWrite(Head(toBS[b]))
  BY <1>1 DEF IsWrite, Writes
<1>5. InOrder(counter, disk[b], temp[b], accesses[b], Tail(toBS[b]))
  BY <1>1, ServiceFacts, InOrderTail
<1>6. ASSUME Faithful(b)
      PROVE  Agrees(counter, phase[b], disk[b], temp[b], accesses[b], Tail(toBS[b]), egs,
                    sent, expected)
  <2>1. Agrees(counter, phase[b], disk[b], temp[b], accesses[b], Tail(toBS[b]), toEGS[b],
               sent, expected)
    BY <1>1, <1>4, <1>6, ServiceFacts, AgreesIgnore
  <2>2. PongMsg.type # "bs_file"
    BY DEF PongMsg
  <2>3. Answered(counter, Append(toEGS[b], PongMsg), expected)
    BY <2>1, <2>2, ServiceFacts, AnsweredAppend DEF Agrees
  <2> QED
    BY <1>2, <2>1, <2>3 DEF Agrees
<1>7. Writing(phase[b], disk[b], temp[b], accesses[b])
  BY ServiceFacts
<1>8. Stored(b, phase[b], disk[b], temp[b], accesses[b])
  BY <1>1 DEF Stored
<1> QED
  BY <1>1, <1>3, <1>5, <1>6, <1>7, <1>8, OneServiceStep

(* Something is lost.                                                      *)
LEMMA LosingStep ==
  ASSUME AckInv, FilesInv, NetAssumption, NEW b \in BSs,
         NEW p, NEW d, NEW t, NEW q, NEW bs, NEW egs,
         Becomes(b, p, d, t, q, bs, egs), Stored(b, p, d, t, q),
         \/ Loss(b) /\ (missed' = missed \cup {b} \/ missed' = missed)
         \/ losses' = losses /\ missed' = missed \cup {b},
         InOrder(counter, d, t, q, bs), Writing(p, d, t, q)
  PROVE  FilesInv' /\ StoreStep
<1>1. ~(NoneLost /\ Faithful(b))
  <2>1. CASE Loss(b)
    <3>1. losses[b] \in Nat /\ losses'[b] = losses[b] + 1
      BY <2>1 DEF Loss, FilesInv, StoresInv
    <3> QED
      BY <3>1 DEF NoneLost
  <2>2. CASE missed' = missed \cup {b}
    BY <2>2 DEF NoneLost, Faithful
  <2> QED
    BY <2>1, <2>2
<1>2. Loss(b) \/ losses' = losses
  OBVIOUS
<1>3. missed' = missed \cup {b} \/ missed' = missed
  OBVIOUS
<1> QED
  BY <1>1, <1>2, <1>3, OneServiceStep

(* The head of the queue of a service that is about to make it.            *)
LEMMA ExecutesFacts ==
  ASSUME AckInv, FilesInv, NetAssumption, NEW b \in BSs, NEW S, Executes(b, S)
  PROVE  /\ phase[b] \in {"network", "update"} /\ accesses[b] # <<>>
         /\ Head(accesses[b]).type \in S
         /\ Base(phase[b], disk[b], temp[b], accesses[b]) = disk[b]
         /\ Rest(phase[b], accesses[b]) = accesses[b]
  BY DEF Executes, Base, Rest

LEMMA PopFacts ==
  ASSUME NEW b, Pop(b)
  PROVE  /\ accesses' = [accesses EXCEPT ![b] = Tail(accesses[b])]
         /\ \E p \in {"network", "update"} : phase' = [phase EXCEPT ![b] = p]
  BY DEF Pop

LEMMA Executed ==
  ASSUME NEW p \in {"network", "update"}, NEW d, NEW t, NEW q
  PROVE  Base(p, d, t, q) = d /\ Rest(p, q) = q /\ Writing(p, d, t, q)
  BY DEF Base, Rest, Writing

(* A load, which has or has not been answered with the file.               *)
LEMMA AnswerStep ==
  ASSUME AckInv, FilesInv, NetAssumption, NEW b \in BSs, NEW c, Answer(b, c),
         UNCHANGED <<counter, sent, expected>>,
         Loss(b) \/ (losses' = losses /\ c = HeadFile(b)), missed' = missed
  PROVE  FilesInv' /\ StoreStep
<1> DEFINE q == accesses[b]
           m == FileMsg(Head(q).id, c)
<1>1. /\ phase[b] \in {"network", "update"} /\ q # <<>> /\ Head(q).type = "load"
      /\ Base(phase[b], disk[b], temp[b], q) = disk[b] /\ Rest(phase[b], q) = q
  BY ExecutesFacts DEF Answer
<1>2. PICK egs \in {toEGS[b], Append(toEGS[b], m)} : toEGS' = [toEGS EXCEPT ![b] = egs]
  BY DEF Answer, Reply
<1>3. PICK p \in {"network", "update"} : phase' = [phase EXCEPT ![b] = p]
  BY PopFacts DEF Answer
<1>4. Becomes(b, p, disk[b], temp[b], Tail(q), toBS[b], egs)
  BY <1>2, <1>3, PopFacts, SelfUpdate DEF Becomes, Answer
<1>5. \A k : Before(k, disk[b], temp[b], q) => Before(k, disk[b], temp[b], Tail(q))
  BY <1>1, PoppedBefore
<1>6. InOrder(counter, disk[b], temp[b], Tail(q), toBS[b])
  BY <1>5, ServiceFacts, InOrderHolds
<1>7. Writing(p, disk[b], temp[b], Tail(q))
  BY Executed
<1>8. CASE Loss(b)
  BY <1>4, <1>6, <1>7, <1>8, LosingStep DEF Stored
<1>9. CASE losses' = losses /\ c = HeadFile(b)
  <2> DEFINE old == Base(phase[b], disk[b], temp[b], q)
  <2>3. Access(disk[b], Head(q)) = disk[b]
    BY <1>1 DEF Access, IsWrite, Writes
  <2>4. /\ Base(p, disk[b], temp[b], Tail(q)) = Access(old, Head(Rest(phase[b], q)))
        /\ Rest(p, Tail(q)) = Tail(Rest(phase[b], q))
        /\ IsSeq(Rest(phase[b], q)) /\ Rest(phase[b], q) # <<>>
    <3>1. Base(p, disk[b], temp[b], Tail(q)) = disk[b] /\ Rest(p, Tail(q)) = Tail(q)
      BY Executed
    <3> QED
      BY <1>1, <2>3, <3>1, ServiceFacts
  <2> HIDE DEF old
  <2>5. Content(p, disk[b], temp[b], Tail(q)) = Content(phase[b], disk[b], temp[b], q)
    <3> HIDE DEF q
    <3> QED
      BY <2>4, ContentMade DEF old
  <2>1. ASSUME Faithful(b)
        PROVE  Agrees(counter, p, disk[b], temp[b], Tail(q), toBS[b], egs, sent, expected)
    <3>1. Agrees(counter, phase[b], disk[b], temp[b], q, toBS[b], toEGS[b], sent, expected)
      BY <2>1, ServiceFacts
    <3>4. Agrees(counter, p, disk[b], temp[b], Tail(q), toBS[b], toEGS[b], sent, expected)
      <4> HIDE DEF q
      <4> QED
        BY <2>4, <3>1, AgreesMade DEF old
    <3>5. disk[b][Head(q).file] = expected[Head(q).id]
      <4>1. LoadsRead(disk[b], q, expected)
        BY <1>1, <3>1 DEF Agrees
      <4> QED
        BY <1>1, <4>1, ServiceFacts, LoadsReadHead
    <3>6. Head(q).id \in 0 .. counter - 1
      BY <1>1, ServiceFacts, QueueFacts DEF Before
    <3>7. m.id = Head(q).id /\ m.content = disk[b][Head(q).file]
      BY <1>9 DEF FileMsg, HeadFile
    <3> HIDE DEF m, q
    <3>8. Answered(counter, Append(toEGS[b], m), expected)
      BY <3>4, <3>5, <3>6, <3>7, ServiceFacts, AnsweredAppend DEF Agrees
    <3> QED
      BY <1>2, <3>4, <3>8 DEF Agrees
  <2>6. Stored(b, p, disk[b], temp[b], Tail(q))
    BY <1>9, <2>5 DEF Stored
  <2> HIDE DEF q
  <2> QED
    BY <1>4, <1>6, <1>7, <1>9, <2>1, <2>6, OneServiceStep
<1> QED
  BY <1>8, <1>9

(* A deletion, made or given up.                                           *)
LEMMA DeleteStep ==
  ASSUME AckInv, FilesInv, NetAssumption, NEW b \in BSs, Delete(b) \/ DeleteFails(b)
  PROVE  FilesInv' /\ StoreStep
<1> DEFINE q == accesses[b]
           e == [disk[b] EXCEPT ![Head(q).file] = NoFile]
<1>1. Executes(b, {"delete"}) /\ Pop(b)
  BY DEF Delete, ExecuteDelete, DeleteFails, FailDelete
<1>2. /\ phase[b] \in {"network", "update"} /\ q # <<>> /\ Head(q).type = "delete"
      /\ Base(phase[b], disk[b], temp[b], q) = disk[b] /\ Rest(phase[b], q) = q
  BY <1>1, ExecutesFacts
<1>3. PICK p \in {"network", "update"} : phase' = [phase EXCEPT ![b] = p]
  BY <1>1, PopFacts
<1>4. /\ UNCHANGED <<temp, toBS, toEGS, counter, sent, expected>> /\ missed' = missed
      /\ accesses' = [accesses EXCEPT ![b] = Tail(q)]
  BY <1>1, PopFacts DEF Delete, ExecuteDelete, DeleteFails, FailDelete, Local, egsVars,
     countVars, netVars
<1>5. CASE DeleteFails(b)
  <2>1. Loss(b) /\ disk' = disk
    BY <1>5 DEF DeleteFails, FailDelete
  <2>2. Becomes(b, p, disk[b], temp[b], Tail(q), toBS[b], toEGS[b])
    BY <1>3, <1>4, <2>1, SelfUpdate DEF Becomes
  <2>3. \A k : Before(k, disk[b], temp[b], q) => Before(k, disk[b], temp[b], Tail(q))
    BY <1>2, PoppedBefore
  <2>4. InOrder(counter, disk[b], temp[b], Tail(q), toBS[b])
    BY <2>3, ServiceFacts, InOrderHolds
  <2>5. Writing(p, disk[b], temp[b], Tail(q))
    BY Executed
  <2> HIDE DEF q
  <2> QED
    BY <1>4, <2>1, <2>2, <2>4, <2>5, LosingStep DEF Stored
<1>6. CASE Delete(b)
  <2>1. disk' = [disk EXCEPT ![b] = e] /\ losses' = losses
    BY <1>6 DEF Delete, ExecuteDelete, Local, countVars
  <2>2. Becomes(b, p, e, temp[b], Tail(q), toBS[b], toEGS[b])
    BY <1>3, <1>4, <2>1, SelfUpdate DEF Becomes
  <2>3. \A k : Before(k, disk[b], temp[b], q) => Before(k, e, temp[b], Tail(q))
    BY <1>2, PoppedBefore
  <2>4. Access(disk[b], Head(q)) = e
    <3>1. IsWrite(Head(q))
      BY <1>2 DEF IsWrite, Writes
    <3>2. Written(Head(q), disk[b][Head(q).file]) = NoFile
      BY <1>2, Zenon DEF Written
    <3> QED
      BY <3>1, <3>2 DEF Access
  <2> HIDE DEF e
  <2>5. InOrder(counter, e, temp[b], Tail(q), toBS[b])
    BY <2>3, ServiceFacts, InOrderHolds
  <2>6. Writing(p, e, temp[b], Tail(q))
    BY Executed
  <2>8. /\ Base(p, e, temp[b], Tail(q))
             = Access(Base(phase[b], disk[b], temp[b], q), Head(Rest(phase[b], q)))
        /\ Rest(p, Tail(q)) = Tail(Rest(phase[b], q))
        /\ IsSeq(Rest(phase[b], q)) /\ Rest(phase[b], q) # <<>>
    <3>1. Base(p, e, temp[b], Tail(q)) = e /\ Rest(p, Tail(q)) = Tail(q)
      BY Executed
    <3>2. IsSeq(q)
      BY ServiceFacts
    <3> QED
      BY <1>2, <2>4, <3>1, <3>2
  <2>9. Stored(b, p, e, temp[b], Tail(q))
    <3>1. Content(p, e, temp[b], Tail(q)) = Content(phase[b], disk[b], temp[b], q)
      <4> HIDE DEF q
      <4> QED
        BY <2>8, ContentMade
    <3> QED
      BY <2>1, <3>1 DEF Stored
  <2>7. ASSUME Faithful(b)
        PROVE  Agrees(counter, p, e, temp[b], Tail(q), toBS[b], toEGS[b], sent, expected)
    <3>1. Agrees(counter, phase[b], disk[b], temp[b], q, toBS[b], toEGS[b], sent, expected)
      BY <2>7, ServiceFacts
    <3> HIDE DEF q
    <3> QED
      BY <2>8, <3>1, AgreesMade
  <2> HIDE DEF q
  <2> QED
    BY <1>4, <2>1, <2>2, <2>5, <2>6, <2>7, <2>9, OneServiceStep
<1> QED
  BY <1>5, <1>6

(* The temporary file.                                                     *)
LEMMA OpenStep ==
  ASSUME AckInv, FilesInv, NetAssumption, NEW b \in BSs, OpenAndWrite(b)
  PROVE  FilesInv' /\ StoreStep
<1> DEFINE q == accesses[b]
           t == Written(Head(q), disk[b][Head(q).file])
<1>1. /\ phase[b] \in {"network", "update"} /\ q # <<>> /\ Head(q).type \in {"save", "append"}
      /\ Base(phase[b], disk[b], temp[b], q) = disk[b] /\ Rest(phase[b], q) = q
  BY ExecutesFacts DEF OpenAndWrite, ExecuteWrite
<1>2. /\ temp' = [temp EXCEPT ![b] = t] /\ phase' = [phase EXCEPT ![b] = "written"]
      /\ UNCHANGED <<disk, accesses, toBS, toEGS, counter, sent, expected>>
      /\ losses' = losses /\ missed' = missed
  BY DEF OpenAndWrite, ExecuteWrite, Local, egsVars, countVars, netVars
<1> HIDE DEF t
<1>3. Becomes(b, "written", disk[b], t, q, toBS[b], toEGS[b])
  BY <1>2, SelfUpdate DEF Becomes
<1>4. \A k : Before(k, disk[b], temp[b], q) => Before(k, disk[b], t, q)
  <2>1. IsWrite(Head(q))
    BY <1>1 DEF IsWrite, Writes
  <2> QED
    BY <1>1, <2>1, OpenedBefore DEF t
<1>5. InOrder(counter, disk[b], t, q, toBS[b])
  BY <1>4, ServiceFacts, InOrderHolds
<1>6. Writing("written", disk[b], t, q)
  BY <1>1 DEF Writing, t
<1>7. Base("written", disk[b], t, q) = disk[b] /\ Rest("written", q) = q
  BY DEF Base, Rest
<1>8. ASSUME Faithful(b)
      PROVE  Agrees(counter, "written", disk[b], t, q, toBS[b], toEGS[b], sent, expected)
  BY <1>1, <1>7, <1>8, ServiceFacts, AgreesSame
<1>9. Stored(b, "written", disk[b], t, q)
  BY <1>1, <1>2, <1>7 DEF Stored, Content
<1> HIDE DEF q
<1> QED
  BY <1>2, <1>3, <1>5, <1>6, <1>8, <1>9, OneServiceStep

LEMMA CloseDeletesFacts ==
  ASSUME NEW d, NEW t, NEW q, q # <<>>, Writing("written", d, t, q), NEW e,
         e = [d EXCEPT ![Head(q).file] = NoFile]
  PROVE  /\ Base("deleted", e, t, q) = Access(d, Head(q)) /\ Rest("deleted", q) = Tail(q)
         /\ Base("written", d, t, q) = d /\ Rest("written", q) = q
<1>1. IsWrite(Head(q)) /\ t = Written(Head(q), d[Head(q).file])
  BY DEF Writing, IsWrite, Writes
<1>2. [e EXCEPT ![Head(q).file] = t] = [d EXCEPT ![Head(q).file] = t]
  OBVIOUS
<1>3. Access(d, Head(q)) = [d EXCEPT ![Head(q).file] = t]
  BY <1>1 DEF Access
<1> QED
  BY <1>2, <1>3 DEF Base, Rest

LEMMA CloseDeleteStep ==
  ASSUME AckInv, FilesInv, NetAssumption, ~MayTear, NEW b \in BSs, CloseDelete(b)
  PROVE  FilesInv' /\ StoreStep
<1> DEFINE q == accesses[b]
           e == [disk[b] EXCEPT ![Head(q).file] = NoFile]
<1>1. /\ phase[b] = "written" /\ temp' = [temp EXCEPT ![b] = temp[b]]
      /\ disk' = [disk EXCEPT ![b] = e] /\ phase' = [phase EXCEPT ![b] = "deleted"]
      /\ UNCHANGED <<accesses, toBS, toEGS, counter, sent, expected>>
      /\ losses' = losses /\ missed' = missed
  BY DEF CloseDelete, CloseDeletes, Local, egsVars, countVars, netVars
<1>2. /\ q # <<>> /\ Head(q).type \in {"save", "append"}
      /\ Writing("written", disk[b], temp[b], q)
  BY <1>1, ServiceFacts DEF Writing
<1>3. Becomes(b, "deleted", e, temp[b], q, toBS[b], toEGS[b])
  BY <1>1, SelfUpdate DEF Becomes
<1>4. \A k : Before(k, disk[b], temp[b], q) => Before(k, e, temp[b], q)
  BY <1>2, PoppedBefore
<1> HIDE DEF e
<1>5. InOrder(counter, e, temp[b], q, toBS[b])
  BY <1>4, ServiceFacts, InOrderHolds
<1>6. Writing("deleted", e, temp[b], q)
  BY <1>2 DEF Writing
<1>7. /\ Base("deleted", e, temp[b], q) = Access(disk[b], Head(q))
      /\ Rest("deleted", q) = Tail(q)
      /\ Base("written", disk[b], temp[b], q) = disk[b] /\ Rest("written", q) = q
  <2>1. \A d, t, r : r # <<>> /\ Writing("written", d, t, r)
          => LET x == [d EXCEPT ![Head(r).file] = NoFile]
             IN  /\ Base("deleted", x, t, r) = Access(d, Head(r)) /\ Rest("deleted", r) = Tail(r)
                 /\ Base("written", d, t, r) = d /\ Rest("written", r) = r
    BY CloseDeletesFacts
  <2> HIDE DEF q
  <2> QED
    BY <1>2, <2>1 DEF e
<1>9. /\ Base("deleted", e, temp[b], q)
           = Access(Base("written", disk[b], temp[b], q), Head(Rest("written", q)))
      /\ Rest("deleted", q) = Tail(Rest("written", q))
      /\ IsSeq(Rest("written", q)) /\ Rest("written", q) # <<>>
  <2>1. IsSeq(q)
    BY ServiceFacts
  <2> QED
    BY <1>2, <1>7, <2>1
<1>8. ASSUME Faithful(b)
      PROVE  Agrees(counter, "deleted", e, temp[b], q, toBS[b], toEGS[b], sent, expected)
  <2>1. Agrees(counter, "written", disk[b], temp[b], q, toBS[b], toEGS[b], sent, expected)
    BY <1>1, <1>8, ServiceFacts
  <2> HIDE DEF q
  <2> QED
    BY <1>9, <2>1, AgreesMade
<1>10. Stored(b, "deleted", e, temp[b], q)
  <2>1. Content("deleted", e, temp[b], q) = Content("written", disk[b], temp[b], q)
    <3> HIDE DEF q
    <3> QED
      BY <1>9, ContentMade
  <2> QED
    BY <1>1, <2>1 DEF Stored
<1> HIDE DEF q
<1> QED
  BY <1>1, <1>3, <1>5, <1>6, <1>8, <1>10, OneServiceStep

LEMMA CloseMoveStep ==
  ASSUME AckInv, FilesInv, NetAssumption, NEW b \in BSs, CloseMove(b)
  PROVE  FilesInv' /\ StoreStep
<1> DEFINE q == accesses[b]
           e == [disk[b] EXCEPT ![Head(q).file] = temp[b]]
<1>1. /\ phase[b] = "deleted" /\ temp' = [temp EXCEPT ![b] = NoFile] /\ Pop(b)
      /\ disk' = [disk EXCEPT ![b] = e]
      /\ UNCHANGED <<toBS, toEGS, counter, sent, expected>>
      /\ losses' = losses /\ missed' = missed
  BY DEF CloseMove, CloseMoves, Local, egsVars, countVars, netVars
<1>2. q # <<>>
  BY <1>1, ServiceFacts DEF Writing
<1>3. PICK p \in {"network", "update"} : phase' = [phase EXCEPT ![b] = p]
  BY <1>1, PopFacts
<1>4. Becomes(b, p, e, NoFile, Tail(q), toBS[b], toEGS[b])
  BY <1>1, <1>3, PopFacts, SelfUpdate DEF Becomes
<1>5. \A k : Before(k, disk[b], temp[b], q) => Before(k, e, NoFile, Tail(q))
  BY <1>2, PoppedBefore
<1>6. Base("deleted", disk[b], temp[b], q) = e /\ Rest("deleted", q) = Tail(q)
  BY DEF Base, Rest
<1> HIDE DEF e
<1>7. InOrder(counter, e, NoFile, Tail(q), toBS[b])
  BY <1>5, ServiceFacts, InOrderHolds
<1>8. Writing(p, e, NoFile, Tail(q)) /\ Base(p, e, NoFile, Tail(q)) = e
      /\ Rest(p, Tail(q)) = Tail(q)
  BY Executed
<1>9. ASSUME Faithful(b)
      PROVE  Agrees(counter, p, e, NoFile, Tail(q), toBS[b], toEGS[b], sent, expected)
  BY <1>1, <1>6, <1>8, <1>9, ServiceFacts, AgreesSame
<1>10. Stored(b, p, e, NoFile, Tail(q))
  BY <1>1, <1>6, <1>8 DEF Stored, Content
<1> HIDE DEF q
<1> QED
  BY <1>1, <1>4, <1>7, <1>8, <1>9, <1>10, OneServiceStep

(* Stalls and commands.                                                    *)
LEMMA ModeStep ==
  ASSUME AckInv, FilesInv, NetAssumption, NEW b \in BSs,
         WriteFails(b) \/ StallShard(b) \/ ResumeShard(b)
  PROVE  FilesInv' /\ StoreStep
<1>1. PICK m : setMode(b, m)
  BY DEF WriteFails, FailWrite, StallShard, ResumeShard, BSSetMode
<1>2. /\ UNCHANGED <<disk, temp, accesses, toBS>> /\ UNCHANGED <<counter, sent, expected>>
      /\ losses' = losses /\ missed' = missed
  BY DEF WriteFails, FailWrite, StallShard, ResumeShard, BSSetMode, Local, egsVars, countVars
<1>3. PICK egs \in {toEGS[b], Append(toEGS[b], StallMsg(m # "Normal"))} :
        toEGS' = [toEGS EXCEPT ![b] = egs]
  BY <1>1, SelfUpdate DEF setMode, SendEGS
<1>4. Answered(counter, toEGS[b], expected) => Answered(counter, egs, expected)
  <2>1. StallMsg(m # "Normal").type # "bs_file"
    BY DEF StallMsg
  <2> QED
    BY <1>3, <2>1, ServiceFacts, AnsweredAppend
<1>5. PICK p : /\ phase' = [phase EXCEPT ![b] = p]
               /\ p = phase[b] \/ (phase[b] \in {"network", "update"} /\ p = "network")
  <2>1. CASE WriteFails(b)
    BY <2>1, ExecutesFacts DEF WriteFails, FailWrite
  <2>2. CASE StallShard(b) \/ ResumeShard(b)
    BY <2>2, SelfUpdate DEF StallShard, ResumeShard, BSSetMode
  <2> QED
    BY <2>1, <2>2
<1>6. Becomes(b, p, disk[b], temp[b], accesses[b], toBS[b], egs)
  BY <1>2, <1>3, <1>5, SelfUpdate DEF Becomes
<1>7. /\ Writing(p, disk[b], temp[b], accesses[b])
      /\ Base(p, disk[b], temp[b], accesses[b])
           = Base(phase[b], disk[b], temp[b], accesses[b])
      /\ Rest(p, accesses[b]) = Rest(phase[b], accesses[b])
  BY <1>5, ServiceFacts, Executed
<1>8. ASSUME Faithful(b)
      PROVE  Agrees(counter, p, disk[b], temp[b], accesses[b], toBS[b], egs, sent, expected)
  <2>1. Agrees(counter, p, disk[b], temp[b], accesses[b], toBS[b], toEGS[b], sent, expected)
    BY <1>7, <1>8, ServiceFacts, AgreesSame
  <2> QED
    BY <1>4, <2>1 DEF Agrees
<1>9. InOrder(counter, disk[b], temp[b], accesses[b], toBS[b])
  BY ServiceFacts
<1>10. Stored(b, p, disk[b], temp[b], accesses[b])
  BY <1>2, <1>7 DEF Stored, Content
<1> QED
  BY <1>2, <1>6, <1>7, <1>8, <1>9, <1>10, OneServiceStep

LEMMA ConnectStep ==
  ASSUME AckInv, FilesInv, NetAssumption, NEW b \in BSs, Connect(b)
  PROVE  FilesInv' /\ StoreStep
<1> DEFINE g == toEGS[b] \o Greeting(b)
<1>1. /\ toEGS' = [toEGS EXCEPT ![b] = g]
      /\ UNCHANGED <<phase, disk, temp, accesses, toBS>>
      /\ UNCHANGED <<counter, sent, expected>> /\ NoneLost
  BY DEF Connect, BSConnection, Local, bsVars, egsVars, countVars, NoneLost
<1>2. IsSeq(toEGS[b])
  BY ServiceFacts
<1>3. UpMsg.type # "bs_file" /\ StallMsg(TRUE).type # "bs_file"
  BY DEF UpMsg, StallMsg
<1>4. g \in {Append(toEGS[b], UpMsg), Append(Append(toEGS[b], UpMsg), StallMsg(TRUE))}
  <2>1. \A e, f : /\ toEGS[b] \o <<e>> = Append(toEGS[b], e)
                  /\ toEGS[b] \o <<e, f>> = Append(Append(toEGS[b], e), f)
    BY <1>2, AppendIsOne
  <2>2. toEGS[b] \o <<UpMsg>> = Append(toEGS[b], UpMsg)
    BY <2>1
  <2>3. toEGS[b] \o <<UpMsg, StallMsg(TRUE)>>
          = Append(Append(toEGS[b], UpMsg), StallMsg(TRUE))
    BY <2>1
  <2> QED
    BY <2>2, <2>3 DEF Greeting
<1>5. IsSeq(Append(toEGS[b], UpMsg))
  BY <1>2, AppendFacts
<1>6. ASSUME Answered(counter, toEGS[b], expected) PROVE Answered(counter, g, expected)
  <2>1. Answered(counter, Append(toEGS[b], UpMsg), expected)
    BY <1>2, <1>3, <1>6, AnsweredAppend
  <2>2. Answered(counter, Append(Append(toEGS[b], UpMsg), StallMsg(TRUE)), expected)
    BY <1>3, <1>5, <2>1, AnsweredAppend
  <2> HIDE DEF g
  <2> QED
    BY <1>4, <2>1, <2>2
<1> HIDE DEF g
<1> QED
  BY <1>1, <1>6, EGSQueueStep

(* A command that removes an access, a crash, a connection that breaks.    *)
LEMMA RemoveStep ==
  ASSUME AckInv, FilesInv, NetAssumption, NEW b \in BSs, RemoveFileAccess(b)
  PROVE  FilesInv' /\ StoreStep
<1>1. /\ phase[b] = "network" /\ Loss(b) /\ missed' = missed
      /\ UNCHANGED <<phase, disk, temp, toBS, toEGS, counter, sent, expected>>
  BY DEF RemoveFileAccess, BSRemoveFileAccess, egsVars, netVars
<1>2. PICK i \in DOMAIN accesses[b] :
        accesses' = [accesses EXCEPT ![b] = RemoveAt(accesses[b], i)]
  BY DEF RemoveFileAccess, BSRemoveFileAccess
<1> DEFINE q == RemoveAt(accesses[b], i)
<1>3. Becomes(b, phase[b], disk[b], temp[b], q, toBS[b], toEGS[b])
  BY <1>1, <1>2, SelfUpdate DEF Becomes
<1>4. \A k : Before(k, disk[b], temp[b], accesses[b]) => Before(k, disk[b], temp[b], q)
  BY RemovedBefore
<1> HIDE DEF q
<1>5. InOrder(counter, disk[b], temp[b], q, toBS[b])
  BY <1>4, ServiceFacts, InOrderHolds
<1>6. Writing(phase[b], disk[b], temp[b], q)
  BY <1>1 DEF Writing
<1> QED
  BY <1>1, <1>3, <1>5, <1>6, LosingStep DEF Stored

LEMMA BreakStep ==
  ASSUME AckInv, FilesInv, NetAssumption, NEW b \in BSs, Crash(b) \/ Break(b)
  PROVE  FilesInv' /\ StoreStep
<1>1. /\ BreakLink(b) /\ missed' = missed \cup {b} /\ UNCHANGED <<disk, counter, sent, expected>>
      /\ Loss(b) \/ (Break(b) /\ losses' = losses)
  BY DEF Crash, BSCrash, Break, bsVars, egsVars
<1>2. toBS' = [toBS EXCEPT ![b] = <<>>]
  BY <1>1 DEF BreakLink
<1>3. PICK egs : toEGS' = [toEGS EXCEPT ![b] = egs]
  <2>1. CASE link[b]
    BY <1>1, <2>1 DEF BreakLink
  <2>2. CASE ~link[b]
    BY <1>1, <2>2, SelfUpdate DEF BreakLink
  <2> QED
    BY <2>1, <2>2
<1>4. CASE Crash(b)
  <2>1. /\ phase' = [phase EXCEPT ![b] = "network"] /\ temp' = [temp EXCEPT ![b] = NoFile]
        /\ accesses' = [accesses EXCEPT ![b] = <<>>]
    BY <1>4 DEF Crash, BSCrash
  <2>2. Becomes(b, "network", disk[b], NoFile, <<>>, <<>>, egs)
    BY <1>1, <1>2, <1>3, <2>1, SelfUpdate DEF Becomes
  <2>3. InOrder(counter, disk[b], NoFile, <<>>, <<>>)
    BY ServiceFacts, CrashedBefore, InOrderEmpty
  <2>4. Writing("network", disk[b], NoFile, <<>>)
    BY Executed
  <2>5. Loss(b)
    BY <1>4 DEF Crash
  <2> QED
    BY <1>1, <2>2, <2>3, <2>4, <2>5, LosingStep DEF Stored
<1>5. CASE Break(b)
  <2>1. UNCHANGED <<phase, temp, accesses>>
    BY <1>5 DEF Break, bsVars
  <2>2. Becomes(b, phase[b], disk[b], temp[b], accesses[b], <<>>, egs)
    BY <1>1, <1>2, <1>3, <2>1, SelfUpdate DEF Becomes
  <2>3. InOrder(counter, disk[b], temp[b], accesses[b], <<>>)
    BY ServiceFacts, InOrderEmpty
  <2>4. Writing(phase[b], disk[b], temp[b], accesses[b])
    BY ServiceFacts
  <2>5. losses' = losses
    BY <1>5 DEF Break
  <2>6. Stored(b, phase[b], disk[b], temp[b], accesses[b])
    BY <2>5 DEF Stored
  <2> QED
    BY <1>1, <2>2, <2>3, <2>4, <2>5, <2>6, LosingStep
<1> QED
  BY <1>4, <1>5

(* No step of these concerns the files or the messages.                    *)
LEMMA QuietStep ==
  ASSUME AckInv, FilesInv, NetAssumption,
         UNCHANGED <<phase, disk, temp, accesses, toBS, toEGS>>,
         UNCHANGED <<counter, sent, expected>>, NoneLost
  PROVE  FilesInv' /\ StoreStep
<1>1. StoresInv'
  BY DEF FilesInv, StoresInv, NoneLost
<1>2. \A b \in BSs : Faithful(b)' <=> Faithful(b)
  BY DEF Faithful, NoneLost
<1>3. FilesInv'
  BY <1>1, <1>2 DEF FilesInv
<1> QED
  BY <1>3, StoreStutters DEF NoneLost

LEMMA ServiceStep ==
  ASSUME AckInv, FilesInv, NetAssumption, ~MayTear, NEW b \in BSs,
         \/ NetworkStep(b) \/ Connect(b) \/ UpdateStep(b)
         \/ LoadFails(b) \/ DeleteFails(b) \/ WriteFails(b)
         \/ StallShard(b) \/ ResumeShard(b) \/ RemoveFileAccess(b)
         \/ Crash(b) \/ Restart(b) \/ Break(b) \/ MasterBreak(b)
  PROVE  FilesInv' /\ StoreStep
<1>1. CASE MasterDown(b) \/ Restart(b) \/ MasterBreak(b)
  <2>1. /\ UNCHANGED <<phase, disk, temp, accesses, toBS, toEGS>>
        /\ UNCHANGED <<counter, sent, expected>> /\ NoneLost
    BY <1>1 DEF MasterDown, BSMasterDown, Restart, BSRestart, MasterBreak, BSLosesMaster, Local,
       netVars, egsVars, countVars, NoneLost
  <2> QED
    BY <2>1, QuietStep
<1>2. CASE Load(b)
  <2>1. Answer(b, HeadFile(b)) /\ losses' = losses /\ missed' = missed
        /\ UNCHANGED <<counter, sent, expected>>
    BY <1>2 DEF Load, ExecuteLoad, Local, egsVars, countVars
  <2> QED
    BY <2>1, AnswerStep
<1>3. CASE LoadFails(b)
  <2>1. Answer(b, NoFile) /\ Loss(b) /\ missed' = missed /\ UNCHANGED <<counter, sent, expected>>
    BY <1>3 DEF LoadFails, FailLoad, egsVars
  <2> QED
    BY <2>1, AnswerStep
<1>4. CASE WriteFile(b) \/ LoadFile(b) \/ Ping(b) \/ Connect(b)
  BY <1>4, WriteFileStep, PingStep, ConnectStep
<1>5. CASE Delete(b) \/ DeleteFails(b) \/ OpenAndWrite(b) \/ CloseDelete(b) \/ CloseMove(b)
  BY <1>5, DeleteStep, OpenStep, CloseDeleteStep, CloseMoveStep
<1>6. CASE \/ WriteFails(b) \/ StallShard(b) \/ ResumeShard(b) \/ RemoveFileAccess(b)
           \/ Crash(b) \/ Break(b)
  BY <1>6, ModeStep, RemoveStep, BreakStep
<1> QED
  BY <1>1, <1>2, <1>3, <1>4, <1>5, <1>6 DEF NetworkStep, UpdateStep

-----------------------------------------------------------------------------
(* Steps of the EGS.                                                       *)

(* A service that is sent no request has missed it.                        *)
LEMMA MissesFacts ==
  ASSUME Misses, missed \subseteq BSs, NEW b \in BSs, losses' = losses, Faithful(b)'
  PROVE  Faithful(b) /\ b \in Connected /\ Reaches(b)
  BY DEF Misses, Faithful

LEMMA WriteStep ==
  ASSUME AckInv, FilesInv, NetAssumption,
         NEW w \in Writes, NEW f \in Files, NEW cb, Write(w, f, cb)
  PROVE  FilesInv' /\ StoreStep
<1> DEFINE m == Request(w, counter, f)
<1>1. /\ toBS' = [b \in BSs |-> IF b \in Connected /\ Reaches(b) THEN Append(toBS[b], m)
                                ELSE toBS[b]]
      /\ counter' = counter + 1 /\ Misses /\ losses' = losses
      /\ UNCHANGED <<phase, disk, temp, accesses, toEGS, expected>>
  BY DEF Write, EGSWrite, SendBSs, bsVars
<1>2. sent' = [sent EXCEPT ![f] = Written(m, sent[f])]
  BY DEF Write, EGSWrite
<1>3. counter \in Nat
  BY DEF AckInv, IdsInv, NetAssumption
<1>4. m \in Requests(counter + 1) /\ m.id = counter /\ IsWrite(m) /\ m.file = f
  BY <1>3 DEF Request, Requests, IsWrite, Writes
<1>5. sent' = Access(sent, m)
  BY <1>2, <1>4 DEF Access
<1> HIDE DEF m
<1>6. StoresInv'
  <2>1. missed \subseteq BSs
    BY DEF FilesInv, StoresInv
  <2>2. missed' \subseteq BSs
    BY <1>1, <2>1 DEF Misses
  <2>3. sent' = [g \in Files |-> sent'[g]]
    BY <1>2 DEF FilesInv, StoresInv
  <2> QED
    BY <1>1, <2>2, <2>3 DEF FilesInv, StoresInv
<1>7. ASSUME NEW b \in BSs
      PROVE  /\ InOrder(counter, disk[b], temp[b], accesses[b], toBS[b])'
             /\ Writing(phase[b], disk[b], temp[b], accesses[b])'
             /\ (Faithful(b) => Agrees(counter, phase[b], disk[b], temp[b], accesses[b],
                                       toBS[b], toEGS[b], sent, expected))'
  <2>1. /\ InOrder(counter + 1, disk[b], temp[b], accesses[b], toBS[b])
        /\ InOrder(counter + 1, disk[b], temp[b], accesses[b], Append(toBS[b], m))
    BY <1>4, ServiceFacts, InOrderNext, InOrderRequest
  <2>2. InOrder(counter', disk[b], temp[b], accesses[b], toBS'[b])
    BY <1>1, <2>1
  <2>3. ASSUME Faithful(b)'
        PROVE  Agrees(counter + 1, phase[b], disk[b], temp[b], accesses[b], toBS'[b],
                      toEGS[b], Access(sent, m), expected)
    <3>1. Faithful(b) /\ b \in Connected /\ Reaches(b)
      BY <1>1, <2>3, MissesFacts DEF FilesInv, StoresInv
    <3>2. toBS'[b] = Append(toBS[b], m)
      BY <1>1, <3>1
    <3>3. Agrees(counter + 1, phase[b], disk[b], temp[b], accesses[b], Append(toBS[b], m),
                 toEGS[b], Access(sent, m), expected)
      BY <1>4, <3>1, ServiceFacts, AgreesWrite
    <3> QED
      BY <3>2, <3>3
  <2>4. /\ phase'[b] = phase[b] /\ disk'[b] = disk[b] /\ temp'[b] = temp[b]
        /\ accesses'[b] = accesses[b] /\ toEGS'[b] = toEGS[b] /\ expected' = expected
    BY <1>1
  <2>5. Writing(phase[b], disk[b], temp[b], accesses[b])
    BY ServiceFacts
  <2> QED
    BY <1>1, <1>5, <2>2, <2>3, <2>4, <2>5
<1>8. StoreStep
  BY <1>1, StoreStutters
<1> QED
  BY <1>6, <1>7, <1>8 DEF FilesInv

LEMMA RequestFileStep ==
  ASSUME AckInv, FilesInv, NetAssumption, NEW f \in Files, RequestFile(f)
  PROVE  FilesInv' /\ StoreStep
<1> DEFINE m == Request("load", counter, f)
<1>1. /\ toBS' = [b \in BSs |-> IF b \in Connected /\ Reaches(b) THEN Append(toBS[b], m)
                                ELSE toBS[b]]
      /\ counter' = counter + 1 /\ Misses /\ losses' = losses /\ counter < MaxRequests
      /\ UNCHANGED <<phase, disk, temp, accesses, toEGS, sent>>
  BY DEF RequestFile, EGSRequestFile, SendBSs, bsVars
<1>2. expected' = [expected EXCEPT ![counter] = sent[f]]
  BY DEF RequestFile, EGSRequestFile
<1>3. counter \in Nat /\ counter \in RequestIds /\ 0 .. counter - 1 \subseteq RequestIds
  BY <1>1 DEF AckInv, IdsInv, NetAssumption, RequestIds
<1>4. m \in Requests(counter + 1) /\ m.id = counter /\ m.type = "load" /\ m.file = f
  BY <1>3 DEF Request, Requests
<1>5. expected' = [expected EXCEPT ![counter] = sent[m.file]]
  BY <1>2, <1>4
<1> HIDE DEF m
<1>6. StoresInv'
  <2>1. missed \subseteq BSs
    BY DEF FilesInv, StoresInv
  <2>2. missed' \subseteq BSs
    BY <1>1, <2>1 DEF Misses
  <2>3. expected' = [i \in RequestIds |-> expected'[i]]
    BY <1>2 DEF FilesInv, StoresInv
  <2> QED
    BY <1>1, <2>2, <2>3 DEF FilesInv, StoresInv
<1>7. ASSUME NEW b \in BSs
      PROVE  /\ InOrder(counter, disk[b], temp[b], accesses[b], toBS[b])'
             /\ Writing(phase[b], disk[b], temp[b], accesses[b])'
             /\ (Faithful(b) => Agrees(counter, phase[b], disk[b], temp[b], accesses[b],
                                       toBS[b], toEGS[b], sent, expected))'
  <2>1. /\ InOrder(counter + 1, disk[b], temp[b], accesses[b], toBS[b])
        /\ InOrder(counter + 1, disk[b], temp[b], accesses[b], Append(toBS[b], m))
    BY <1>4, ServiceFacts, InOrderNext, InOrderRequest
  <2>2. InOrder(counter', disk[b], temp[b], accesses[b], toBS'[b])
    BY <1>1, <2>1
  <2>3. ASSUME Faithful(b)'
        PROVE  Agrees(counter + 1, phase[b], disk[b], temp[b], accesses[b], toBS'[b],
                      toEGS[b], sent, expected')
    <3>1. Faithful(b) /\ b \in Connected /\ Reaches(b)
      BY <1>1, <2>3, MissesFacts DEF FilesInv, StoresInv
    <3>2. toBS'[b] = Append(toBS[b], m)
      BY <1>1, <3>1
    <3>3. /\ \A i \in 1 .. Len(Rest(phase[b], accesses[b])) :
               Rest(phase[b], accesses[b])[i] \in Requests(counter)
          /\ \A i \in 1 .. Len(toBS[b]) : toBS[b][i] = PingMsg \/ toBS[b][i] \in Requests(counter)
      <4>1. Rest(phase[b], accesses[b]) \in Seq(Requests(counter))
        BY ServiceFacts, BaseType
      <4>2. InOrder(counter, disk[b], temp[b], accesses[b], toBS[b])
        BY ServiceFacts
      <4> QED
        BY <4>1, <4>2 DEF InOrder
    <3>4. expected = [i \in RequestIds |-> expected[i]]
      BY DEF FilesInv, StoresInv
    <3>5. Agrees(counter, phase[b], disk[b], temp[b], accesses[b], toBS[b], toEGS[b], sent,
                 expected) /\ IsSeq(toBS[b])
      BY <3>1, ServiceFacts
    <3>6. Agrees(counter + 1, phase[b], disk[b], temp[b], accesses[b], Append(toBS[b], m),
                 toEGS[b], sent, [expected EXCEPT ![counter] = sent[m.file]])
      BY <1>3, <1>4, <3>3, <3>4, <3>5, AgreesLoad
    <3> QED
      BY <1>5, <3>2, <3>6
  <2>4. /\ phase'[b] = phase[b] /\ disk'[b] = disk[b] /\ temp'[b] = temp[b]
        /\ accesses'[b] = accesses[b] /\ toEGS'[b] = toEGS[b] /\ sent' = sent
    BY <1>1
  <2>5. Writing(phase[b], disk[b], temp[b], accesses[b])
    BY ServiceFacts
  <2> QED
    BY <1>1, <2>2, <2>3, <2>4, <2>5
<1>8. StoreStep
  BY <1>1, StoreStutters
<1> QED
  BY <1>6, <1>7, <1>8 DEF FilesInv

LEMMA ServiceUpdateStep ==
  ASSUME AckInv, FilesInv, NetAssumption, ServiceUpdate
  PROVE  FilesInv' /\ StoreStep
<1>1. PICK ready : SendBSs(ready, PingMsg)
  BY DEF ServiceUpdate, EGSServiceUpdate
<1>2. /\ UNCHANGED <<phase, disk, temp, accesses, toEGS, counter, sent, expected>> /\ NoneLost
  BY DEF ServiceUpdate, EGSServiceUpdate, bsVars, countVars, NoneLost
<1>3. StoresInv'
  BY <1>2 DEF FilesInv, StoresInv, NoneLost
<1>4. ASSUME NEW b \in BSs
      PROVE  /\ InOrder(counter, disk[b], temp[b], accesses[b], toBS[b])'
             /\ Writing(phase[b], disk[b], temp[b], accesses[b])'
             /\ (Faithful(b) => Agrees(counter, phase[b], disk[b], temp[b], accesses[b],
                                       toBS[b], toEGS[b], sent, expected))'
  <2>1. toBS'[b] \in {toBS[b], Append(toBS[b], PingMsg)}
    BY <1>1 DEF SendBSs
  <2>2. InOrder(counter, disk[b], temp[b], accesses[b], toBS'[b])
    BY <2>1, ServiceFacts, InOrderPing
  <2>3. ASSUME Faithful(b)
        PROVE  Agrees(counter, phase[b], disk[b], temp[b], accesses[b], toBS'[b], toEGS[b],
                      sent, expected)
    BY <2>1, <2>3, ServiceFacts, AgreesPing
  <2>4. Faithful(b)' <=> Faithful(b)
    BY <1>2 DEF Faithful, NoneLost
  <2>5. Writing(phase[b], disk[b], temp[b], accesses[b])
    BY ServiceFacts
  <2> QED
    BY <1>2, <2>2, <2>3, <2>4, <2>5
<1>5. StoreStep
  BY <1>2, StoreStutters DEF NoneLost
<1> QED
  BY <1>3, <1>4, <1>5 DEF FilesInv

LEMMA ReadStep ==
  ASSUME AckInv, FilesInv, NetAssumption, NEW b \in BSs, EGSStep(b)
  PROVE  FilesInv' /\ StoreStep
<1>1. PICK type : EGSReads(b, type)
  BY DEF EGSStep, Connection, Disconnection, PingPongs, File, StallMode, cbBSConnection,
     cbBSDisconnection, cbBSPingPong, cbFile, cbStallMode
<1>2. /\ UNCHANGED bsVars /\ UNCHANGED countVars /\ UNCHANGED <<counter, sent, expected>>
  BY DEF EGSStep, Connection, Disconnection, PingPongs, File, StallMode, cbBSConnection,
     cbBSDisconnection, cbBSPingPong, cbFile, cbStallMode, processCallbacks
<1>3. /\ UNCHANGED <<phase, disk, temp, accesses>> /\ NoneLost
  BY <1>2 DEF bsVars, countVars, NoneLost
<1>4. /\ toEGS[b] # <<>> /\ toEGS' = [toEGS EXCEPT ![b] = Tail(toEGS[b])] /\ toBS' = toBS
  BY <1>1 DEF EGSReads
<1>5. Answered(counter, toEGS[b], expected) => Answered(counter, Tail(toEGS[b]), expected)
  BY <1>4, ServiceFacts, AnsweredTail
<1> QED
  BY <1>2, <1>3, <1>4, <1>5, EGSQueueStep
-----------------------------------------------------------------------------
(* The theorems.                                                           *)

LEMMA FilesInit == NetAssumption /\ Init => FilesInv /\ Store!Init
<1> SUFFICES ASSUME NetAssumption, Init PROVE FilesInv /\ Store!Init
  OBVIOUS
<1>1. /\ phase = [b \in BSs |-> "network"] /\ accesses = [b \in BSs |-> <<>>]
      /\ disk = [b \in BSs |-> [f \in Files |-> NoFile]] /\ temp = [b \in BSs |-> NoFile]
      /\ toBS = [b \in BSs |-> <<>>] /\ toEGS = [b \in BSs |-> <<>>]
      /\ counter = 0 /\ sent = [f \in Files |-> NoFile]
      /\ expected = [i \in RequestIds |-> NoFile]
      /\ losses = [b \in BSs |-> 0] /\ missed = {}
  BY DEF Init, NetInit, BSInit, EGSInit
<1>2. StoresInv
  BY <1>1 DEF StoresInv
<1> DEFINE none == [f \in Files |-> NoFile]
<1>3. /\ Base("network", none, NoFile, <<>>) = none /\ Rest("network", <<>>) = <<>>
      /\ Content("network", none, NoFile, <<>>) = none
      /\ Writing("network", none, NoFile, <<>>)
  BY Executed, ReplayEmpty DEF Content
<1>4. InOrder(0, none, NoFile, <<>>, <<>>)
  <2>1. Before(0, none, NoFile, <<>>)
    BY DEF Before, NoFile
  <2> QED
    BY <2>1, InOrderEmpty
<1>5. Agrees(0, "network", none, NoFile, <<>>, <<>>, <<>>, none, expected)
  BY <1>3, ReplayEmpty, LoadsReadEmpty, EmptyIsSeq DEF Agrees, Answered
<1>6. FilesInv
  BY <1>1, <1>2, <1>3, <1>4, <1>5 DEF FilesInv
<1>7. ASSUME NEW b \in BSs PROVE Logical(b) = none
  BY <1>1, <1>3, LogicalIsContent
<1>8. Store!Init
  BY <1>1, <1>7 DEF Store!Init, NoFile
<1> QED
  BY <1>6, <1>8

LEMMA FilesStep ==
  NetAssumption /\ ~MayTear /\ AckInv /\ FilesInv /\ [Next]_vars => FilesInv' /\ StoreStep
<1> SUFFICES ASSUME NetAssumption, ~MayTear, AckInv, FilesInv, [Next]_vars
             PROVE  FilesInv' /\ StoreStep
  OBVIOUS
<1>1. CASE UNCHANGED vars
  <2>1. /\ UNCHANGED <<phase, disk, temp, accesses, toBS, toEGS>>
        /\ UNCHANGED <<counter, sent, expected>> /\ NoneLost
    BY <1>1 DEF vars, netVars, bsVars, egsVars, countVars, NoneLost
  <2> QED
    BY <2>1, QuietStep
<1>2. ASSUME NEW f \in Files, NEW t \in Writes, NEW cb \in BOOLEAN, Write(t, f, cb)
      PROVE  FilesInv' /\ StoreStep
  BY <1>2, WriteStep
<1>3. ASSUME NEW f \in Files, RequestFile(f) PROVE FilesInv' /\ StoreStep
  BY <1>3, RequestFileStep
<1>4. CASE ServiceUpdate
  BY <1>4, ServiceUpdateStep
<1>5. ASSUME NEW b \in BSs,
             \/ EGSStep(b) \/ NetworkStep(b) \/ Connect(b) \/ UpdateStep(b)
             \/ LoadFails(b) \/ DeleteFails(b) \/ WriteFails(b)
             \/ StallShard(b) \/ ResumeShard(b) \/ RemoveFileAccess(b)
             \/ Crash(b) \/ Restart(b) \/ Break(b) \/ MasterBreak(b)
      PROVE  FilesInv' /\ StoreStep
  BY <1>5, ReadStep, ServiceStep
<1> QED
  BY <1>1, <1>2, <1>3, <1>4, <1>5 DEF Next

LEMMA FilesAlways == ~MayTear => (Spec => [](AckInv /\ FilesInv))
<1>1. Init => AckInv /\ FilesInv
  BY AckInit, FilesInit, NetAssumption
<1>2. ~MayTear /\ AckInv /\ FilesInv /\ [Next]_vars => AckInv' /\ FilesInv'
  BY AckStep, FilesStep, NetAssumption
<1>3. SUFFICES ASSUME ~MayTear PROVE Spec => [](AckInv /\ FilesInv)
  OBVIOUS
<1>4. (AckInv /\ FilesInv) /\ [Next]_vars => (AckInv /\ FilesInv)'
  BY <1>2, <1>3
<1> QED
  BY <1>1, <1>4, PTL DEF Spec

(* Unless the disk fills up unnoticed, the backup services implement the   *)
(* store, for any number of services, files and requests: a write that a   *)
(* service accepts is made once, on the file as all those accepted before  *)
(* left it, through stalls, retries and the steps of update(); only a      *)
(* crash, a removed access or a failed load or deletion is a loss.         *)
THEOREM ImplementsFileStoreCorrect == ~MayTear => (Spec => ImplementsFileStore)
<1>1. SUFFICES ASSUME ~MayTear PROVE Spec => ImplementsFileStore
  OBVIOUS
<1>2. Init => Store!Init
  BY FilesInit, NetAssumption
<1>3. Spec => [](AckInv /\ FilesInv)
  BY <1>1, FilesAlways
<1>4. (AckInv /\ FilesInv) /\ [Next]_vars => [Store!Next]_<<Contents, losses>>
  BY <1>1, FilesStep, NetAssumption DEF StoreStep
<1> QED
  BY <1>2, <1>3, <1>4, PTL DEF Spec, ImplementsFileStore, Store!Spec, Contents

(* A service that has been sent every write and has lost nothing holds the *)
(* files the EGS wrote when it has caught up, so that master and slaves    *)
(* agree, and answers loads with them.                                     *)
THEOREM ReplicasAgreeCorrect == ~MayTear => (Spec => []ReplicasAgree)
<1>1. SUFFICES ASSUME ~MayTear PROVE Spec => []ReplicasAgree
  OBVIOUS
<1>2. AckInv /\ FilesInv => ReplicasAgree
  <2> SUFFICES ASSUME AckInv, FilesInv, NEW b \in BSs, Faithful(b), toBS[b] = <<>>,
                      accesses[b] = <<>>
               PROVE  disk[b] = sent
    BY DEF ReplicasAgree
  <2>1. Agrees(counter, phase[b], disk[b], temp[b], <<>>, <<>>, toEGS[b], sent, expected)
    BY ServiceFacts, NetAssumption
  <2>2. phase[b] # "deleted"
    BY ServiceFacts, NetAssumption DEF Writing
  <2>3. Content(phase[b], disk[b], temp[b], <<>>) = disk[b]
    BY <2>2, ReplayEmpty DEF Content, Base, Rest
  <2> QED
    BY <2>1, <2>3, ReplayEmpty DEF Agrees
<1> QED
  BY <1>1, <1>2, FilesAlways, PTL

(* The answer of such a service to a load is the file as it was written    *)
(* when the load was requested.                                            *)
THEOREM LoadsReadOwnWritesCorrect == ~MayTear => (Spec => []LoadsReadOwnWrites)
<1>1. SUFFICES ASSUME ~MayTear PROVE Spec => []LoadsReadOwnWrites
  OBVIOUS
<1>2. AckInv /\ FilesInv => LoadsReadOwnWrites
  <2> SUFFICES ASSUME AckInv, FilesInv, NEW b \in BSs, Faithful(b),
                      NEW m \in ToSet(toEGS[b]), m.type = "bs_file"
               PROVE  m.content = expected[m.id]
    BY DEF LoadsReadOwnWrites
  <2>1. Answered(counter, toEGS[b], expected) /\ IsSeq(toEGS[b])
    BY ServiceFacts, NetAssumption DEF Agrees
  <2>2. PICK j \in 1 .. Len(toEGS[b]) : m = toEGS[b][j]
    BY <2>1, SeqFacts DEF ToSet
  <2> QED
    BY <2>1, <2>2 DEF Answered
<1> QED
  BY <1>1, <1>2, FilesAlways, PTL
=============================================================================
