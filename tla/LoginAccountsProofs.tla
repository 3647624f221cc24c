------------------------ MODULE LoginAccountsProofs ------------------------
(***************************************************************************)
(* Theorems about the accounts of LoginChain until the first crash: where  *)
(* the cookie of each account, and the reports of its arrival and of its   *)
(* departure, are.  Then, whatever crashes, what the WS counts.            *)
(***************************************************************************)
EXTENDS LoginProofs, WellFoundedInduction

-----------------------------------------------------------------------------
(* A message in a queue: nowhere, or at one place.                         *)
Never(q, m) == \A i \in 1 .. Len(q) : q[i] # m
Once(q, m) == \E i \in 1 .. Len(q) : q[i] = m /\ \A j \in 1 .. Len(q) : q[j] = m => j = i
Where(q, m, b) == IF b THEN Once(q, m) ELSE Never(q, m)
Before(q, a, b) == \A i, j \in 1 .. Len(q) : q[i] = a /\ q[j] = b => i < j

(* What is known of the messages M of one queue holds of another.          *)
Keeps(q, r, M) ==
  /\ \A m \in M : (Never(q, m) => Never(r, m)) /\ (Once(q, m) => Once(r, m))
  /\ \A a, b \in M : Before(q, a, b) => Before(r, a, b)

(* The messages about an account.                                          *)
CookiesOf(u) == {k \in Cookies : k.user = u}
Arrival(u) == ClientMsg(u, TRUE)
Departure(u) == ClientMsg(u, FALSE)
Requests(u) == {ChooseMsg(k) : k \in CookiesOf(u)}
Traffic(u) == {Arrival(u), Departure(u)}
Reports(u) == {From(1, Arrival(u)), From(1, Departure(u))}
                \cup {From(1, RefusedMsg(k)) : k \in CookiesOf(u)}

(* The way of the cookie of an account: with the LS (or lost), asked of    *)
(* the WS, refused by it, sent to a front end, held there, or used there:  *)
(* then the arrival is reported to the WS, to the LS, and done.  The       *)
(* departure is reported in the same way.                                  *)
Ways == {"home", "asked", "refused", "sent", "held", "in1", "in2", "done"}
Entered == {"in1", "in2", "done"}
Returns == {"none", "at1", "at2"}

Consistent(x, y, f) ==
  /\ x \in Ways /\ y \in Returns
  /\ x \in {"sent", "held"} \cup Entered => f \in FESs
  /\ y # "none" => x \in Entered
  /\ y = "at2" => x # "in1"

Now(u, k) == users[u].cookie = k

OnLink(u, x, y) ==
  /\ \A k \in CookiesOf(u) :
       /\ Where(lsToWS, ChooseMsg(k), x = "asked" /\ Now(u, k))
       /\ Where(wsToLS, From(1, RefusedMsg(k)), x = "refused" /\ Now(u, k))
  /\ Where(wsToLS, From(1, Arrival(u)), x = "in2")
  /\ Where(wsToLS, From(1, Departure(u)), y = "at2")
  /\ Before(wsToLS, From(1, Arrival(u)), From(1, Departure(u)))

AtFront(u, x, y, f, g) ==
  /\ \A k \in CookiesOf(u) :
       /\ Where(wsToFES[g], ChooseMsg(k), x = "sent" /\ g = f /\ Now(u, k))
       /\ k \in pending[g] <=> x = "held" /\ g = f /\ Now(u, k)
  /\ Where(fesToWS[g], Arrival(u), x = "in1" /\ g = f)
  /\ Where(fesToWS[g], Departure(u), y = "at1" /\ g = f)
  /\ Before(fesToWS[g], Arrival(u), Departure(u))

PlaysAt(u, x, y, f, g) ==
  IF x \in Entered /\ y = "none" /\ g = f
  THEN \E p \in playing[g] : SessionsOf(g, u) = {p}
  ELSE SessionsOf(g, u) = {}

InTable(u, x) ==
  /\ users[u].state = "Online" <=> x = "done"
  /\ x \notin {"home", "done"} => users[u].state = "Waiting"

Trip(u, x, y, f) ==
  /\ Consistent(x, y, f) /\ OnLink(u, x, y) /\ InTable(u, x)
  /\ \A g \in FESs : AtFront(u, x, y, f, g) /\ PlaysAt(u, x, y, f, g)

Trips == \A u \in Users : \E x \in Ways, y \in Returns, f \in Null(FESs) : Trip(u, x, y, f)

(* The services run, and the WS has at most one connection to the LS.      *)
Running ==
  /\ lsUp /\ wsUp /\ broken = {} /\ link = (IF linked THEN 1 ELSE 0)
  /\ shardSId \in {0, link}
  /\ \A f \in FESs : phase[f] # "dead"

OneLink ==
  /\ ~linked => lsToWS = <<>> /\ wsToLS = <<>>
  /\ \A i \in 1 .. Len(wsToLS) : wsToLS[i].link = 1 /\ wsToLS[i].msg # DownMsg

(* A front end has neither cookies nor players before the WS sees it.      *)
Apart == \A f \in FESs :
  /\ ~sees[f] => /\ wsToFES[f] = <<>> /\ fesToWS[f] = <<>>
                 /\ pending[f] = {} /\ playing[f] = {}
  /\ \A i \in 1 .. Len(fesToWS[f]) : fesToWS[f][i] # DownMsg

Entries == [SId : FESs, NbPendingUsers : Nat, NbUser : Nat, accepts : BOOLEAN]
Listing ==
  /\ FESList \in Seq(Entries)
  /\ \A i \in 1 .. Len(FESList) : sees[FESList[i].SId]

(* The database: whose cookie it is, and the count of the shard.           *)
OnlineOnes == {u \in Users : users[u].state = "Online"}
Books ==
  /\ \A u \in Users : users[u].cookie \in Cookies => users[u].cookie.user = u
  /\ nbPlayers = Cardinality(OnlineOnes)
  /\ shardSId = 0 => \A u \in Users : users[u].state \in {"Offline", "Authorized"}

Good == Running /\ OneLink /\ Apart /\ Listing /\ Books /\ Trips
AccountsInv == faults = <<>> => Good

-----------------------------------------------------------------------------
(* Queues.                                                                 *)
LEMMA WhereAfterAppend ==
  ASSUME NEW S, NEW q \in Seq(S), NEW x \in S, NEW m
  PROVE  /\ x # m /\ Never(q, m) => Never(Append(q, x), m)
         /\ x # m /\ Once(q, m) => Once(Append(q, x), m)
         /\ x = m /\ Never(q, m) => Once(Append(q, x), m)
<1> DEFINE n == Len(q)
           r == Append(q, x)
<1>1. /\ n \in Nat /\ Len(r) = n + 1 /\ r[n + 1] = x
      /\ \A i \in 1 .. n : r[i] = q[i]
  BY AppendFacts
<1> HIDE DEF r
<1>2. \A i \in 1 .. n + 1 : i \in 1 .. n \/ i = n + 1
  BY <1>1
<1>3. n + 1 \in 1 .. n + 1 /\ \A i \in 1 .. n : i \in 1 .. n + 1
  BY <1>1
<1>4. ASSUME x # m, Never(q, m) PROVE Never(r, m)
  BY <1>1, <1>2, <1>4 DEF Never
<1>5. ASSUME x # m, Once(q, m) PROVE Once(r, m)
  BY <1>1, <1>2, <1>3, <1>5 DEF Once
<1>6. ASSUME x = m, Never(q, m) PROVE Once(r, m)
  BY <1>1, <1>2, <1>3, <1>6 DEF Never, Once
<1> QED
  BY <1>4, <1>5, <1>6 DEF r

LEMMA WhereAfterTail ==
  ASSUME NEW S, NEW q \in Seq(S), q # <<>>, NEW m
  PROVE  /\ Never(q, m) => Never(Tail(q), m) /\ Head(q) # m
         /\ Once(q, m) /\ Head(q) # m => Once(Tail(q), m)
         /\ Once(q, m) /\ Head(q) = m => Never(Tail(q), m)
<1> DEFINE n == Len(q)
           r == Tail(q)
<1>1. /\ n \in Nat \ {0} /\ Len(r) = n - 1 /\ Head(q) = q[1]
      /\ \A i \in 1 .. n - 1 : r[i] = q[i + 1]
  BY HeadAndTail
<1> HIDE DEF n, r
<1>2. /\ 1 \in 1 .. n
      /\ \A i \in 1 .. n - 1 : i + 1 \in 1 .. n /\ i + 1 # 1
  BY <1>1
<1>3. ASSUME Never(q, m) PROVE Never(r, m) /\ Head(q) # m
  BY <1>1, <1>2, <1>3 DEF Never, n
<1>4. ASSUME Once(q, m), Head(q) # m PROVE Once(r, m)
  <2>1. PICK i \in 1 .. n : q[i] = m /\ \A j \in 1 .. n : q[j] = m => j = i
    BY <1>4 DEF Once, n
  <2>2. i # 1
    BY <1>1, <1>4, <2>1
  <2> DEFINE h == i - 1
  <2>3. h \in 1 .. n - 1 /\ h + 1 = i
    BY <1>1, <2>1, <2>2
  <2>4. r[h] = m
    BY <1>1, <2>1, <2>3
  <2>5. ASSUME NEW j \in 1 .. n - 1, r[j] = m PROVE j = h
    <3>1. q[j + 1] = m /\ j + 1 \in 1 .. n
      BY <1>1, <1>2, <2>5
    <3>2. j + 1 = i
      BY <2>1, <3>1
    <3> QED
      BY <1>1, <2>3, <3>2
  <2> HIDE DEF h
  <2> QED
    BY <1>1, <2>3, <2>4, <2>5 DEF Once
<1>5. ASSUME Once(q, m), Head(q) = m PROVE Never(r, m)
  <2>1. \A i \in 1 .. n : q[i] = m => i = 1
    BY <1>1, <1>2, <1>5 DEF Once, n
  <2> QED
    BY <1>1, <1>2, <2>1 DEF Never
<1> QED
  BY <1>3, <1>4, <1>5 DEF r

LEMMA BeforeAfterAppend ==
  ASSUME NEW S, NEW q \in Seq(S), NEW x \in S, NEW a, NEW b, a # b,
         Before(q, a, b), x # a \/ Never(q, b)
  PROVE  Before(Append(q, x), a, b)
<1> DEFINE n == Len(q)
           r == Append(q, x)
<1>1. /\ n \in Nat /\ Len(r) = n + 1 /\ r[n + 1] = x
      /\ \A i \in 1 .. n : r[i] = q[i]
  BY AppendFacts
<1> HIDE DEF r
<1> SUFFICES ASSUME NEW i \in 1 .. n + 1, NEW j \in 1 .. n + 1, r[i] = a, r[j] = b
             PROVE  i < j
  BY <1>1 DEF Before, r
<1>2. CASE j = n + 1
  <2>1. i # n + 1
    BY <1>1, <1>2
  <2> QED
    BY <1>1, <1>2, <2>1
<1>3. CASE j # n + 1
  <2>1. j \in 1 .. n /\ q[j] = b
    BY <1>1, <1>3
  <2>2. ~Never(q, b)
    BY <2>1 DEF Never
  <2>3. i # n + 1
    BY <1>1, <2>2
  <2>4. i \in 1 .. n /\ q[i] = a
    BY <1>1, <2>3
  <2> QED
    BY <2>1, <2>4 DEF Before
<1> QED
  BY <1>2, <1>3

LEMMA BeforeAfterTail ==
  ASSUME NEW S, NEW q \in Seq(S), q # <<>>, NEW a, NEW b, Before(q, a, b)
  PROVE  Before(Tail(q), a, b) /\ (Head(q) = b => Never(q, a))
<1> DEFINE n == Len(q)
           r == Tail(q)
<1>1. /\ n \in Nat \ {0} /\ Len(r) = n - 1 /\ Head(q) = q[1]
      /\ \A i \in 1 .. n - 1 : r[i] = q[i + 1]
  BY HeadAndTail
<1> HIDE DEF r
<1>2. ASSUME NEW i \in 1 .. n - 1, NEW j \in 1 .. n - 1, r[i] = a, r[j] = b PROVE i < j
  <2>1. i + 1 \in 1 .. n /\ j + 1 \in 1 .. n
    BY <1>1
  <2>2. q[i + 1] = a /\ q[j + 1] = b
    BY <1>1, <1>2
  <2>3. i + 1 < j + 1
    BY <2>1, <2>2 DEF Before
  <2> QED
    BY <1>1, <2>3
<1>3. ASSUME q[1] = b PROVE Never(q, a)
  <2>1. 1 \in 1 .. n
    BY <1>1
  <2>2. \A i \in 1 .. n : q[i] = a => i < 1
    BY <1>3, <2>1 DEF Before
  <2> QED
    BY <1>1, <2>2 DEF Never
<1> QED
  BY <1>1, <1>2, <1>3 DEF Before, r

LEMMA KeepsSame == \A q, M : Keeps(q, q, M)
BY DEF Keeps

LEMMA KeepsTrans ==
  ASSUME NEW q, NEW r, NEW s, NEW M, Keeps(q, r, M), Keeps(r, s, M)
  PROVE  Keeps(q, s, M)
BY DEF Keeps

LEMMA KeepsAppend ==
  ASSUME NEW S, NEW q \in Seq(S), NEW x \in S, NEW M, x \notin M
  PROVE  Keeps(q, Append(q, x), M)
<1>1. ASSUME NEW m \in M
      PROVE  /\ Never(q, m) => Never(Append(q, x), m)
             /\ Once(q, m) => Once(Append(q, x), m)
  BY <1>1, WhereAfterAppend
<1>2. ASSUME NEW a \in M, NEW b \in M, Before(q, a, b) PROVE Before(Append(q, x), a, b)
  <2> DEFINE n == Len(q)
             r == Append(q, x)
  <2>1. /\ n \in Nat /\ Len(r) = n + 1 /\ r[n + 1] = x
        /\ \A i \in 1 .. n : r[i] = q[i]
    BY AppendFacts
  <2> HIDE DEF r
  <2>2. \A i \in 1 .. n + 1 : r[i] \in M => i \in 1 .. n /\ r[i] = q[i]
    BY <2>1
  <2> QED
    BY <1>2, <2>1, <2>2 DEF Before, r
<1> QED
  BY <1>1, <1>2 DEF Keeps

LEMMA KeepsTail ==
  ASSUME NEW S, NEW q \in Seq(S), q # <<>>, NEW M, Head(q) \notin M
  PROVE  Keeps(q, Tail(q), M)
<1>1. ASSUME NEW m \in M
      PROVE  /\ Never(q, m) => Never(Tail(q), m)
             /\ Once(q, m) => Once(Tail(q), m)
  BY <1>1, WhereAfterTail
<1>2. \A a, b \in M : Before(q, a, b) => Before(Tail(q), a, b)
  BY BeforeAfterTail
<1> QED
  BY <1>1, <1>2 DEF Keeps

(* A message is about one account.                                         *)
LEMMA OneAccount ==
  /\ \A u : \A k : ChooseMsg(k) \in Requests(u) => k.user = u
  /\ \A u, m : m \in Requests(u) => m.type = "CS"
  /\ \A u, v, b : ClientMsg(v, b) \in Traffic(u) => v = u
  /\ \A u, m : m \in Traffic(u) => m.type = "CC"
  /\ \A u, v, b, l : From(l, ClientMsg(v, b)) \in Reports(u) => v = u
  /\ \A u, k, l : From(l, RefusedMsg(k)) \in Reports(u) => k.user = u
  /\ \A u, m : m \in Reports(u) => m.msg.type = "CC" \/ (m.msg.type = "SCS" /\ ~m.msg.ok)
  /\ \A u : Arrival(u) # Departure(u) /\ From(1, Arrival(u)) # From(1, Departure(u))
  /\ \A u, k : From(1, Arrival(u)) # From(1, RefusedMsg(k))
  /\ \A u, k : From(1, Departure(u)) # From(1, RefusedMsg(k))
  /\ \A j, k : ChooseMsg(j) = ChooseMsg(k) => j = k
  /\ \A j, k : From(1, RefusedMsg(j)) = From(1, RefusedMsg(k)) => j = k
<1>1. \A u, v, b, d : ClientMsg(u, b) = ClientMsg(v, d) => u = v /\ b = d
  BY DEF ClientMsg
<1>2. \A j, k : /\ ChooseMsg(j) = ChooseMsg(k) => j = k
                /\ RefusedMsg(j) = RefusedMsg(k) => j = k
  BY DEF ChooseMsg, RefusedMsg
<1>3. \A l, n, m, e : From(l, m) = From(n, e) => m = e
  BY DEF From
<1>4. /\ \A u, b : ClientMsg(u, b).type = "CC"
      /\ \A u : ClientMsg(u, TRUE).type = "CC" /\ ClientMsg(u, FALSE).type = "CC"
      /\ \A k : RefusedMsg(k).type = "SCS" /\ RefusedMsg(k).ok = FALSE /\ ChooseMsg(k).type = "CS"
      /\ \A l, m : From(l, m).msg = m
  BY DEF ClientMsg, ChooseMsg, RefusedMsg, From
<1>5. \A u : \A k : ChooseMsg(k) \in Requests(u) => k.user = u
  BY <1>2 DEF Requests, CookiesOf
<1>6. \A u, m : m \in Requests(u) => m.type = "CS"
  BY <1>4 DEF Requests
<1>7. \A u, v, b : ClientMsg(v, b) \in Traffic(u) => v = u
  BY <1>1 DEF Traffic, Arrival, Departure
<1>8. ASSUME NEW u, NEW m \in Traffic(u) PROVE m.type = "CC"
  <2>1. m = ClientMsg(u, TRUE) \/ m = ClientMsg(u, FALSE)
    BY DEF Traffic, Arrival, Departure
  <2> QED
    BY <1>4, <2>1
<1>9. \A u, k : ClientMsg(u, TRUE) # RefusedMsg(k) /\ ClientMsg(u, FALSE) # RefusedMsg(k)
  BY <1>4
<1>10. \A u, v, b, l : From(l, ClientMsg(v, b)) \in Reports(u) => v = u
  <2> SUFFICES ASSUME NEW u, NEW v, NEW b, NEW l, From(l, ClientMsg(v, b)) \in Reports(u)
               PROVE  v = u
    OBVIOUS
  <2>1. \/ From(l, ClientMsg(v, b)) = From(1, ClientMsg(u, TRUE))
        \/ From(l, ClientMsg(v, b)) = From(1, ClientMsg(u, FALSE))
        \/ \E k \in CookiesOf(u) : From(l, ClientMsg(v, b)) = From(1, RefusedMsg(k))
    BY DEF Reports, Arrival, Departure
  <2>2. \A k : ClientMsg(v, b) # RefusedMsg(k)
    BY <1>4
  <2> QED
    BY <1>1, <1>3, <2>1, <2>2
<1>11. \A u, k, l : From(l, RefusedMsg(k)) \in Reports(u) => k.user = u
  <2> SUFFICES ASSUME NEW u, NEW k, NEW l, From(l, RefusedMsg(k)) \in Reports(u)
               PROVE  k.user = u
    OBVIOUS
  <2>1. \/ From(l, RefusedMsg(k)) = From(1, ClientMsg(u, TRUE))
        \/ From(l, RefusedMsg(k)) = From(1, ClientMsg(u, FALSE))
        \/ \E j \in CookiesOf(u) : From(l, RefusedMsg(k)) = From(1, RefusedMsg(j))
    BY DEF Reports, Arrival, Departure
  <2>2. PICK j \in CookiesOf(u) : RefusedMsg(k) = RefusedMsg(j)
    BY <1>3, <1>9, <2>1
  <2>3. k = j
    BY <1>2, <2>2
  <2> QED
    BY <2>3 DEF CookiesOf
<1>12. ASSUME NEW u, NEW m \in Reports(u)
       PROVE  m.msg.type = "CC" \/ (m.msg.type = "SCS" /\ ~m.msg.ok)
  <2>1. \/ m = From(1, Arrival(u)) \/ m = From(1, Departure(u))
        \/ \E k \in CookiesOf(u) : m = From(1, RefusedMsg(k))
    BY DEF Reports
  <2>2. CASE m = From(1, Arrival(u)) \/ m = From(1, Departure(u))
    <3>1. m.msg = Arrival(u) \/ m.msg = Departure(u)
      BY <2>2 DEF From
    <3>2. m.msg.type = "CC"
      BY <1>4, <3>1 DEF Arrival, Departure
    <3> QED
      BY <3>2
  <2>3. ASSUME NEW k \in CookiesOf(u), m = From(1, RefusedMsg(k)) PROVE m.msg.type = "SCS" /\ ~m.msg.ok
    BY <1>4, <2>3
  <2> QED
    BY <2>1, <2>2, <2>3
<1>13. \A u : Arrival(u) # Departure(u) /\ From(1, Arrival(u)) # From(1, Departure(u))
  BY <1>1, <1>3 DEF Arrival, Departure
<1>14. \A u, k : /\ From(1, Arrival(u)) # From(1, RefusedMsg(k))
                 /\ From(1, Departure(u)) # From(1, RefusedMsg(k))
  BY <1>3, <1>9 DEF Arrival, Departure
<1>15. \A j, k : From(1, RefusedMsg(j)) = From(1, RefusedMsg(k)) => j = k
  BY <1>2, <1>3
<1> QED
  BY <1>2, <1>5, <1>6, <1>7, <1>8, <1>10, <1>11, <1>12, <1>13, <1>14, <1>15

(* An account that a step is not about keeps its trip.                     *)
Bystander(u) ==
  /\ users'[u].state = users[u].state /\ users'[u].cookie = users[u].cookie
  /\ Keeps(lsToWS, lsToWS', Requests(u)) /\ Keeps(wsToLS, wsToLS', Reports(u))
  /\ \A g \in FESs :
       /\ Keeps(wsToFES[g], wsToFES'[g], Requests(u))
       /\ Keeps(fesToWS[g], fesToWS'[g], Traffic(u))
       /\ \A k \in CookiesOf(u) : k \in pending'[g] <=> k \in pending[g]
       /\ SessionsOf(g, u)' = SessionsOf(g, u)

LEMMA WhereKept ==
  ASSUME NEW q, NEW r, NEW M, NEW m \in M, Keeps(q, r, M)
  PROVE  \A b : Where(q, m, b) => Where(r, m, b)
BY DEF Keeps, Where

LEMMA TripKept ==
  ASSUME NEW u \in Users, NEW x, NEW y, NEW f, Trip(u, x, y, f), Bystander(u)
  PROVE  Trip(u, x, y, f)'
<1> USE DEF Bystander
<1>1. /\ \A k \in CookiesOf(u) : ChooseMsg(k) \in Requests(u)
      /\ \A k \in CookiesOf(u) : From(1, RefusedMsg(k)) \in Reports(u)
      /\ Arrival(u) \in Traffic(u) /\ Departure(u) \in Traffic(u)
      /\ From(1, Arrival(u)) \in Reports(u) /\ From(1, Departure(u)) \in Reports(u)
  BY DEF Requests, Reports, Traffic
<1>2. ASSUME NEW k \in CookiesOf(u)
      PROVE  /\ Where(lsToWS', ChooseMsg(k), x = "asked" /\ users'[u].cookie = k)
             /\ Where(wsToLS', From(1, RefusedMsg(k)), x = "refused" /\ users'[u].cookie = k)
  BY <1>1, WhereKept DEF Trip, Consistent, OnLink, AtFront, PlaysAt, InTable, Now
<1>3. /\ Where(wsToLS', From(1, Arrival(u)), x = "in2")
      /\ Where(wsToLS', From(1, Departure(u)), y = "at2")
  BY <1>1, WhereKept DEF Trip, Consistent, OnLink, AtFront, PlaysAt, InTable, Now
<1>4. Before(wsToLS', From(1, Arrival(u)), From(1, Departure(u)))
  BY <1>1 DEF Trip, Consistent, OnLink, AtFront, PlaysAt, InTable, Now, Keeps
<1>5. ASSUME NEW g \in FESs
      PROVE  /\ \A k \in CookiesOf(u) :
                  Where(wsToFES'[g], ChooseMsg(k), x = "sent" /\ g = f /\ users'[u].cookie = k)
             /\ Where(fesToWS'[g], Arrival(u), x = "in1" /\ g = f)
             /\ Where(fesToWS'[g], Departure(u), y = "at1" /\ g = f)
  BY <1>1, WhereKept DEF Trip, Consistent, OnLink, AtFront, PlaysAt, InTable, Now
<1>6. ASSUME NEW g \in FESs PROVE Before(fesToWS'[g], Arrival(u), Departure(u))
  BY <1>1 DEF Trip, Consistent, OnLink, AtFront, PlaysAt, InTable, Now, Keeps
<1>7. ASSUME NEW g \in FESs
      PROVE  IF x \in Entered /\ y = "none" /\ g = f
             THEN \E p \in playing'[g] : SessionsOf(g, u)' = {p}
             ELSE SessionsOf(g, u)' = {}
  <2>1. ASSUME NEW p, SessionsOf(g, u)' = {p} PROVE p \in playing'[g]
    BY <2>1 DEF SessionsOf
  <2> QED
    BY <2>1 DEF Trip, Consistent, OnLink, AtFront, PlaysAt, InTable, Now
<1> QED
  BY <1>2, <1>3, <1>4, <1>5, <1>6, <1>7 DEF Trip, Consistent, OnLink, AtFront, PlaysAt, InTable, Now

-----------------------------------------------------------------------------
(* What a step leaves alone.                                               *)
LEMMA PartsSame ==
  /\ Running /\ UNCHANGED <<lsUp, wsUp, broken, link, linked, shardSId, phase>> => Running'
  /\ OneLink /\ UNCHANGED <<linked, lsToWS, wsToLS>> => OneLink'
  /\ Apart /\ UNCHANGED <<sees, wsToFES, fesToWS, pending, playing>> => Apart'
  /\ Listing /\ UNCHANGED <<FESList, sees>> => Listing'
  /\ Books /\ UNCHANGED <<users, nbPlayers, shardSId>> => Books'
<1>1. Running /\ UNCHANGED <<lsUp, wsUp, broken, link, linked, shardSId, phase>> => Running'
  BY DEF Running
<1>2. OneLink /\ UNCHANGED <<linked, lsToWS, wsToLS>> => OneLink'
  BY DEF OneLink
<1>3. Apart /\ UNCHANGED <<sees, wsToFES, fesToWS, pending, playing>> => Apart'
  BY DEF Apart
<1>4. Listing /\ UNCHANGED <<FESList, sees>> => Listing'
  BY DEF Listing
<1>5. Books /\ UNCHANGED <<users, nbPlayers, shardSId>> => Books'
  <2>1. UNCHANGED users => UNCHANGED OnlineOnes
    BY DEF OnlineOnes
  <2> QED
    BY <2>1 DEF Books
<1> QED
  BY <1>1, <1>2, <1>3, <1>4, <1>5

LEMMA TripsKept ==
  ASSUME Trips, \A u \in Users : Bystander(u)
  PROVE  Trips'
<1> SUFFICES ASSUME NEW u \in Users
             PROVE  \E x \in Ways, y \in Returns, f \in Null(FESs) : Trip(u, x, y, f)'
  BY DEF Trips
<1>1. PICK x \in Ways, y \in Returns, f \in Null(FESs) : Trip(u, x, y, f)
  BY DEF Trips
<1> QED
  BY <1>1, TripKept

(* The trips after a step about one account.                               *)
LEMMA TripsMoved ==
  ASSUME Trips, NEW u \in Users, \A v \in Users : v # u => Bystander(v),
         NEW x \in Ways, NEW y \in Returns, NEW f \in Null(FESs), Trip(u, x, y, f)'
  PROVE  Trips'
<1> SUFFICES ASSUME NEW v \in Users, v # u
             PROVE  \E a \in Ways, b \in Returns, g \in Null(FESs) : Trip(v, a, b, g)'
  BY DEF Trips
<1>1. PICK a \in Ways, b \in Returns, g \in Null(FESs) : Trip(v, a, b, g)
  BY DEF Trips
<1> QED
  BY <1>1, TripKept

LEMMA QueueKept ==
  ASSUME NEW S, NEW Q \in [FESs -> S], NEW f \in FESs, NEW r, NEW M, Keeps(Q[f], r, M)
  PROVE  \A g \in FESs : Keeps(Q[g], [Q EXCEPT ![f] = r][g], M)
BY KeepsSame

LEMMA StillGood ==
  ASSUME Good,
         UNCHANGED <<lsUp, users, shardSId, nbPlayers, wsVars, netVars, phase, pending, playing>>
  PROVE  Good'
<1>1. \A u \in Users : Bystander(u)
  BY KeepsSame DEF Bystander, wsVars, netVars, SessionsOf
<1> QED
  BY <1>1, PartsSame, TripsKept DEF Good, wsVars, netVars

(* The steps of a client that has not entered, and of a front end that is  *)
(* launched.                                                               *)
LEMMA ClientGood ==
  ASSUME Good, NEW c \in Clients,
         \/ \E u \in Users, a \in Addrs : Connect(c, u, a)
         \/ Authenticated(c) \/ Ignores(c) \/ Choose(c) \/ Confirmed(c)
         \/ Quit(c) \/ Rejected(c)
  PROVE  Good'
<1>1. UNCHANGED <<lsUp, users, shardSId, nbPlayers, wsVars, fesVars, netVars>>
  BY DEF Connect, Authenticated, Ignores, Choose, Confirmed, Quit, Rejected, lsVars
<1> QED
  BY <1>1, StillGood DEF fesVars

LEMMA FESLaunchGood ==
  ASSUME TypeInv, Good, NEW f \in FESs, FESLaunch(f)
  PROVE  Good'
<1>1. /\ UNCHANGED <<lsVars, wsVars, netVars, pending, playing>>
      /\ phase' = [phase EXCEPT ![f] = "up"]
  BY DEF FESLaunch, FESStart, netVars
<1>2. \A u \in Users : Bystander(u)
  BY <1>1, KeepsSame DEF Bystander, lsVars, netVars, SessionsOf
<1>3. Running'
  BY <1>1 DEF Good, Running, TypeInv, FESTypes, lsVars, wsVars, netVars
<1> QED
  BY <1>1, <1>2, <1>3, PartsSame, TripsKept DEF Good, lsVars, wsVars, netVars

(* The steps of a front end.                                               *)
LEMMA FESConnectGood ==
  ASSUME TypeInv, Good, NEW f \in FESs, FESConnect(f)
  PROVE  Good'
<1>1. /\ UNCHANGED <<lsVars, wsVars, fesVars, link, linked, broken, lsToWS, wsToLS, wsToFES>>
      /\ ~sees[f] /\ sees' = [sees EXCEPT ![f] = TRUE]
      /\ fesToWS' = [fesToWS EXCEPT ![f] = <<UpMsg, Report(f)>>]
  BY DEF FESConnect, FESMeetsWS
<1> DEFINE r == <<UpMsg, Report(f)>>
<1>2. fesToWS[f] = <<>> /\ sees \in [FESs -> BOOLEAN] /\ fesToWS \in [FESs -> Seq(FromFES)]
  BY <1>1 DEF Good, Apart, TypeInv, LinkTypes
<1>3. /\ UpMsg.type \notin {"CC", "down"} /\ Report(f).type \notin {"CC", "down"}
      /\ DownMsg.type = "down"
  BY DEF UpMsg, Report, CountsMsg, DownMsg
<1>4. Len(r) = 2 /\ \A i \in 1 .. 2 : r[i].type \notin {"CC", "down"}
  <2> DEFINE m == UpMsg
             n == Report(f)
  <2>1. r = <<m, n>> /\ m.type \notin {"CC", "down"} /\ n.type \notin {"CC", "down"}
    BY <1>3
  <2> HIDE DEF m, n, r
  <2>2. Len(r) = 2 /\ r[1] = m /\ r[2] = n
    BY <2>1
  <2>3. \A i \in 1 .. 2 : i = 1 \/ i = 2
    OBVIOUS
  <2> QED
    BY <2>1, <2>2, <2>3
<1> HIDE DEF r
<1>5. ASSUME NEW u \in Users PROVE Keeps(fesToWS[f], r, Traffic(u))
  <2>1. \A m \in Traffic(u) : m.type = "CC"
    BY OneAccount
  <2>2. \A m \in Traffic(u) : Never(r, m) /\ ~Once(fesToWS[f], m)
    BY <1>2, <1>4, <2>1 DEF Never, Once
  <2>3. \A a, b \in Traffic(u) : Before(r, a, b)
    BY <2>2 DEF Never, Before
  <2> QED
    BY <2>2, <2>3 DEF Keeps
<1>6. \A u \in Users : Bystander(u)
  BY <1>1, <1>2, <1>5, KeepsSame, QueueKept DEF Bystander, lsVars, fesVars, SessionsOf, r
<1>7. Apart'
  <2>1. fesToWS'[f] = r /\ sees'[f] /\ \A g \in FESs : g # f => fesToWS'[g] = fesToWS[g] /\ sees'[g] = sees[g]
    BY <1>1, <1>2 DEF r
  <2>2. \A i \in 1 .. Len(r) : r[i] # DownMsg
    BY <1>3, <1>4
  <2> QED
    BY <1>1, <2>1, <2>2 DEF Good, Apart, fesVars
<1>8. Listing'
  BY SMTT(20), <1>1, <1>2 DEF Good, Listing, Entries, wsVars
<1> QED
  BY <1>1, <1>6, <1>7, <1>8, PartsSame, TripsKept DEF Good, lsVars, wsVars, fesVars

LEMMA RequestMessages ==
  \A m : (m \in ToWS \/ m \in ToFES) /\ m.type = "CS" => m.cookie \in Cookies /\ m = ChooseMsg(m.cookie)
BY DEF ToWS, ToFES, ChooseMsg

LEMMA TellKeeps ==
  ASSUME TypeInv, NEW f \in FESs, NEW m \in FromFES, NEW M, m \notin M, fesToWS' = Tell(f, m)
  PROVE  \A g \in FESs : Keeps(fesToWS[g], fesToWS'[g], M)
<1>1. fesToWS \in [FESs -> Seq(FromFES)]
  BY DEF TypeInv, LinkTypes
<1>2. Keeps(fesToWS[f], Append(fesToWS[f], m), M)
  BY <1>1, KeepsAppend
<1> QED
  BY <1>1, <1>2, QueueKept, KeepsSame DEF Tell

LEMMA TellApart ==
  ASSUME TypeInv, Apart, NEW f \in FESs, NEW m \in FromFES, m # DownMsg, fesToWS' = Tell(f, m)
  PROVE  \A g \in FESs : /\ ~sees[g] => fesToWS'[g] = <<>>
                         /\ \A i \in 1 .. Len(fesToWS'[g]) : fesToWS'[g][i] # DownMsg
<1>1. fesToWS \in [FESs -> Seq(FromFES)]
  BY DEF TypeInv, LinkTypes
<1>2. \A g \in FESs : fesToWS'[g] = fesToWS[g] \/ (g = f /\ sees[f] /\ fesToWS'[f] = Append(fesToWS[f], m))
  BY <1>1 DEF Tell
<1>3. \A i \in 1 .. Len(Append(fesToWS[f], m)) : Append(fesToWS[f], m)[i] # DownMsg
  <2> DEFINE n == Len(fesToWS[f])
             r == Append(fesToWS[f], m)
  <2>1. /\ n \in Nat /\ Len(r) = n + 1 /\ r[n + 1] = m
        /\ \A i \in 1 .. n : r[i] = fesToWS[f][i]
    BY <1>1, AppendFacts
  <2>2. \A i \in 1 .. n : fesToWS[f][i] # DownMsg
    BY DEF Apart
  <2> HIDE DEF n, r
  <2>3. \A i \in 1 .. Len(r) : r[i] # DownMsg
    BY <2>1, <2>2
  <2> QED
    BY <2>3 DEF r
<1> QED
  BY <1>2, <1>3 DEF Apart

(* A cookie that is read is the one of its account, and was sent once.     *)
LEMMA SentCookie ==
  ASSUME TypeInv, Trips, NEW f \in FESs, NEW k \in Cookies, wsToFES[f] # <<>>,
         Head(wsToFES[f]) = ChooseMsg(k)
  PROVE  k.user \in Users /\ users[k.user].cookie = k /\ Trip(k.user, "sent", "none", f)
<1>1. k.user \in Users /\ k \in CookiesOf(k.user) /\ wsToFES[f] \in Seq(ToFES)
  BY DEF Cookies, CookiesOf, TypeInv, LinkTypes
<1>2. PICK x \in Ways, y \in Returns, g \in Null(FESs) : Trip(k.user, x, y, g)
  BY <1>1 DEF Trips
<1>3. Where(wsToFES[f], ChooseMsg(k), x = "sent" /\ f = g /\ users[k.user].cookie = k)
  BY <1>1, <1>2 DEF Trip, Consistent, OnLink, AtFront, PlaysAt, InTable, Now
<1>4. ~Never(wsToFES[f], ChooseMsg(k))
  BY <1>1, WhereAfterTail
<1>5. x = "sent" /\ f = g /\ users[k.user].cookie = k
  BY <1>3, <1>4 DEF Where
<1>6. y = "none"
  BY <1>2, <1>5 DEF Trip, Consistent, OnLink, AtFront, PlaysAt, InTable, Now, Entered
<1> QED
  BY <1>1, <1>2, <1>5, <1>6

LEMMA FESChooseShardGood ==
  ASSUME TypeInv, Good, NEW f \in FESs, FESChooseShard(f),
         UNCHANGED <<lsVars, wsVars, link, linked, broken, lsToWS, wsToLS>>
  PROVE  Good'
<1> DEFINE q == wsToFES[f]
<1>1. /\ wsToFES \in [FESs -> Seq(ToFES)] /\ pending \in [FESs -> SUBSET Cookies]
      /\ q # <<>> /\ q \in Seq(ToFES) /\ Head(q).type = "CS"
      /\ wsToFES' = [wsToFES EXCEPT ![f] = Tail(q)]
  BY DEF TypeInv, FESTypes, LinkTypes, FESChooseShard, FESReads, Reads, FESPops
<1>2. PICK k \in Cookies : k = Head(q).cookie /\ Head(q) = ChooseMsg(k)
  BY <1>1, HeadAndTail, RequestMessages
<1> DEFINE u == k.user
           m == ChosenMsg(k, f, Cardinality(Inserted(f, k)))
<1>3. u \in Users /\ users[u].cookie = k /\ Trip(u, "sent", "none", f)
  BY <1>1, <1>2, SentCookie DEF Good
<1>4. /\ UNCHANGED <<phase, playing, sees>> /\ fesToWS' = Tell(f, m)
      /\ pending' = [pending EXCEPT ![f] = Inserted(f, k)]
  BY <1>2 DEF FESChooseShard
<1>5. sees[f]
  BY <1>1 DEF Good, Apart
<1>6. Inserted(f, k) = pending[f] \cup {k}
  <2>1. \A j \in pending[f] : j \notin CookiesOf(u)
    BY <1>3 DEF Trip, Consistent, OnLink, AtFront, PlaysAt, InTable, Now
  <2>2. \A j \in pending[f] : j.user # u
    BY <1>1, <2>1 DEF CookiesOf
  <2> QED
    BY <2>2 DEF Inserted
<1>7. m \in FromFES /\ m.type = "SCS" /\ m # DownMsg
  <2>1. Cardinality(Inserted(f, k)) \in Nat
    BY <1>2, InsertedTypes, FS_CardinalityType DEF TypeInv, FESTypes
  <2>2. m \in FromFES
    BY <1>2, <2>1, MessagesAreTyped
  <2> QED
    BY <2>2 DEF ChosenMsg, DownMsg
<1> HIDE DEF q, u, m
<1>8. ASSUME NEW v \in Users PROVE \A g \in FESs : Keeps(fesToWS[g], fesToWS'[g], Traffic(v))
  BY <1>4, <1>7, TellKeeps, OneAccount
<1>9. ASSUME NEW v \in Users, v # u PROVE Bystander(v)
  <2>1. Head(q) \notin Requests(v)
    BY <1>2, <1>9, OneAccount DEF u
  <2>2. Keeps(wsToFES[f], Tail(q), Requests(v))
    BY <1>1, <2>1, KeepsTail DEF q
  <2>3. \A g \in FESs : Keeps(wsToFES[g], wsToFES'[g], Requests(v))
    BY <1>1, <2>2, QueueKept
  <2>4. \A g \in FESs : \A j \in CookiesOf(v) : j \in pending'[g] <=> j \in pending[g]
    <3>1. k \notin CookiesOf(v)
      BY <1>9 DEF CookiesOf, u
    <3> QED
      BY <1>1, <1>4, <1>6, <3>1
  <2> QED
    BY <1>4, <1>8, <2>3, <2>4, KeepsSame DEF Bystander, lsVars, SessionsOf
<1>10. Trip(u, "held", "none", f)'
  <2>1. \A g \in FESs : /\ \A j \in CookiesOf(u) : Never(wsToFES'[g], ChooseMsg(j))
                        /\ \A j \in CookiesOf(u) : j \in pending'[g] <=> g = f /\ users[u].cookie = j
    <3>1. \A j \in CookiesOf(u) : Never(Tail(q), ChooseMsg(j))
      <4> SUFFICES ASSUME NEW j \in CookiesOf(u) PROVE Never(Tail(q), ChooseMsg(j))
        OBVIOUS
      <4>1. Where(q, ChooseMsg(j), j = k)
        BY <1>3 DEF Trip, AtFront, Now, q
      <4> QED
        BY <1>1, <1>2, <4>1, WhereAfterTail DEF Where
    <3>2. \A g \in FESs : g # f => \A j \in CookiesOf(u) : Never(wsToFES[g], ChooseMsg(j))
      BY <1>3 DEF Trip, AtFront, Where
    <3>3. \A g \in FESs : \A j \in CookiesOf(u) : j \notin pending[g]
      BY <1>3 DEF Trip, AtFront
    <3>4. k \in CookiesOf(u)
      BY <1>2 DEF CookiesOf, u
    <3> QED
      BY <1>1, <1>3, <1>4, <1>6, <3>1, <3>2, <3>3, <3>4
  <2>2. \A g \in FESs : /\ Never(fesToWS'[g], Arrival(u)) /\ Never(fesToWS'[g], Departure(u))
                        /\ Before(fesToWS'[g], Arrival(u), Departure(u))
    <3>1. \A g \in FESs : Never(fesToWS[g], Arrival(u)) /\ Never(fesToWS[g], Departure(u))
      BY <1>3 DEF Trip, AtFront, Where
    <3>2. Arrival(u) \in Traffic(u) /\ Departure(u) \in Traffic(u)
      BY DEF Traffic
    <3>3. \A g \in FESs : Never(fesToWS'[g], Arrival(u)) /\ Never(fesToWS'[g], Departure(u))
      BY <1>3, <1>8, <3>1, <3>2 DEF Keeps
    <3> QED
      BY <3>3 DEF Never, Before
  <2>3. ASSUME NEW g \in FESs PROVE AtFront(u, "held", "none", f, g)'
    BY <1>4, <2>1, <2>2 DEF AtFront, Where, Now, lsVars
  <2>4. ASSUME NEW g \in FESs PROVE PlaysAt(u, "held", "none", f, g)'
    BY <1>3, <1>4 DEF Trip, PlaysAt, Entered, SessionsOf
  <2>5. OnLink(u, "held", "none")'
    BY <1>3 DEF Trip, OnLink, Where, lsVars
  <2>6. InTable(u, "held")' /\ Consistent("held", "none", f)
    BY <1>3 DEF Trip, InTable, Consistent, Ways, Returns, Entered, lsVars
  <2> QED
    BY <2>3, <2>4, <2>5, <2>6 DEF Trip, Consistent
<1>11. Trips'
  <2>1. "held" \in Ways /\ "none" \in Returns /\ f \in Null(FESs)
    BY DEF Ways, Returns, Null
  <2> QED
    BY <1>3, <1>9, <1>10, <2>1, TripsMoved DEF Good
<1>12. Apart'
  BY <1>1, <1>4, <1>5, <1>7, TellApart DEF Good, Apart
<1> QED
  BY <1>4, <1>11, <1>12, PartsSame DEF Good, lsVars, wsVars

LEMMA FESMessageGood ==
  ASSUME TypeInv, Good, NEW f \in FESs, FESMessage(f)
  PROVE  Good'
<1> DEFINE q == wsToFES[f]
<1>1. UNCHANGED <<lsVars, wsVars, link, linked, broken, lsToWS, wsToLS>>
  BY DEF FESMessage
<1>2. CASE FESChooseShard(f)
  BY <1>1, <1>2, FESChooseShardGood
<1>3. CASE FESAccepts(f) \/ FESDisconnectClient(f)
  <2>1. /\ wsToFES \in [FESs -> Seq(ToFES)] /\ q # <<>> /\ q \in Seq(ToFES)
        /\ Head(q).type # "CS" /\ wsToFES' = [wsToFES EXCEPT ![f] = Tail(q)]
        /\ UNCHANGED <<phase, pending, playing, sees, fesToWS>>
    BY <1>3 DEF TypeInv, LinkTypes, FESAccepts, FESDisconnectClient, FESReads, Reads, FESPops
  <2>2. sees[f]
    BY <2>1 DEF Good, Apart
  <2> HIDE DEF q
  <2>3. ASSUME NEW u \in Users PROVE Bystander(u)
    <3>1. Head(q) \notin Requests(u)
      BY <2>1, OneAccount
    <3>2. Keeps(wsToFES[f], Tail(q), Requests(u))
      BY <2>1, <3>1, KeepsTail DEF q
    <3>3. \A g \in FESs : Keeps(wsToFES[g], wsToFES'[g], Requests(u))
      BY <2>1, <3>2, QueueKept
    <3> QED
      BY <1>1, <2>1, <3>3, KeepsSame DEF Bystander, lsVars, SessionsOf
  <2>4. Apart'
    BY <2>1, <2>2 DEF Good, Apart
  <2> QED
    BY <1>1, <2>1, <2>3, <2>4, PartsSame, TripsKept DEF Good, lsVars, wsVars
<1> QED
  BY <1>2, <1>3 DEF FESMessage

LEMMA HeldCookie ==
  ASSUME TypeInv, Trips, NEW f \in FESs, NEW k \in pending[f]
  PROVE  /\ k \in Cookies /\ k.user \in Users /\ users[k.user].cookie = k
         /\ Trip(k.user, "held", "none", f)
<1>1. k \in Cookies /\ k.user \in Users /\ k \in CookiesOf(k.user)
  BY DEF Cookies, CookiesOf, TypeInv, FESTypes
<1>2. PICK x \in Ways, y \in Returns, g \in Null(FESs) : Trip(k.user, x, y, g)
  BY <1>1 DEF Trips
<1>3. x = "held" /\ f = g /\ users[k.user].cookie = k
  BY <1>1, <1>2 DEF Trip, AtFront, Now
<1>4. y = "none"
  BY <1>2, <1>3 DEF Trip, Consistent, Entered
<1> QED
  BY <1>1, <1>2, <1>3, <1>4

LEMMA EraseGood ==
  ASSUME TypeInv, Good, NEW f \in FESs, Erase(f)
  PROVE  Good'
<1>1. /\ UNCHANGED <<lsVars, wsVars, link, linked, broken, lsToWS, wsToLS>>
      /\ UNCHANGED <<phase, playing, sees, wsToFES>>
  BY DEF Erase, FESErasesCookie
<1>2. PICK k \in pending[f] : /\ pending' = [pending EXCEPT ![f] = @ \ {k}]
                              /\ fesToWS' = Tell(f, RemovedMsg(k))
  BY DEF Erase, FESErasesCookie
<1> DEFINE u == k.user
           m == RemovedMsg(k)
<1>3. k \in Cookies /\ u \in Users /\ users[u].cookie = k /\ Trip(u, "held", "none", f)
  BY HeldCookie DEF Good
<1>4. m \in FromFES /\ m.type # "CC" /\ m # DownMsg
  <2>1. m.type = "RPC" /\ DownMsg.type = "down"
    BY DEF RemovedMsg, DownMsg
  <2> QED
    BY <1>3, <2>1, MessagesAreTyped
<1>5. pending \in [FESs -> SUBSET Cookies]
  BY DEF TypeInv, FESTypes
<1> HIDE DEF u, m
<1>6. ASSUME NEW v \in Users PROVE \A g \in FESs : Keeps(fesToWS[g], fesToWS'[g], Traffic(v))
  BY <1>2, <1>4, TellKeeps, OneAccount DEF m
<1>7. ASSUME NEW v \in Users, v # u PROVE Bystander(v)
  <2>1. k \notin CookiesOf(v)
    BY <1>7 DEF CookiesOf, u
  <2>2. \A g \in FESs : \A j \in CookiesOf(v) : j \in pending'[g] <=> j \in pending[g]
    BY <1>2, <1>5, <2>1
  <2> QED
    BY <1>1, <1>6, <2>2, KeepsSame DEF Bystander, lsVars, SessionsOf
<1>8. Trip(u, "home", "none", f)'
  <2>1. \A g \in FESs : \A j \in CookiesOf(u) : j \notin pending'[g]
    BY <1>2, <1>3, <1>5 DEF Trip, AtFront, Now
  <2>2. Arrival(u) \in Traffic(u) /\ Departure(u) \in Traffic(u)
    BY DEF Traffic
  <2>3. ASSUME NEW g \in FESs PROVE AtFront(u, "home", "none", f, g)'
    <3>1. Never(fesToWS[g], Arrival(u)) /\ Never(fesToWS[g], Departure(u))
      BY <1>3 DEF Trip, AtFront, Where
    <3>2. Never(fesToWS'[g], Arrival(u)) /\ Never(fesToWS'[g], Departure(u))
      BY <1>3, <1>6, <2>2, <3>1 DEF Keeps
    <3>3. Before(fesToWS'[g], Arrival(u), Departure(u))
      BY <3>2 DEF Never, Before
    <3> QED
      BY <1>1, <1>3, <2>1, <3>2, <3>3 DEF Trip, AtFront, Where
  <2>4. ASSUME NEW g \in FESs PROVE PlaysAt(u, "home", "none", f, g)'
    BY <1>1, <1>3 DEF Trip, PlaysAt, Entered, SessionsOf
  <2>5. OnLink(u, "home", "none")'
    BY <1>1, <1>3 DEF Trip, OnLink, Where, lsVars
  <2>6. InTable(u, "home")' /\ Consistent("home", "none", f)
    BY <1>1, <1>3 DEF Trip, InTable, Consistent, Ways, Returns, Entered, lsVars
  <2> QED
    BY <2>3, <2>4, <2>5, <2>6 DEF Trip, Consistent
<1>9. Trips'
  <2>1. "home" \in Ways /\ "none" \in Returns /\ f \in Null(FESs)
    BY DEF Ways, Returns, Null
  <2> QED
    BY <1>3, <1>7, <1>8, <2>1, TripsMoved DEF Good
<1>10. Apart'
  <2>1. \A g \in FESs : pending'[g] \subseteq pending[g]
    BY <1>2, <1>5
  <2> QED
    BY <1>1, <1>2, <1>4, <2>1, TellApart DEF Good, Apart, m
<1> QED
  BY <1>1, <1>9, <1>10, PartsSame DEF Good, lsVars, wsVars

LEMMA LoginGood ==
  ASSUME TypeInv, Good, NEW f \in FESs, NEW c \in Clients, NEW k, FESLogin(f, c, k),
         UNCHANGED <<lsVars, wsVars, link, linked, broken, lsToWS, wsToLS>>
  PROVE  Good'
<1> DEFINE u == k.user
           m == Arrival(u)
<1>1. /\ k \in pending[f] /\ pending' = [pending EXCEPT ![f] = @ \ {k}]
      /\ fesToWS' = Tell(f, m) /\ UNCHANGED <<phase, sees, wsToFES>>
  BY DEF FESLogin, Valid, Arrival
<1>2. k \in Cookies /\ u \in Users /\ users[u].cookie = k /\ Trip(u, "held", "none", f)
  BY <1>1, HeldCookie DEF Good
<1>3. SessionsOf(f, u) = {}
  BY <1>2 DEF Trip, PlaysAt, Entered
<1>4. playing' = [playing EXCEPT ![f] = @ \cup {<<c, u>>}]
  BY <1>3 DEF FESLogin, acceptUserIdConnection
<1>5. /\ pending \in [FESs -> SUBSET Cookies] /\ playing \in [FESs -> SUBSET (Clients \X Users)]
      /\ fesToWS \in [FESs -> Seq(FromFES)]
  BY DEF TypeInv, FESTypes, LinkTypes
<1>6. sees[f]
  BY <1>1 DEF Good, Apart
<1>7. m \in FromFES /\ m # DownMsg
  <2>1. m # DownMsg
    BY DEF Arrival, ClientMsg, DownMsg
  <2> QED
    BY <1>2, <2>1, MessagesAreTyped DEF Arrival
<1> HIDE DEF u, m
<1>8. ASSUME NEW v \in Users, v # u PROVE Bystander(v)
  <2>1. k \notin CookiesOf(v) /\ m \notin Traffic(v)
    BY <1>8, OneAccount DEF CookiesOf, u, m, Arrival
  <2>2. \A g \in FESs : \A j \in CookiesOf(v) : j \in pending'[g] <=> j \in pending[g]
    BY <1>1, <1>5, <2>1
  <2>3. \A g \in FESs : SessionsOf(g, v)' = SessionsOf(g, v)
    BY <1>4, <1>5, <1>8 DEF SessionsOf
  <2>4. \A g \in FESs : Keeps(fesToWS[g], fesToWS'[g], Traffic(v))
    BY <1>1, <1>7, <2>1, TellKeeps
  <2> QED
    BY <1>1, <2>2, <2>3, <2>4, KeepsSame DEF Bystander, lsVars
<1>9. Trip(u, "in1", "none", f)'
  <2>1. \A g \in FESs : \A j \in CookiesOf(u) : j \notin pending'[g]
    BY <1>1, <1>2, <1>5 DEF Trip, AtFront, Now
  <2>2. ASSUME NEW g \in FESs PROVE AtFront(u, "in1", "none", f, g)'
    <3>1. Never(fesToWS[g], Arrival(u)) /\ Never(fesToWS[g], Departure(u))
      BY <1>2 DEF Trip, AtFront, Where
    <3>2. fesToWS'[g] = IF g = f THEN Append(fesToWS[f], Arrival(u)) ELSE fesToWS[g]
      BY <1>1, <1>5, <1>6 DEF Tell, m
    <3>3. Never(fesToWS'[g], Departure(u)) /\ Before(fesToWS'[g], Arrival(u), Departure(u))
      <4>1. Never(fesToWS'[g], Departure(u))
        BY <1>5, <1>7, <3>1, <3>2, WhereAfterAppend, OneAccount DEF m
      <4> QED
        BY <4>1 DEF Never, Before
    <3>4. Where(fesToWS'[g], Arrival(u), g = f)
      BY <1>5, <1>7, <3>1, <3>2, WhereAfterAppend DEF m, Where
    <3> QED
      BY <1>1, <1>2, <2>1, <3>3, <3>4 DEF Trip, AtFront, Where
  <2>3. ASSUME NEW g \in FESs PROVE PlaysAt(u, "in1", "none", f, g)'
    <3>1. SessionsOf(g, u) = {}
      BY <1>2 DEF Trip, PlaysAt, Entered
    <3>2. CASE g # f
      BY <1>4, <1>5, <3>1, <3>2 DEF PlaysAt, Entered, SessionsOf
    <3>3. CASE g = f
      <4>1. SessionsOf(f, u)' = {<<c, u>>} /\ <<c, u>> \in playing'[f]
        BY <1>4, <1>5, <3>1, <3>3 DEF SessionsOf
      <4> QED
        BY <3>3, <4>1 DEF PlaysAt, Entered
    <3> QED
      BY <3>2, <3>3
  <2>4. OnLink(u, "in1", "none")'
    BY <1>2 DEF Trip, OnLink, Where, lsVars
  <2>5. InTable(u, "in1")' /\ Consistent("in1", "none", f)
    BY <1>2 DEF Trip, InTable, Consistent, Ways, Returns, Entered, lsVars
  <2> QED
    BY <2>2, <2>3, <2>4, <2>5 DEF Trip, Consistent
<1>10. Trips'
  <2>1. "in1" \in Ways /\ "none" \in Returns /\ f \in Null(FESs)
    BY DEF Ways, Returns, Null
  <2> QED
    BY <1>2, <1>8, <1>9, <2>1, TripsMoved DEF Good
<1>11. Apart'
  <2>1. \A g \in FESs : g # f => pending'[g] = pending[g] /\ playing'[g] = playing[g]
    BY <1>1, <1>4
  <2> QED
    BY <1>1, <1>6, <1>7, <2>1, TellApart DEF Good, Apart
<1> QED
  BY <1>1, <1>10, <1>11, PartsSame DEF Good, lsVars, wsVars

LEMMA EnterGood ==
  ASSUME TypeInv, Good, NEW c \in Clients, Enter(c)
  PROVE  Good'
<1>1. client[c].fes \in FESs
  BY DEF TypeInv, ClientTypes, Enter
<1> QED
  BY <1>1, LoginGood DEF Enter

LEMMA LeaveGood ==
  ASSUME TypeInv, Good, NEW f \in FESs, NEW p \in playing[f], Leave(f, p)
  PROVE  Good'
<1> DEFINE u == p[2]
           m == Departure(u)
<1>1. /\ UNCHANGED <<lsVars, wsVars, link, linked, broken, lsToWS, wsToLS>>
      /\ UNCHANGED <<phase, pending, sees, wsToFES>>
      /\ playing' = [playing EXCEPT ![f] = @ \ {p}] /\ fesToWS' = Tell(f, m)
  BY DEF Leave, FESRemoves, Departure
<1>2. /\ playing \in [FESs -> SUBSET (Clients \X Users)]
      /\ fesToWS \in [FESs -> Seq(FromFES)] /\ u \in Users
  BY DEF TypeInv, FESTypes, LinkTypes
<1>3. sees[f]
  BY DEF Good, Apart
<1>4. m \in FromFES /\ m # DownMsg
  <2>1. m # DownMsg
    BY DEF Departure, ClientMsg, DownMsg
  <2> QED
    BY <1>2, <2>1, MessagesAreTyped DEF Departure
<1>5. p \in SessionsOf(f, u)
  BY DEF SessionsOf
<1> HIDE DEF u, m
<1>6. PICK x \in Entered : Trip(u, x, "none", f)
  <2>1. PICK x \in Ways, y \in Returns, g \in Null(FESs) : Trip(u, x, y, g)
    BY <1>2 DEF Good, Trips
  <2>2. x \in Entered /\ y = "none" /\ f = g
    BY <1>5, <2>1 DEF Trip, PlaysAt
  <2> QED
    BY <2>1, <2>2
<1>7. ASSUME NEW v \in Users, v # u PROVE Bystander(v)
  <2>1. m \notin Traffic(v)
    BY <1>7, OneAccount DEF m, Departure
  <2>2. \A g \in FESs : SessionsOf(g, v)' = SessionsOf(g, v)
    BY <1>1, <1>2, <1>7 DEF SessionsOf, u
  <2>3. \A g \in FESs : Keeps(fesToWS[g], fesToWS'[g], Traffic(v))
    BY <1>1, <1>4, <2>1, TellKeeps
  <2> QED
    BY <1>1, <2>2, <2>3, KeepsSame DEF Bystander, lsVars
<1>8. Trip(u, x, "at1", f)'
  <2>1. ASSUME NEW g \in FESs PROVE AtFront(u, x, "at1", f, g)'
    <3>1. /\ Where(fesToWS[g], Arrival(u), x = "in1" /\ g = f) /\ Never(fesToWS[g], Departure(u))
          /\ Before(fesToWS[g], Arrival(u), Departure(u))
      BY <1>6 DEF Trip, AtFront, Where
    <3>2. fesToWS'[g] = IF g = f THEN Append(fesToWS[f], Departure(u)) ELSE fesToWS[g]
      BY <1>1, <1>2, <1>3 DEF Tell, m
    <3>3. Where(fesToWS'[g], Departure(u), g = f)
      BY <1>2, <1>4, <3>1, <3>2, WhereAfterAppend DEF m, Where
    <3>4. Where(fesToWS'[g], Arrival(u), x = "in1" /\ g = f)
      BY <1>2, <1>4, <3>1, <3>2, WhereAfterAppend, OneAccount DEF m, Where
    <3>5. Before(fesToWS'[g], Arrival(u), Departure(u))
      BY <1>2, <1>4, <3>1, <3>2, BeforeAfterAppend, OneAccount DEF m
    <3> QED
      BY <1>1, <1>6, <3>3, <3>4, <3>5 DEF Trip, AtFront, Now, lsVars
  <2>2. ASSUME NEW g \in FESs PROVE PlaysAt(u, x, "at1", f, g)'
    <3>1. IF g = f THEN \E s \in playing[f] : SessionsOf(f, u) = {s} ELSE SessionsOf(g, u) = {}
      BY <1>6 DEF Trip, PlaysAt
    <3>2. CASE g # f
      BY <1>1, <1>2, <3>1, <3>2 DEF PlaysAt, SessionsOf
    <3>3. CASE g = f
      <4>1. SessionsOf(f, u) = {p}
        BY <1>5, <3>1, <3>3
      <4>2. SessionsOf(f, u)' = {}
        BY <1>1, <1>2, <4>1 DEF SessionsOf
      <4> QED
        BY <3>3, <4>2 DEF PlaysAt
    <3> QED
      BY <3>2, <3>3
  <2>3. OnLink(u, x, "at1")'
    BY <1>1, <1>6 DEF Trip, OnLink, Now, lsVars
  <2>4. InTable(u, x)' /\ Consistent(x, "at1", f)
    BY <1>1, <1>6 DEF Trip, InTable, Consistent, Ways, Returns, Entered, lsVars
  <2> QED
    BY <2>1, <2>2, <2>3, <2>4 DEF Trip, Consistent
<1>9. Trips'
  <2>1. x \in Ways /\ "at1" \in Returns /\ f \in Null(FESs)
    BY DEF Ways, Returns, Entered, Null
  <2> QED
    BY <1>2, <1>7, <1>8, <2>1, TripsMoved DEF Good
<1>10. Apart'
  <2>1. \A g \in FESs : g # f => playing'[g] = playing[g]
    BY <1>1
  <2> QED
    BY <1>1, <1>3, <1>4, <2>1, TellApart DEF Good, Apart
<1> QED
  BY <1>1, <1>9, <1>10, PartsSame DEF Good, lsVars, wsVars

-----------------------------------------------------------------------------
(* The messages the WS and the LS exchange.                                *)
LEMMA ReportMessages ==
  /\ \A m \in ToLS : m.link \in Links /\ m.msg \in FromWS
  /\ \A m \in ToLS : m.link = 1 => m = From(1, m.msg)
  /\ \A m \in FromFES : m.type = "SCS" => m.ok
  /\ \A m : From(1, m) \in ToLS <=> m \in FromWS
  /\ \A l, m : From(l, m).link = l /\ From(l, m).msg = m
<1>1. \A m \in ToLS : /\ m.link \in Links /\ m.msg \in FromWS
                      /\ m.link = 1 => m = From(1, m.msg)
  BY DEF ToLS, From
<1>2. \A m \in FromFES : m.type = "SCS" => m.ok
  <2>1. \A m \in FromFES : m.type = "SCS" => m \in Chosen
    BY DEF FromFES, Chosen, Moves
  <2> QED
    BY <2>1 DEF Chosen
<1>3. 1 \in Links
  BY LoginAssumption DEF Links
<1>4. \A l, m : From(l, m).link = l /\ From(l, m).msg = m
  BY DEF From
<1>5. \A m : From(1, m) \in ToLS <=> m \in FromWS
  BY <1>3 DEF From, ToLS
<1> QED
  BY <1>1, <1>2, <1>4, <1>5

(* What the WS sends to the LS while it is connected.                      *)
LEMMA SendKeeps ==
  ASSUME TypeInv, Good, NEW m \in FromWS, NEW M, From(1, m) \notin M, wsToLS' = SendLS(m)
  PROVE  Keeps(wsToLS, wsToLS', M)
<1>1. wsToLS \in Seq(ToLS) /\ From(1, m) \in ToLS
  BY ReportMessages DEF TypeInv, NetTypes
<1>2. CASE linked
  <2>1. wsToLS' = Append(wsToLS, From(1, m))
    BY <1>2 DEF SendLS, Good, Running
  <2> QED
    BY <1>1, <2>1, KeepsAppend
<1>3. CASE ~linked
  BY <1>3, KeepsSame DEF SendLS
<1> QED
  BY <1>2, <1>3

LEMMA SendOneLink ==
  ASSUME TypeInv, Good, NEW m \in FromWS, m # DownMsg, wsToLS' = SendLS(m),
         UNCHANGED linked, ~linked => lsToWS' = <<>>
  PROVE  OneLink'
<1>1. wsToLS \in Seq(ToLS) /\ From(1, m) \in ToLS
  BY ReportMessages DEF TypeInv, NetTypes
<1>2. CASE linked
  <2> DEFINE n == Len(wsToLS)
             r == wsToLS'
  <2>1. r = Append(wsToLS, From(1, m))
    BY <1>2 DEF SendLS, Good, Running
  <2>2. /\ n \in Nat /\ Len(r) = n + 1 /\ r[n + 1] = From(1, m)
        /\ \A i \in 1 .. n : r[i] = wsToLS[i]
    BY <1>1, <2>1, AppendFacts
  <2>3. \A i \in 1 .. n : wsToLS[i].link = 1 /\ wsToLS[i].msg # DownMsg
    BY DEF Good, OneLink
  <2>4. From(1, m).link = 1 /\ From(1, m).msg # DownMsg
    BY ReportMessages
  <2> HIDE DEF n, r
  <2>5. \A i \in 1 .. Len(r) : r[i].link = 1 /\ r[i].msg # DownMsg
    BY <2>2, <2>3, <2>4
  <2> QED
    BY <1>2, <2>5 DEF OneLink, r
<1>3. CASE ~linked
  BY <1>3 DEF SendLS, Good, OneLink
<1> QED
  BY <1>2, <1>3

(* The list of the WS.                                                     *)
LEMMA ListUpdated ==
  ASSUME Listing, NEW list, list = [i \in DOMAIN FESList |-> list[i]],
         \A i \in 1 .. Len(FESList) : list[i] \in Entries /\ list[i].SId = FESList[i].SId,
         FESList' = list, UNCHANGED sees
  PROVE  Listing'
<1>1. DOMAIN FESList = 1 .. Len(FESList) /\ Len(FESList) \in Nat
  BY DEF Listing
<1>2. list \in Seq(Entries) /\ Len(list) = Len(FESList)
  BY <1>1
<1> QED
  BY <1>2 DEF Listing

Counted(e, n, p, b) == [e EXCEPT !.NbUser = n, !.NbPendingUsers = p, !.accepts = b]

LEMMA CountedTypes ==
  ASSUME NEW e \in Entries, NEW n \in Nat, NEW p \in Nat, NEW b \in BOOLEAN
  PROVE  Counted(e, n, p, b) \in Entries /\ Counted(e, n, p, b).SId = e.SId
BY DEF Entries, Counted

LEMMA EntryTypes ==
  ASSUME NEW e \in Entries
  PROVE  /\ \A n \in Nat : Pending(e, n) \in Entries /\ Pending(e, n).SId = e.SId
         /\ Arrives(e) \in Entries /\ Arrives(e).SId = e.SId
         /\ Leaves(e) \in Entries /\ Leaves(e).SId = e.SId
         /\ [e EXCEPT !.accepts = TRUE] \in Entries /\ [e EXCEPT !.accepts = TRUE].SId = e.SId
         /\ e.NbUser \in Nat /\ e.NbPendingUsers \in Nat /\ e.accepts \in BOOLEAN /\ e.SId \in FESs
         /\ Less(e.NbPendingUsers) \in Nat
<1>1. /\ e.NbUser \in Nat /\ e.NbPendingUsers \in Nat
      /\ e.accepts \in BOOLEAN /\ e.SId \in FESs
  BY DEF Entries
<1>2. Less(e.NbPendingUsers) \in Nat /\ Less(e.NbUser) \in Nat
  BY <1>1 DEF Less
<1>4. \A n \in Nat : Pending(e, n) \in Entries /\ Pending(e, n).SId = e.SId
  BY DEF Entries, Pending
<1>5. Arrives(e) \in Entries /\ Arrives(e).SId = e.SId
  <2> DEFINE n == e.NbUser + 1
             p == Less(e.NbPendingUsers)
  <2>1. n \in Nat /\ p \in Nat /\ Arrives(e) = [e EXCEPT !.NbUser = n, !.NbPendingUsers = p]
    BY <1>1, <1>2 DEF Arrives
  <2> HIDE DEF n, p
  <2> QED
    BY <2>1 DEF Entries
<1>6. Leaves(e) \in Entries /\ Leaves(e).SId = e.SId
  BY <1>1, <1>2 DEF Entries, Leaves
<1>7. [e EXCEPT !.accepts = TRUE] \in Entries /\ [e EXCEPT !.accepts = TRUE].SId = e.SId
  BY DEF Entries
<1> QED
  BY <1>1, <1>2, <1>4, <1>5, <1>6, <1>7

LEMMA WSFrontEndListing ==
  ASSUME TypeInv, Good, NEW f \in FESs, WSFrontEnd(f), ~WSFrontEndDown(f), sees[f],
         Head(fesToWS[f]) \in FromFES
  PROVE  Listing'
<1>1. UNCHANGED sees /\ FESList \in Seq(Entries) /\ Listing
  BY DEF WSFrontEnd, Good, Listing
<1> DEFINE h == Head(fesToWS[f])
           n == Len(FESList)
<1>2. n \in Nat /\ DOMAIN FESList = 1 .. n /\ \A i \in 1 .. n : FESList[i] \in Entries
  BY <1>1
<1>3. CASE WSFrontEndUp(f)
  <2> DEFINE e == [CFES(f) EXCEPT !.accepts = ~UsePatchMode]
  <2>1. e \in Entries /\ e.SId = f
    <3>1. (~UsePatchMode) \in BOOLEAN
      OBVIOUS
    <3> QED
      BY <3>1 DEF CFES, Entries
  <2>2. FESList' = Append(FESList, e)
    BY <1>3 DEF WSFrontEndUp
  <2> HIDE DEF e
  <2>3. /\ FESList' \in Seq(Entries) /\ Len(FESList') = n + 1 /\ FESList'[n + 1] = e
        /\ \A i \in 1 .. n : FESList'[i] = FESList[i]
    BY <1>1, <2>1, <2>2, AppendFacts
  <2>4. \A i \in 1 .. n + 1 : i \in 1 .. n \/ i = n + 1
    BY <1>2
  <2>5. \A i \in 1 .. n : sees[FESList[i].SId]
    BY <1>1 DEF Listing
  <2> QED
    BY <1>1, <2>1, <2>3, <2>4, <2>5 DEF Listing
<1>4. CASE WSCounts(f)
  <2>1. h.type = "NBPLAYERS2" /\ h.users \in Nat /\ h.pending \in Nat
    <3>1. h.type = "NBPLAYERS2"
      BY <1>4 DEF WSCounts, WSReads, Reads
    <3> QED
      BY <3>1 DEF FromFES, Chosen, Moves
  <2> DEFINE r(e) == [e EXCEPT !.NbUser = h.users, !.NbPendingUsers = h.pending,
                               !.accepts = @ \/ h.users # 0]
             b(e) == e.accepts \/ h.users # 0
             list == [i \in DOMAIN FESList |-> IF FESList[i].SId = f THEN r(FESList[i])
                                               ELSE FESList[i]]
  <2>2. FESList' = list
    BY <1>4 DEF WSCounts, Updated
  <2>3. ASSUME NEW e \in Entries PROVE r(e) \in Entries /\ r(e).SId = e.SId
    <3>1. b(e) \in BOOLEAN
      OBVIOUS
    <3>2. r(e) = Counted(e, h.users, h.pending, b(e))
      BY DEF Counted
    <3> HIDE DEF b, r, h
    <3>3. /\ Counted(e, h.users, h.pending, b(e)) \in Entries
          /\ Counted(e, h.users, h.pending, b(e)).SId = e.SId
      BY <2>1, <3>1, CountedTypes
    <3> QED
      BY <3>2, <3>3, Zenon
  <2>4. \A i \in 1 .. n : list[i] \in Entries /\ list[i].SId = FESList[i].SId
    BY <1>2, <2>3
  <2> HIDE DEF r
  <2> QED
    BY <1>1, <2>2, <2>4, ListUpdated
<1>5. CASE WSShardChosen(f)
  <2>1. h.nb \in Nat
    <3>1. h.type = "SCS"
      BY <1>5 DEF WSShardChosen, WSReads, Reads
    <3> QED
      BY <3>1 DEF FromFES, Chosen, Moves
  <2> DEFINE list == [i \in DOMAIN FESList |-> IF FESList[i].SId = f
                        THEN Pending(FESList[i], h.nb) ELSE FESList[i]]
  <2>2. FESList' = list
    BY <1>5 DEF WSShardChosen, Updated
  <2>3. \A i \in 1 .. n : list[i] \in Entries /\ list[i].SId = FESList[i].SId
    BY <1>2, <2>1, EntryTypes
  <2> QED
    BY <1>1, <2>2, <2>3, ListUpdated
<1>6. CASE WSClientConnected(f)
  <2> DEFINE list == [i \in DOMAIN FESList |-> IF FESList[i].SId = f
                        THEN (IF h.con THEN Arrives(FESList[i]) ELSE Leaves(FESList[i]))
                        ELSE FESList[i]]
  <2>1. FESList' = list
    BY <1>6 DEF WSClientConnected, Updated
  <2>2. \A i \in 1 .. n : list[i] \in Entries /\ list[i].SId = FESList[i].SId
    BY <1>2, EntryTypes
  <2> QED
    BY <1>1, <2>1, <2>2, ListUpdated
<1>7. CASE WSCookieRemoved(f)
  <2> DEFINE list == [i \in DOMAIN FESList |-> IF FESList[i].SId = f
                        THEN Pending(FESList[i], Less(FESList[i].NbPendingUsers))
                        ELSE FESList[i]]
  <2>1. FESList' = list
    BY <1>7 DEF WSCookieRemoved, Updated
  <2>2. \A i \in 1 .. n : list[i] \in Entries /\ list[i].SId = FESList[i].SId
    BY <1>2, EntryTypes
  <2> QED
    BY <1>1, <2>1, <2>2, ListUpdated
<1> QED
  BY <1>3, <1>4, <1>5, <1>6, <1>7 DEF WSFrontEnd

(* What the WS sends to a front end it sees.                               *)
LEMMA SentKeeps ==
  ASSUME TypeInv, NEW f \in FESs, NEW m \in ToFES, NEW M, m \notin M,
         wsToFES' = Sent(f, <<m>>)
  PROVE  \A g \in FESs : Keeps(wsToFES[g], wsToFES'[g], M)
<1>1. wsToFES \in [FESs -> Seq(ToFES)]
  BY DEF TypeInv, LinkTypes
<1>2. wsToFES[f] \o <<m>> = Append(wsToFES[f], m)
  BY <1>1
<1>3. Keeps(wsToFES[f], Append(wsToFES[f], m), M)
  BY <1>1, KeepsAppend
<1> QED
  BY <1>1, <1>2, <1>3, QueueKept DEF Sent

LEMMA SentApart ==
  ASSUME TypeInv, Apart, NEW f \in FESs, NEW ms, sees[f], wsToFES' = Sent(f, ms)
  PROVE  \A g \in FESs : ~sees[g] => wsToFES'[g] = <<>>
BY DEF Sent, Apart, TypeInv, LinkTypes

(* Reading a queue of a front end keeps what Apart says of it.             *)
LEMMA PopApart ==
  ASSUME TypeInv, Apart, NEW f \in FESs, fesToWS[f] # <<>>, WSPops(f)
  PROVE  /\ sees[f]
         /\ \A g \in FESs : /\ ~sees[g] => fesToWS'[g] = <<>>
                            /\ \A i \in 1 .. Len(fesToWS'[g]) : fesToWS'[g][i] # DownMsg
<1> DEFINE q == fesToWS[f]
           n == Len(q)
           r == Tail(q)
<1>1. fesToWS \in [FESs -> Seq(FromFES)] /\ q \in Seq(FromFES)
  BY DEF TypeInv, LinkTypes
<1>2. /\ n \in Nat \ {0} /\ Len(r) = n - 1
      /\ \A i \in 1 .. n - 1 : r[i] = q[i + 1]
  BY <1>1, HeadAndTail
<1>3. \A i \in 1 .. n : q[i] # DownMsg
  BY DEF Apart
<1>4. fesToWS' = [fesToWS EXCEPT ![f] = r]
  BY DEF WSPops
<1>5. sees[f]
  BY DEF Apart
<1> HIDE DEF r, n
<1>6. \A i \in 1 .. Len(r) : r[i] # DownMsg
  <2> SUFFICES ASSUME NEW i \in 1 .. n - 1 PROVE r[i] # DownMsg
    BY <1>2
  <2>1. i + 1 \in 1 .. n
    BY <1>2
  <2> QED
    BY <1>2, <1>3, <2>1
<1> QED
  BY <1>1, <1>4, <1>5, <1>6 DEF Apart

LEMMA InLogin ==
  ASSUME Good, NEW u \in Users, users[u].state \notin {"Offline", "Authorized"}
  PROVE  linked /\ link = 1 /\ shardSId = 1
BY DEF Good, Books, Running

LEMMA ArrivalPassed ==
  ASSUME TypeInv, Good, NEW f \in FESs, NEW u \in Users, NEW x, NEW y, NEW g,
         Trip(u, x, y, g), fesToWS[f] # <<>>, Head(fesToWS[f]) = Arrival(u), WSPops(f),
         wsToLS' = SendLS(Arrival(u)),
         UNCHANGED <<users, lsToWS, wsToFES, pending, playing>>
  PROVE  g = f /\ Trip(u, "in2", y, f)'
<1> DEFINE q == fesToWS[f]
<1>1. /\ fesToWS \in [FESs -> Seq(FromFES)] /\ q \in Seq(FromFES) /\ wsToLS \in Seq(ToLS)
      /\ fesToWS' = [fesToWS EXCEPT ![f] = Tail(q)]
  BY DEF TypeInv, LinkTypes, NetTypes, WSPops
<1>2. x = "in1" /\ g = f
  <2>1. Where(q, Arrival(u), x = "in1" /\ f = g)
    BY DEF Trip, AtFront
  <2>2. ~Never(q, Arrival(u))
    BY <1>1, WhereAfterTail
  <2> QED
    BY <2>1, <2>2 DEF Where
<1>3. y # "at2" /\ y \in Returns
  BY <1>2 DEF Trip, Consistent
<1>4. users[u].state = "Waiting"
  BY <1>2 DEF Trip, InTable
<1>5. wsToLS' = Append(wsToLS, From(1, Arrival(u))) /\ From(1, Arrival(u)) \in ToLS
  BY <1>4, InLogin, MessagesAreTyped, ReportMessages DEF SendLS, Arrival
<1> HIDE DEF q
<1>6. OnLink(u, "in2", y)'
  <2>1. /\ \A k \in CookiesOf(u) : Never(wsToLS, From(1, RefusedMsg(k)))
        /\ \A k \in CookiesOf(u) : Never(lsToWS, ChooseMsg(k))
        /\ Never(wsToLS, From(1, Arrival(u))) /\ Never(wsToLS, From(1, Departure(u)))
        /\ Before(wsToLS, From(1, Arrival(u)), From(1, Departure(u)))
    BY <1>2, <1>3 DEF Trip, OnLink, Where
  <2>2. \A k \in CookiesOf(u) : Never(wsToLS', From(1, RefusedMsg(k)))
    BY <1>1, <1>5, <2>1, WhereAfterAppend, OneAccount
  <2>3. Once(wsToLS', From(1, Arrival(u))) /\ Never(wsToLS', From(1, Departure(u)))
    BY <1>1, <1>5, <2>1, WhereAfterAppend, OneAccount
  <2>4. Before(wsToLS', From(1, Arrival(u)), From(1, Departure(u)))
    BY <2>3 DEF Never, Before
  <2> QED
    BY <1>3, <2>1, <2>2, <2>3, <2>4 DEF OnLink, Where
<1>7. ASSUME NEW e \in FESs PROVE AtFront(u, "in2", y, f, e)'
  <2>1. /\ Where(fesToWS[e], Arrival(u), e = f) /\ Where(fesToWS[e], Departure(u), y = "at1" /\ e = f)
        /\ Before(fesToWS[e], Arrival(u), Departure(u))
    BY <1>2 DEF Trip, AtFront
  <2>2. /\ Never(fesToWS'[e], Arrival(u))
        /\ Where(fesToWS'[e], Departure(u), y = "at1" /\ e = f)
        /\ Before(fesToWS'[e], Arrival(u), Departure(u))
    <3>1. CASE e = f
      <4>1. Once(q, Arrival(u)) /\ Head(q) = Arrival(u) /\ Head(q) # Departure(u)
        BY <2>1, <3>1, OneAccount DEF Where, q
      <4>2. Never(Tail(q), Arrival(u)) /\ Before(Tail(q), Arrival(u), Departure(u))
        BY <1>1, <2>1, <3>1, <4>1, WhereAfterTail, BeforeAfterTail DEF q
      <4>3. Where(Tail(q), Departure(u), y = "at1" /\ e = f)
        BY <1>1, <2>1, <3>1, <4>1, WhereAfterTail DEF q, Where
      <4> QED
        BY <1>1, <3>1, <4>2, <4>3
    <3>2. CASE e # f
      BY <1>1, <2>1, <3>2 DEF Where
    <3> QED
      BY <3>1, <3>2
  <2> QED
    BY <1>2, <2>2 DEF Trip, AtFront, Where
<1>8. ASSUME NEW e \in FESs PROVE PlaysAt(u, "in2", y, f, e)'
  BY <1>2 DEF Trip, PlaysAt, Entered, SessionsOf
<1>9. InTable(u, "in2")' /\ Consistent("in2", y, f)
  BY <1>2, <1>3, <1>4 DEF Trip, InTable, Consistent, Ways, Returns, Entered
<1> QED
  BY <1>2, <1>6, <1>7, <1>8, <1>9 DEF Trip, Consistent

LEMMA DeparturePassed ==
  ASSUME TypeInv, Good, NEW f \in FESs, NEW u \in Users, NEW x, NEW y, NEW g,
         Trip(u, x, y, g), fesToWS[f] # <<>>, Head(fesToWS[f]) = Departure(u), WSPops(f),
         wsToLS' = SendLS(Departure(u)),
         UNCHANGED <<users, lsToWS, wsToFES, pending, playing>>
  PROVE  g = f /\ Trip(u, x, "at2", f)'
<1> DEFINE q == fesToWS[f]
<1>1. /\ fesToWS \in [FESs -> Seq(FromFES)] /\ q \in Seq(FromFES) /\ wsToLS \in Seq(ToLS)
      /\ fesToWS' = [fesToWS EXCEPT ![f] = Tail(q)]
  BY DEF TypeInv, LinkTypes, NetTypes, WSPops
<1>2. y = "at1" /\ g = f
  <2>1. Where(q, Departure(u), y = "at1" /\ f = g)
    BY DEF Trip, AtFront
  <2>2. ~Never(q, Departure(u))
    BY <1>1, WhereAfterTail
  <2> QED
    BY <2>1, <2>2 DEF Where
<1>3. x \in {"in2", "done"}
  <2>1. x \in Entered
    BY <1>2 DEF Trip, Consistent
  <2>2. Where(q, Arrival(u), x = "in1") /\ Before(q, Arrival(u), Departure(u))
    BY <1>2 DEF Trip, AtFront
  <2>3. Never(q, Arrival(u))
    BY <1>1, <2>2, BeforeAfterTail
  <2>4. x # "in1"
    BY <2>2, <2>3 DEF Where, Never, Once
  <2> QED
    BY <2>1, <2>4 DEF Entered
<1>4. users[u].state \in {"Waiting", "Online"}
  BY <1>3 DEF Trip, InTable
<1>5. wsToLS' = Append(wsToLS, From(1, Departure(u))) /\ From(1, Departure(u)) \in ToLS
  BY <1>4, InLogin, MessagesAreTyped, ReportMessages DEF SendLS, Departure
<1> HIDE DEF q
<1>6. OnLink(u, x, "at2")'
  <2>1. /\ \A k \in CookiesOf(u) : Never(wsToLS, From(1, RefusedMsg(k)))
        /\ \A k \in CookiesOf(u) : Never(lsToWS, ChooseMsg(k))
        /\ Where(wsToLS, From(1, Arrival(u)), x = "in2") /\ Never(wsToLS, From(1, Departure(u)))
        /\ Before(wsToLS, From(1, Arrival(u)), From(1, Departure(u)))
    BY <1>2, <1>3 DEF Trip, OnLink, Where
  <2>2. \A k \in CookiesOf(u) : Never(wsToLS', From(1, RefusedMsg(k)))
    BY <1>1, <1>5, <2>1, WhereAfterAppend, OneAccount
  <2>3. Where(wsToLS', From(1, Arrival(u)), x = "in2") /\ Once(wsToLS', From(1, Departure(u)))
    BY <1>1, <1>5, <2>1, WhereAfterAppend, OneAccount DEF Where
  <2>4. Before(wsToLS', From(1, Arrival(u)), From(1, Departure(u)))
    BY <1>1, <1>5, <2>1, BeforeAfterAppend, OneAccount
  <2> QED
    BY <1>3, <2>1, <2>2, <2>3, <2>4 DEF OnLink, Where
<1>7. ASSUME NEW e \in FESs PROVE AtFront(u, x, "at2", f, e)'
  <2>1. /\ Never(fesToWS[e], Arrival(u)) /\ Where(fesToWS[e], Departure(u), e = f)
        /\ Before(fesToWS[e], Arrival(u), Departure(u))
    BY <1>2, <1>3 DEF Trip, AtFront, Where
  <2>2. Never(fesToWS'[e], Arrival(u)) /\ Never(fesToWS'[e], Departure(u))
    <3>1. CASE e = f
      BY <1>1, <2>1, <3>1, WhereAfterTail DEF q, Where
    <3>2. CASE e # f
      BY <1>1, <2>1, <3>2 DEF Where
    <3> QED
      BY <3>1, <3>2
  <2>3. Before(fesToWS'[e], Arrival(u), Departure(u))
    BY <2>2 DEF Never, Before
  <2> QED
    BY <1>2, <1>3, <2>2, <2>3 DEF Trip, AtFront, Where, Now
<1>8. ASSUME NEW e \in FESs PROVE PlaysAt(u, x, "at2", f, e)'
  BY <1>2 DEF Trip, PlaysAt, Entered, SessionsOf
<1>9. InTable(u, x)' /\ Consistent(x, "at2", f)
  BY <1>2, <1>3 DEF Trip, InTable, Consistent, Ways, Returns, Entered
<1> QED
  BY <1>2, <1>6, <1>7, <1>8, <1>9 DEF Trip, Consistent

LEMMA WSFrontEndGood ==
  ASSUME TypeInv, Good, NEW f \in FESs, WSFrontEnd(f)
  PROVE  Good'
<1> DEFINE q == fesToWS[f]
           h == Head(q)
<1> USE DEF WSReads, Reads
<1>1. /\ UNCHANGED <<lsVars, fesVars, link, linked, broken, sees>>
      /\ WSPops(f) /\ q # <<>> /\ UNCHANGED <<wsUp, lsToWS>>
  BY DEF WSFrontEnd, WSFrontEndUp, WSCounts, WSShardChosen, WSClientConnected,
         WSCookieRemoved, WSFrontEndDown
<1>2. /\ fesToWS \in [FESs -> Seq(FromFES)] /\ q \in Seq(FromFES) /\ h \in FromFES
      /\ fesToWS' = [fesToWS EXCEPT ![f] = Tail(q)]
  BY <1>1, HeadAndTail DEF TypeInv, LinkTypes, WSPops
<1>3. /\ sees[f]
      /\ \A g \in FESs : /\ ~sees[g] => fesToWS'[g] = <<>>
                         /\ \A i \in 1 .. Len(fesToWS'[g]) : fesToWS'[g][i] # DownMsg
  BY <1>1, PopApart DEF Good
<1>4. h # DownMsg
  <2>1. h = q[1] /\ 1 \in 1 .. Len(q)
    BY <1>1, <1>2, HeadAndTail
  <2> QED
    BY <2>1 DEF Good, Apart
<1>5. h.type # "down" /\ ~WSFrontEndDown(f)
  <2>1. h.type = "down" => h = DownMsg
    BY <1>2 DEF FromFES, Chosen, Moves, DownMsg
  <2> QED
    BY <1>4, <2>1 DEF WSFrontEndDown
<1>6. Listing'
  BY <1>2, <1>3, <1>5, WSFrontEndListing
<1>7. Running'
  BY <1>1, PartsSame DEF Good, lsVars, fesVars
<1>8. Books'
  BY <1>1, PartsSame DEF Good, lsVars
<1> HIDE DEF q, h
<1>9. ASSUME NEW u \in Users, h \notin Traffic(u)
      PROVE  \A g \in FESs : Keeps(fesToWS[g], fesToWS'[g], Traffic(u))
  <2>1. Keeps(fesToWS[f], Tail(q), Traffic(u))
    BY <1>1, <1>2, <1>9, KeepsTail DEF q, h
  <2> QED
    BY <1>2, <2>1, QueueKept
<1>10. ASSUME \A g \in FESs : ~sees[g] => wsToFES'[g] = <<>> PROVE Apart'
  BY <1>1, <1>3, <1>10 DEF Good, Apart, fesVars
<1>11. CASE ~WSClientConnected(f)
  <2>1. h.type # "CC"
    BY <1>11 DEF WSFrontEnd, WSFrontEndUp, WSCounts, WSShardChosen, WSClientConnected,
                 WSCookieRemoved, WSFrontEndDown, h, q
  <2>2. \A u \in Users : h \notin Traffic(u)
    BY <2>1, OneAccount
  <2>3. wsToFES' = wsToFES \/ wsToFES' = Sent(f, <<AcceptMsg>>)
    BY <1>5, <1>11 DEF WSFrontEnd, WSFrontEndUp, WSCounts, WSShardChosen, WSCookieRemoved
  <2>4. wsToLS' = wsToLS \/ (h.type = "SCS" /\ wsToLS' = SendLS(h))
    BY <1>5, <1>11 DEF WSFrontEnd, WSFrontEndUp, WSCounts, WSShardChosen, WSCookieRemoved, h, q
  <2>5. ASSUME NEW u \in Users PROVE \A g \in FESs : Keeps(wsToFES[g], wsToFES'[g], Requests(u))
    <3>1. AcceptMsg \in ToFES /\ AcceptMsg \notin Requests(u)
      <4>1. AcceptMsg.type # "CS"
        BY DEF AcceptMsg
      <4> QED
        BY <4>1, MessagesAreTyped, OneAccount
    <3> QED
      BY <2>3, <3>1, KeepsSame, SentKeeps
  <2>6. ASSUME h.type = "SCS" PROVE h \in FromWS /\ h # DownMsg /\ h.ok
    BY <1>2, <1>4, <2>6, TypedMessages, ReportMessages
  <2>7. ASSUME NEW u \in Users PROVE Keeps(wsToLS, wsToLS', Reports(u))
    <3>1. ASSUME h.type = "SCS" PROVE From(1, h) \notin Reports(u)
      <4>1. From(1, h).msg = h
        BY ReportMessages
      <4> QED
        BY <2>6, <3>1, <4>1, OneAccount
    <3> QED
      BY <2>4, <2>6, <3>1, KeepsSame, SendKeeps
  <2>8. \A u \in Users : Bystander(u)
    BY <1>1, <1>9, <2>2, <2>5, <2>7, KeepsSame DEF Bystander, lsVars, fesVars, SessionsOf
  <2>9. OneLink'
    <3>1. CASE wsToLS' = wsToLS
      BY <1>1, <3>1, PartsSame DEF Good
    <3>2. CASE h.type = "SCS" /\ wsToLS' = SendLS(h)
      BY <1>1, <2>6, <3>2, SendOneLink DEF Good, OneLink
    <3> QED
      BY <2>4, <3>1, <3>2
  <2>10. Apart'
    BY <1>3, <1>10, <2>3, SentApart DEF Good, Apart
  <2> QED
    BY <1>6, <1>7, <1>8, <2>8, <2>9, <2>10, TripsKept DEF Good
<1>12. CASE WSClientConnected(f)
  <2>1. h.type = "CC" /\ wsToLS' = SendLS(h) /\ UNCHANGED wsToFES
    BY <1>12 DEF WSClientConnected, h, q
  <2>2. h \in FromWS /\ h.user \in Users /\ h.con \in BOOLEAN /\ h = ClientMsg(h.user, h.con)
    BY <1>2, <2>1, TypedMessages
  <2>3. PICK u \in Users : u = h.user /\ (h = Arrival(u) \/ h = Departure(u))
    <3>1. h.con = TRUE \/ h.con = FALSE
      BY <2>2
    <3>2. h = ClientMsg(h.user, TRUE) \/ h = ClientMsg(h.user, FALSE)
      BY <2>2, <3>1
    <3> QED
      BY <2>2, <3>2 DEF Arrival, Departure
  <2>4. ASSUME NEW v \in Users, v # u PROVE Bystander(v)
    <3>1. h \notin Traffic(v) /\ From(1, h) \notin Reports(v)
      <4>1. CASE h = Arrival(u)
        BY <2>4, <4>1, OneAccount DEF Arrival
      <4>2. CASE h = Departure(u)
        BY <2>4, <4>2, OneAccount DEF Departure
      <4> QED
        BY <2>3, <4>1, <4>2
    <3>2. Keeps(wsToLS, wsToLS', Reports(v))
      BY <2>1, <2>2, <3>1, SendKeeps
    <3>3. \A g \in FESs : Keeps(fesToWS[g], fesToWS'[g], Traffic(v))
      BY <1>9, <3>1
    <3> QED
      BY <1>1, <2>1, <3>2, <3>3, KeepsSame DEF Bystander, lsVars, fesVars, SessionsOf
  <2>5. PICK x \in Ways, y \in Returns, g \in Null(FESs) : Trip(u, x, y, g)
    BY DEF Good, Trips
  <2>6. UNCHANGED <<users, lsToWS, wsToFES, pending, playing>>
    BY <1>1, <2>1 DEF lsVars, fesVars
  <2>7. /\ {"in1", "in2", "done"} \subseteq Ways /\ "at2" \in Returns /\ f \in Null(FESs)
    BY DEF Ways, Returns, Null
  <2>8. Trips'
    <3>1. CASE h = Arrival(u)
      <4>1. Trip(u, "in2", y, f)'
        BY <1>1, <2>1, <2>5, <2>6, <3>1, ArrivalPassed DEF h, q
      <4> QED
        BY <2>4, <2>7, <4>1, TripsMoved DEF Good
    <3>2. CASE h = Departure(u)
      <4>1. Trip(u, x, "at2", f)'
        BY <1>1, <2>1, <2>5, <2>6, <3>2, DeparturePassed DEF h, q
      <4> QED
        BY <2>4, <2>5, <2>7, <4>1, TripsMoved DEF Good
    <3> QED
      BY <2>3, <3>1, <3>2
  <2>9. OneLink'
    BY <1>1, <1>4, <2>1, <2>2, SendOneLink DEF Good, OneLink
  <2>10. Apart'
    BY <1>10, <2>1 DEF Good, Apart
  <2> QED
    BY <1>6, <1>7, <1>8, <2>8, <2>9, <2>10 DEF Good
<1> QED
  BY <1>11, <1>12

LEMMA LeastNumber ==
  ASSUME NEW S, S \subseteq Nat, S # {}
  PROVE  \E n \in S : \A m \in S : n <= m
<1>1. PICK n \in S : \A m \in S : ~(<<m, n>> \in OpToRel(<, Nat))
  BY NatLessThanWellFounded, WFMin
<1>2. \A m \in S : ~(m < n)
  BY <1>1 DEF OpToRel
<1>3. \A m \in S : n <= m
  <2> SUFFICES ASSUME NEW m \in S PROVE n <= m
    OBVIOUS
  <2>1. m \in Nat /\ n \in Nat /\ ~(m < n)
    BY <1>2
  <2> QED
    BY <2>1
<1> QED
  BY <1>3

(* findBestFES finds one of the front ends that accept clients.            *)
LEMMA BestIsAccepting ==
  ASSUME NEW list \in Seq(Entries), Accepting(list) # {}
  PROVE  BestFES(list) \in Accepting(list)
<1> DEFINE A == Accepting(list)
           H == {Heuristic(list[i]) : i \in A}
<1>1. A \subseteq Nat /\ \A i \in A : Heuristic(list[i]) \in Nat
  <2>1. DOMAIN list = 1 .. Len(list) /\ \A i \in DOMAIN list : list[i] \in Entries
    OBVIOUS
  <2>2. \A e \in Entries : Heuristic(e) \in Nat
    BY DEF Entries, Heuristic
  <2> QED
    BY <2>1, <2>2 DEF Accepting
<1>2. H \subseteq Nat /\ H # {}
  BY <1>1
<1>3. PICK h \in H : \A m \in H : h <= m
  BY <1>2, LeastNumber
<1> DEFINE B == {i \in A : Heuristic(list[i]) = h}
<1>4. B \subseteq Nat /\ B # {}
  BY <1>1, <1>3
<1>5. PICK i \in B : \A j \in B : i <= j
  <2> HIDE DEF B
  <2> QED
    BY <1>4, LeastNumber
<1>6. i \in A /\ \A j \in A : \/ Heuristic(list[i]) < Heuristic(list[j])
                              \/ Heuristic(list[i]) = Heuristic(list[j]) /\ i <= j
  <2> SUFFICES ASSUME NEW j \in A
               PROVE  \/ Heuristic(list[i]) < Heuristic(list[j])
                      \/ Heuristic(list[i]) = Heuristic(list[j]) /\ i <= j
    BY <1>5
  <2>1. h <= Heuristic(list[j]) /\ Heuristic(list[i]) = h /\ h \in Nat /\ Heuristic(list[j]) \in Nat
    BY <1>1, <1>2, <1>3, <1>5
  <2>2. CASE Heuristic(list[j]) = h
    BY <1>5, <2>1, <2>2
  <2>3. CASE Heuristic(list[j]) # h
    BY <2>1, <2>3
  <2> QED
    BY <2>2, <2>3
<1> QED
  BY <1>6 DEF BestFES

(* lsChooseShard opens at most one more front end.                         *)
LEMMA OpensOne ==
  ASSUME FESList \in Seq(Entries)
  PROVE  /\ Opened \in Seq(Entries) /\ Len(Opened) = Len(FESList)
         /\ \A i \in 1 .. Len(FESList) : Opened[i].SId = FESList[i].SId
         /\ Opens # {} => \E i \in 1 .. Len(FESList) : Opens = {i}
<1>1. /\ DOMAIN FESList = 1 .. Len(FESList) /\ Len(FESList) \in Nat
      /\ \A i \in 1 .. Len(FESList) : FESList[i] \in Entries
  OBVIOUS
<1>2. \A i \in 1 .. Len(FESList) : Opened[i] \in Entries /\ Opened[i].SId = FESList[i].SId
  <2> SUFFICES ASSUME NEW i \in 1 .. Len(FESList)
               PROVE  Opened[i] \in Entries /\ Opened[i].SId = FESList[i].SId
    OBVIOUS
  <2>1. Opened[i] = IF i \in Opens THEN [FESList[i] EXCEPT !.accepts = TRUE] ELSE FESList[i]
    BY <1>1 DEF Opened
  <2> QED
    BY <1>1, <2>1, EntryTypes
<1>3. DOMAIN Opened = 1 .. Len(FESList) /\ Opened = [i \in 1 .. Len(FESList) |-> Opened[i]]
  BY <1>1 DEF Opened
<1>4. Opened \in Seq(Entries) /\ Len(Opened) = Len(FESList)
  BY <1>1, <1>2, <1>3
<1>5. ASSUME Opens # {} PROVE \E i \in 1 .. Len(FESList) : Opens = {i}
  <2> DEFINE P == Patching(FESList)
  <2>1. Opens = {Min(P)} /\ P # {}
    BY <1>5 DEF Opens
  <2>2. P \subseteq 1 .. Len(FESList) /\ P \subseteq Nat
    BY <1>1 DEF Patching
  <2> HIDE DEF P
  <2>3. \E n \in P : \A m \in P : n <= m
    BY <2>1, <2>2, LeastNumber
  <2>4. Min(P) \in P
    BY <2>3 DEF Min
  <2> QED
    BY <2>1, <2>2, <2>4
<1> QED
  BY <1>2, <1>4, <1>5

(* What is sent to the front end that is opened.                           *)
LEMMA OpenSent ==
  ASSUME TypeInv, Good
  PROVE  /\ OpenMsgs \in [FESs -> Seq(ToFES)]
         /\ \A g \in FESs : ~sees[g] => OpenMsgs[g] = <<>>
         /\ \A u \in Users, g \in FESs : Keeps(wsToFES[g], OpenMsgs[g], Requests(u))
<1>1. wsToFES \in [FESs -> Seq(ToFES)] /\ FESList \in Seq(Entries)
  BY DEF TypeInv, LinkTypes, Good, Listing
<1>2. CASE Opens = {}
  BY <1>1, <1>2, KeepsSame DEF OpenMsgs, Good, Apart
<1>3. CASE Opens # {}
  <2>1. PICK i \in 1 .. Len(FESList) : Opens = {i}
    BY <1>1, <1>3, OpensOne
  <2> DEFINE f == FESList[i].SId
  <2>2. f \in FESs /\ sees[f]
    <3>1. FESList[i] \in Entries
      BY <1>1
    <3> QED
      BY <3>1, EntryTypes DEF Good, Listing
  <2>3. OpenMsgs = [wsToFES EXCEPT ![f] = @ \o <<AcceptMsg>>]
    BY <1>3, <2>1 DEF OpenMsgs, Sent
  <2>4. AcceptMsg \in ToFES /\ AcceptMsg.type # "CS"
    BY MessagesAreTyped DEF AcceptMsg
  <2> HIDE DEF f
  <2>5. wsToFES[f] \o <<AcceptMsg>> = Append(wsToFES[f], AcceptMsg)
    BY <1>1, <2>2, <2>4
  <2>6. OpenMsgs = [wsToFES EXCEPT ![f] = Append(wsToFES[f], AcceptMsg)]
    BY <2>3, <2>5
  <2>7. \A u \in Users : Keeps(wsToFES[f], Append(wsToFES[f], AcceptMsg), Requests(u))
    BY <1>1, <2>2, <2>4, KeepsAppend, OneAccount
  <2>8. Append(wsToFES[f], AcceptMsg) \in Seq(ToFES)
    BY <1>1, <2>2, <2>4
  <2> QED
    BY <1>1, <2>2, <2>6, <2>7, <2>8, QueueKept DEF Good, Apart
<1> QED
  BY <1>2, <1>3

LEMMA AskedCookie ==
  ASSUME TypeInv, Trips, NEW k \in Cookies, lsToWS # <<>>, Head(lsToWS) = ChooseMsg(k)
  PROVE  /\ k.user \in Users /\ users[k.user].cookie = k
         /\ \E g \in Null(FESs) : Trip(k.user, "asked", "none", g)
<1>1. k.user \in Users /\ k \in CookiesOf(k.user) /\ lsToWS \in Seq(ToWS)
  BY DEF Cookies, CookiesOf, TypeInv, NetTypes
<1>2. PICK x \in Ways, y \in Returns, g \in Null(FESs) : Trip(k.user, x, y, g)
  BY <1>1 DEF Trips
<1>3. Where(lsToWS, ChooseMsg(k), x = "asked" /\ users[k.user].cookie = k)
  BY <1>1, <1>2 DEF Trip, OnLink, Now
<1>4. ~Never(lsToWS, ChooseMsg(k))
  BY <1>1, WhereAfterTail
<1>5. x = "asked" /\ users[k.user].cookie = k
  BY <1>3, <1>4 DEF Where
<1>6. y = "none"
  BY <1>2, <1>5 DEF Trip, Consistent, Entered
<1> QED
  BY <1>1, <1>2, <1>5, <1>6

(* The trip of a cookie that the WS passes on or refuses.                  *)
LEMMA Unasked ==
  ASSUME TypeInv, NEW k \in Cookies, lsToWS # <<>>, Head(lsToWS) = ChooseMsg(k),
         NEW u, u = k.user, NEW g, Trip(u, "asked", "none", g), users[u].cookie = k
  PROVE  /\ \A j \in CookiesOf(u) : Never(Tail(lsToWS), ChooseMsg(j))
         /\ \A v \in Users : v # u => Keeps(lsToWS, Tail(lsToWS), Requests(v))
<1>1. lsToWS \in Seq(ToWS)
  BY DEF TypeInv, NetTypes
<1>2. ASSUME NEW j \in CookiesOf(u) PROVE Never(Tail(lsToWS), ChooseMsg(j))
  <2>1. Where(lsToWS, ChooseMsg(j), j = k)
    BY DEF Trip, OnLink, Now
  <2> QED
    BY <1>1, <2>1, WhereAfterTail DEF Where
<1>3. ASSUME NEW v \in Users, v # u PROVE Keeps(lsToWS, Tail(lsToWS), Requests(v))
  <2>1. Head(lsToWS) \notin Requests(v)
    BY <1>3, OneAccount
  <2> QED
    BY <1>1, <2>1, KeepsTail
<1> QED
  BY <1>2, <1>3

LEMMA RefusedGood ==
  ASSUME TypeInv, Good, NEW k \in Cookies, lsToWS # <<>>, Head(lsToWS) = ChooseMsg(k),
         lsToWS' = Tail(lsToWS), wsToLS' = Refuse(k), wsToFES' = OpenMsgs,
         UNCHANGED <<users, pending, playing, fesToWS>>
  PROVE  Trips'
<1> DEFINE u == k.user
<1>1. PICK g \in Null(FESs) : Trip(u, "asked", "none", g)
  BY AskedCookie DEF Good
<1>2. u \in Users /\ users[u].cookie = k /\ k \in CookiesOf(u)
  BY AskedCookie DEF Good, CookiesOf
<1> HIDE DEF u
<1>3. /\ \A j \in CookiesOf(u) : Never(lsToWS', ChooseMsg(j))
      /\ \A v \in Users : v # u => Keeps(lsToWS, lsToWS', Requests(v))
  BY <1>1, <1>2, Unasked DEF u
<1>4. RefusedMsg(k) \in FromWS
  BY MessagesAreTyped
<1>5. ASSUME NEW v \in Users, v # u PROVE Bystander(v)
  <2>1. From(1, RefusedMsg(k)) \notin Reports(v)
    BY <1>5, OneAccount DEF u
  <2>2. Keeps(wsToLS, wsToLS', Reports(v))
    BY <1>4, <2>1, SendKeeps DEF Refuse
  <2> QED
    BY <1>3, <1>5, <2>2, KeepsSame, OpenSent DEF Bystander, SessionsOf
<1>6. users[u].state = "Waiting"
  BY <1>1 DEF Trip, InTable
<1>7. /\ wsToLS \in Seq(ToLS) /\ From(1, RefusedMsg(k)) \in ToLS
      /\ wsToLS' = Append(wsToLS, From(1, RefusedMsg(k)))
  BY <1>2, <1>4, <1>6, InLogin, ReportMessages DEF TypeInv, NetTypes, Refuse, SendLS
<1>8. OnLink(u, "refused", "none")'
  <2>1. /\ \A j \in CookiesOf(u) : Never(wsToLS, From(1, RefusedMsg(j)))
        /\ Never(wsToLS, From(1, Arrival(u))) /\ Never(wsToLS, From(1, Departure(u)))
    BY <1>1 DEF Trip, OnLink, Where
  <2>2. Never(wsToLS', From(1, Arrival(u))) /\ Never(wsToLS', From(1, Departure(u)))
    BY <1>7, <2>1, WhereAfterAppend, OneAccount
  <2>3. ASSUME NEW j \in CookiesOf(u)
        PROVE  Where(wsToLS', From(1, RefusedMsg(j)), Now(u, j))
    <3>1. CASE j = k
      BY <1>2, <1>7, <2>1, <3>1, WhereAfterAppend DEF Where, Now
    <3>2. CASE j # k
      <4>1. From(1, RefusedMsg(j)) # From(1, RefusedMsg(k))
        BY <3>2, OneAccount
      <4> QED
        BY <1>2, <1>7, <2>1, <3>2, <4>1, WhereAfterAppend DEF Where, Now
    <3> QED
      BY <3>1, <3>2
  <2>4. Before(wsToLS', From(1, Arrival(u)), From(1, Departure(u)))
    BY <2>2 DEF Never, Before
  <2> QED
    BY <1>3, <2>2, <2>3, <2>4 DEF OnLink, Where, Now
<1>9. ASSUME NEW e \in FESs PROVE AtFront(u, "refused", "none", g, e)'
  <2>1. \A j \in CookiesOf(u) : Never(OpenMsgs[e], ChooseMsg(j))
    BY <1>1, <1>2, OpenSent DEF Trip, AtFront, Where, Keeps, Requests
  <2> QED
    BY <1>1, <2>1 DEF Trip, AtFront, Where
<1>10. ASSUME NEW e \in FESs PROVE PlaysAt(u, "refused", "none", g, e)'
  BY <1>1 DEF Trip, PlaysAt, Entered, SessionsOf
<1>11. InTable(u, "refused")' /\ Consistent("refused", "none", g)
  BY <1>6 DEF InTable, Consistent, Ways, Returns, Entered
<1>12. Trip(u, "refused", "none", g)'
  BY <1>8, <1>9, <1>10, <1>11 DEF Trip, Consistent
<1> QED
  <2>1. "refused" \in Ways /\ "none" \in Returns
    BY DEF Ways, Returns
  <2> QED
    BY <1>2, <1>5, <1>12, <2>1, TripsMoved DEF Good

LEMMA ChosenGood ==
  ASSUME TypeInv, Good, NEW k \in Cookies, lsToWS # <<>>, Head(lsToWS) = ChooseMsg(k),
         NEW f \in FESs, lsToWS' = Tail(lsToWS),
         wsToFES' = [OpenMsgs EXCEPT ![f] = Append(@, ChooseMsg(k))],
         UNCHANGED <<users, wsToLS, pending, playing, fesToWS>>
  PROVE  Trips'
<1> DEFINE u == k.user
           m == ChooseMsg(k)
<1>1. PICK g \in Null(FESs) : Trip(u, "asked", "none", g)
  BY AskedCookie DEF Good
<1>2. u \in Users /\ users[u].cookie = k /\ k \in CookiesOf(u)
  BY AskedCookie DEF Good, CookiesOf
<1> HIDE DEF u
<1>3. /\ \A j \in CookiesOf(u) : Never(lsToWS', ChooseMsg(j))
      /\ \A v \in Users : v # u => Keeps(lsToWS, lsToWS', Requests(v))
  BY <1>1, <1>2, Unasked DEF u
<1>4. m \in ToFES /\ OpenMsgs \in [FESs -> Seq(ToFES)]
  BY MessagesAreTyped, OpenSent
<1>5. \A e \in FESs : wsToFES'[e] = IF e = f THEN Append(OpenMsgs[f], m) ELSE OpenMsgs[e]
  BY <1>4
<1>6. ASSUME NEW v \in Users, v # u PROVE Bystander(v)
  <2>1. m \notin Requests(v)
    BY <1>6, OneAccount DEF u
  <2>2. Keeps(OpenMsgs[f], Append(OpenMsgs[f], m), Requests(v))
    BY <1>4, <2>1, KeepsAppend
  <2>3. \A e \in FESs : Keeps(wsToFES[e], wsToFES'[e], Requests(v))
    BY <1>5, <2>2, OpenSent, KeepsTrans
  <2> QED
    BY <1>3, <1>6, <2>3, KeepsSame DEF Bystander, SessionsOf
<1>7. OnLink(u, "sent", "none")'
  BY <1>1, <1>3 DEF Trip, OnLink, Where
<1>8. ASSUME NEW e \in FESs PROVE AtFront(u, "sent", "none", f, e)'
  <2>1. \A j \in CookiesOf(u) : Never(OpenMsgs[e], ChooseMsg(j))
    BY <1>1, <1>2, OpenSent DEF Trip, AtFront, Where, Keeps, Requests
  <2>2. ASSUME NEW j \in CookiesOf(u)
        PROVE  Where(wsToFES'[e], ChooseMsg(j), e = f /\ Now(u, j))
    <3>1. CASE e # f
      BY <1>5, <2>1, <3>1 DEF Where
    <3>2. CASE e = f /\ j = k
      BY <1>2, <1>4, <1>5, <2>1, <3>2, WhereAfterAppend DEF Where, Now
    <3>3. CASE e = f /\ j # k
      <4>1. ChooseMsg(j) # m
        BY <3>3, OneAccount
      <4> QED
        BY <1>2, <1>4, <1>5, <2>1, <3>3, <4>1, WhereAfterAppend DEF Where, Now
    <3> QED
      BY <3>1, <3>2, <3>3
  <2> QED
    BY <1>1, <2>2 DEF Trip, AtFront, Where, Now
<1>9. ASSUME NEW e \in FESs PROVE PlaysAt(u, "sent", "none", f, e)'
  BY <1>1 DEF Trip, PlaysAt, Entered, SessionsOf
<1>10. InTable(u, "sent")' /\ Consistent("sent", "none", f)
  BY <1>1 DEF Trip, InTable, Consistent, Ways, Returns, Entered
<1>11. Trip(u, "sent", "none", f)'
  BY <1>7, <1>8, <1>9, <1>10 DEF Trip, Consistent
<1> QED
  <2>1. "sent" \in Ways /\ "none" \in Returns /\ f \in Null(FESs)
    BY DEF Ways, Returns, Null
  <2> QED
    BY <1>2, <1>6, <1>11, <2>1, TripsMoved DEF Good

LEMMA WSChooseShardGood ==
  ASSUME TypeInv, Good, WSChooseShard,
         UNCHANGED <<lsVars, fesVars, link, linked, broken, sees>>
  PROVE  Good'
<1> DEFINE list == Opened
<1>1. /\ lsToWS \in Seq(ToWS) /\ lsToWS # <<>> /\ Head(lsToWS).type = "CS"
      /\ lsToWS' = Tail(lsToWS) /\ UNCHANGED <<wsUp, fesToWS>>
  BY DEF TypeInv, NetTypes, WSChooseShard, Reads
<1>2. PICK k \in Cookies : k = Head(lsToWS).cookie /\ Head(lsToWS) = ChooseMsg(k)
  BY <1>1, HeadAndTail, RequestMessages
<1>3. linked /\ link = 1
  <2>1. PICK g \in Null(FESs) : Trip(k.user, "asked", "none", g)
    BY <1>1, <1>2, AskedCookie DEF Good
  <2>2. k.user \in Users /\ users[k.user].state = "Waiting"
    BY <2>1 DEF Trip, InTable, Cookies
  <2> QED
    BY <2>2, InLogin
<1>4. /\ FESList \in Seq(Entries) /\ list \in Seq(Entries) /\ Len(list) = Len(FESList)
      /\ \A i \in 1 .. Len(list) : list[i].SId = FESList[i].SId
      /\ \A i \in 1 .. Len(list) : list[i] \in Entries /\ sees[list[i].SId]
  BY OpensOne DEF Good, Listing
<1>5. Running' /\ Books'
  BY <1>1, PartsSame DEF Good, lsVars, fesVars
<1> HIDE DEF list
<1>6. CASE Accepting(list) = {} \/ Full(list)
  <2>1. FESList' = list /\ wsToLS' = Refuse(k) /\ wsToFES' = OpenMsgs
    BY <1>2, <1>6 DEF WSChooseShard, list
  <2>2. Trips'
    BY <1>1, <1>2, <2>1, RefusedGood DEF lsVars, fesVars
  <2>3. OneLink'
    <3>1. RefusedMsg(k) \in FromWS /\ RefusedMsg(k) # DownMsg
      <4>1. RefusedMsg(k) # DownMsg
        BY DEF RefusedMsg, DownMsg
      <4> QED
        BY <4>1, MessagesAreTyped
    <3> QED
      BY <1>3, <2>1, <3>1, SendOneLink DEF Refuse
  <2>4. Apart'
    BY <1>1, <2>1, OpenSent DEF Good, Apart, fesVars
  <2>5. Listing'
    BY <1>4, <2>1 DEF Listing
  <2> QED
    BY <1>5, <2>2, <2>3, <2>4, <2>5 DEF Good
<1>7. CASE ~(Accepting(list) = {} \/ Full(list))
  <2>1. PICK b \in Accepting(list) : b = BestFES(list)
    BY <1>4, <1>7, BestIsAccepting
  <2>2. b \in 1 .. Len(list) /\ DOMAIN list = 1 .. Len(list) /\ Len(list) \in Nat
    BY <1>4, <2>1 DEF Accepting
  <2>3. PICK f \in FESs : f = list[b].SId /\ sees[f]
    BY <1>4, <2>2, EntryTypes
  <2>4. /\ wsToFES' = [OpenMsgs EXCEPT ![f] = Append(@, ChooseMsg(k))]
        /\ FESList' = [list EXCEPT ![b].NbPendingUsers = @ + 1]
        /\ UNCHANGED <<wsToLS, assoc>>
    BY <1>2, <1>7, <2>1, <2>3 DEF WSChooseShard, list
  <2>5. Trips'
    BY <1>1, <1>2, <2>4, ChosenGood DEF lsVars, fesVars
  <2>6. OneLink'
    BY <1>3, <2>4 DEF Good, OneLink
  <2>7. Apart'
    BY <1>1, <2>3, <2>4, OpenSent DEF Good, Apart, fesVars
  <2>8. Listing'
    <3> DEFINE n == list[b].NbPendingUsers + 1
               e == [list[b] EXCEPT !.NbPendingUsers = n]
    <3>1. FESList' = [list EXCEPT ![b] = e]
      BY <2>2, <2>4
    <3>2. list[b] \in Entries /\ n \in Nat
      <4>1. list[b] \in Entries
        BY <1>4, <2>2
      <4>2. list[b].NbPendingUsers \in Nat
        BY <4>1, EntryTypes
      <4> QED
        BY <4>1, <4>2
    <3> HIDE DEF n
    <3>3. e \in Entries /\ e.SId = list[b].SId
      BY <3>2 DEF Entries
    <3> HIDE DEF e
    <3>4. FESList' \in Seq(Entries) /\ Len(FESList') = Len(list)
      BY <1>4, <2>2, <3>1, <3>3
    <3>5. \A i \in 1 .. Len(list) : FESList'[i].SId = list[i].SId
      BY <1>4, <2>2, <3>1, <3>3
    <3> QED
      BY <1>4, <3>4, <3>5 DEF Listing
  <2> QED
    BY <1>5, <2>5, <2>6, <2>7, <2>8 DEF Good
<1> QED
  BY <1>6, <1>7

(* The front ends of known players are connected to the WS.                *)
LEMMA KnownSeen ==
  ASSUME TypeInv, KnownInv, Good, NEW f \in FESs, NEW u \in Users, assoc[u] = f
  PROVE  sees[f]
<1>1. KnownOK(f, fesToWS[f]) /\ ~Unknown(f) /\ phase[f] # "dead" /\ sees[f] \in BOOLEAN
  BY DEF KnownInv, Unknown, Good, Running, TypeInv, LinkTypes
<1> QED
  BY <1>1 DEF KnownOK

LEMMA WSLoginGood ==
  ASSUME TypeInv, KnownInv, Good, WSLogin
  PROVE  Good'
<1>1. UNCHANGED <<lsVars, fesVars, link, linked, broken, sees>>
  BY DEF WSLogin
<1>2. CASE WSChooseShard
  BY <1>1, <1>2, WSChooseShardGood
<1>3. CASE WSDisconnectClient
  <2>1. /\ lsToWS \in Seq(ToWS) /\ lsToWS # <<>> /\ Head(lsToWS).type = "DC"
        /\ lsToWS' = Tail(lsToWS) /\ UNCHANGED <<wsUp, FESList, assoc, wsToLS, fesToWS>>
    BY <1>3 DEF TypeInv, NetTypes, WSDisconnectClient, Reads
  <2>2. PICK u \in Users : u = Head(lsToWS).user
    BY <2>1, HeadAndTail, TypedMessages
  <2>3. wsToFES' = IF Known(u) THEN Sent(assoc[u], <<KickMsg(u)>>) ELSE wsToFES
    BY <1>3, <2>2 DEF WSDisconnectClient
  <2>4. KickMsg(u) \in ToFES /\ \A v \in Users : KickMsg(u) \notin Requests(v)
    <3>1. KickMsg(u).type # "CS"
      BY DEF KickMsg
    <3> QED
      BY <3>1, MessagesAreTyped, OneAccount
  <2>5. /\ \A v \in Users, g \in FESs : Keeps(wsToFES[g], wsToFES'[g], Requests(v))
        /\ \A g \in FESs : ~sees[g] => wsToFES'[g] = <<>>
    <3>1. CASE ~Known(u)
      BY <2>3, <3>1, KeepsSame DEF Good, Apart
    <3>2. CASE Known(u)
      <4>1. PICK f \in FESs : f = assoc[u]
        BY <3>2 DEF Known, TypeInv, LinkTypes, Null
      <4>2. wsToFES' = Sent(f, <<KickMsg(u)>>)
        BY <2>3, <3>2, <4>1
      <4>3. sees[f]
        BY <4>1, KnownSeen DEF Good
      <4> QED
        BY <2>4, <4>2, <4>3, SentKeeps, SentApart DEF Good
    <3> QED
      BY <3>1, <3>2
  <2>6. \A v \in Users : Keeps(lsToWS, lsToWS', Requests(v))
    <3>1. \A v \in Users : Head(lsToWS) \notin Requests(v)
      BY <2>1, OneAccount
    <3> QED
      BY <2>1, <3>1, KeepsTail
  <2>7. \A v \in Users : Bystander(v)
    BY <1>1, <2>1, <2>5, <2>6, KeepsSame DEF Bystander, lsVars, fesVars, SessionsOf
  <2>8. OneLink'
    BY <1>1, <2>1 DEF Good, OneLink
  <2>9. Apart'
    BY <1>1, <2>1, <2>5 DEF Good, Apart, fesVars
  <2> QED
    BY <1>1, <2>1, <2>7, <2>8, <2>9, PartsSame, TripsKept DEF Good, lsVars, fesVars
<1> QED
  BY <1>2, <1>3 DEF WSLogin

LEMMA WSConnectGood ==
  ASSUME TypeInv, Good, WSConnect
  PROVE  Good'
<1>1. /\ UNCHANGED <<lsVars, fesVars, wsVars, broken, sees, wsToFES, fesToWS>>
      /\ ~linked /\ link' = link + 1 /\ linked' = TRUE /\ lsToWS' = <<>>
      /\ wsToLS' = Append(wsToLS, From(link + 1, IdentMsg))
  BY DEF WSConnect, WSConnectsLS
<1>2. link = 0 /\ lsToWS = <<>> /\ wsToLS = <<>>
  BY <1>1 DEF Good, Running, OneLink
<1>3. IdentMsg \in FromWS /\ IdentMsg.type = "WS_IDENT" /\ IdentMsg # DownMsg
  BY MessagesAreTyped DEF IdentMsg, DownMsg
<1> DEFINE e == From(1, IdentMsg)
<1>4. e \in ToLS /\ e.link = 1 /\ e.msg = IdentMsg
  BY <1>3, ReportMessages
<1>5. wsToLS' = Append(wsToLS, e) /\ wsToLS \in Seq(ToLS)
  BY <1>1, <1>2 DEF TypeInv, NetTypes
<1> HIDE DEF e
<1>6. \A u \in Users : Keeps(wsToLS, wsToLS', Reports(u))
  <2>1. \A u \in Users : e \notin Reports(u)
    BY <1>3, <1>4, OneAccount
  <2> QED
    BY <1>4, <1>5, <2>1, KeepsAppend
<1>7. \A u \in Users : Bystander(u)
  BY <1>1, <1>2, <1>6, KeepsSame DEF Bystander, lsVars, fesVars, SessionsOf
<1>8. OneLink'
  <2>1. wsToLS' = <<e>>
    BY <1>2, <1>4, <1>5
  <2>2. Len(wsToLS') = 1 /\ wsToLS'[1] = e
    BY <2>1
  <2>3. \A i \in 1 .. 1 : i = 1
    OBVIOUS
  <2>4. \A i \in 1 .. Len(wsToLS') : wsToLS'[i] = e
    BY <2>2, <2>3
  <2> QED
    BY <1>1, <1>3, <1>4, <2>4 DEF OneLink
<1>9. Running'
  <2>1. shardSId = 0 /\ link' = 1 /\ linked'
    BY <1>1, <1>2 DEF Good, Running
  <2> QED
    BY <1>1, <2>1 DEF Good, Running, lsVars, wsVars, fesVars
<1> QED
  BY <1>1, <1>7, <1>8, <1>9, PartsSame, TripsKept DEF Good, lsVars, fesVars, wsVars

(* The steps of the LS.  An account that does not wait and is not Online   *)
(* has no cookie anywhere else.                                            *)
LEMMA AtHome ==
  ASSUME Good, NEW u \in Users, users[u].state \in {"Offline", "Authorized"}
  PROVE  \E f \in Null(FESs) : Trip(u, "home", "none", f)
<1>1. PICK x \in Ways, y \in Returns, f \in Null(FESs) : Trip(u, x, y, f)
  BY DEF Good, Trips
<1>2. x = "home"
  BY <1>1 DEF Trip, InTable
<1>3. y = "none"
  BY <1>1, <1>2 DEF Trip, Consistent, Entered
<1> QED
  BY <1>1, <1>2, <1>3

LEMMA RowGood ==
  ASSUME TypeInv, Good, NEW u \in Users, users[u].state \in {"Offline", "Authorized"},
         NEW r, users' = [users EXCEPT ![u] = r], r.state \in {"Offline", "Authorized"},
         r.cookie \in Cookies => r.cookie.user = u,
         UNCHANGED <<lsUp, shardSId, nbPlayers, wsVars, netVars, phase, pending, playing>>
  PROVE  Good'
<1>1. users \in [Users -> Rows]
  BY DEF TypeInv, LSTypes
<1>2. \A v \in Users : users'[v] = IF v = u THEN r ELSE users[v]
  BY <1>1
<1>3. ASSUME NEW v \in Users, v # u PROVE Bystander(v)
  BY <1>2, <1>3, KeepsSame DEF Bystander, wsVars, netVars, SessionsOf
<1>4. PICK f \in Null(FESs) : Trip(u, "home", "none", f)
  BY AtHome
<1>5. Trip(u, "home", "none", f)'
  <2>1. OnLink(u, "home", "none")'
    BY <1>4 DEF Trip, OnLink, wsVars, netVars
  <2>2. ASSUME NEW g \in FESs
        PROVE  AtFront(u, "home", "none", f, g)' /\ PlaysAt(u, "home", "none", f, g)'
    BY <1>4 DEF Trip, AtFront, PlaysAt, Entered, SessionsOf, wsVars, netVars
  <2>3. InTable(u, "home")' /\ Consistent("home", "none", f)
    BY <1>2, <1>4 DEF Trip, InTable
  <2> QED
    BY <2>1, <2>2, <2>3 DEF Trip, Consistent
<1>6. Trips'
  <2>1. "home" \in Ways /\ "none" \in Returns
    BY DEF Ways, Returns
  <2> QED
    BY <1>3, <1>4, <1>5, <2>1, TripsMoved DEF Good
<1>7. Books'
  <2>1. OnlineOnes' = OnlineOnes
    BY <1>2 DEF OnlineOnes
  <2> QED
    BY <1>2, <2>1 DEF Good, Books
<1> QED
  BY <1>6, <1>7, PartsSame DEF Good, wsVars, netVars

LEMMA SendWSKeeps ==
  ASSUME TypeInv, OneLink, NEW m \in ToWS, lsToWS' = SendWS(m), UNCHANGED <<linked, wsToLS>>
  PROVE  /\ \A M : m \notin M => Keeps(lsToWS, lsToWS', M)
         /\ OneLink'
<1>1. lsToWS \in Seq(ToWS)
  BY DEF TypeInv, NetTypes
<1>2. ASSUME NEW M, m \notin M PROVE Keeps(lsToWS, lsToWS', M)
  BY <1>1, <1>2, KeepsAppend, KeepsSame DEF SendWS
<1>3. OneLink'
  BY DEF OneLink, SendWS
<1> QED
  BY <1>2, <1>3

LEMMA LSVerifyGood ==
  ASSUME TypeInv, Good, NEW a \in Addrs, LSVerify(a),
         UNCHANGED <<wsVars, fesVars, link, linked, broken, wsToLS, sees, wsToFES, fesToWS>>
  PROVE  Good'
<1>1. PICK u \in Users : u = conn[a].user /\ conn[a].client \in Clients
  BY DEF LSVerify, TypeInv, LSTypes, SocketOK
<1>2. UNCHANGED <<lsUp, shardSId, nbPlayers>>
  BY DEF LSVerify
<1>3. CASE NotOffline(u)
  <2>1. lsToWS' = SendWS(KickMsg(u)) /\ UNCHANGED users
    BY <1>1, <1>3 DEF LSVerify
  <2>2. KickMsg(u) \in ToWS /\ \A v \in Users : KickMsg(u) \notin Requests(v)
    <3>1. KickMsg(u).type # "CS"
      BY DEF KickMsg
    <3> QED
      BY <3>1, MessagesAreTyped, OneAccount
  <2>3. OneLink' /\ \A v \in Users : Keeps(lsToWS, lsToWS', Requests(v))
    BY <2>1, <2>2, SendWSKeeps DEF Good
  <2>4. \A v \in Users : Bystander(v)
    BY <2>1, <2>3, KeepsSame DEF Bystander, fesVars, SessionsOf
  <2> QED
    BY <1>2, <2>1, <2>3, <2>4, PartsSame, TripsKept DEF Good, wsVars, fesVars
<1>4. CASE ~NotOffline(u)
  <2> DEFINE k == NewCookie(a)
             r == [users[u] EXCEPT !.state = "Authorized", !.cookie = k]
  <2>1. users' = [users EXCEPT ![u].state = "Authorized", ![u].cookie = k] /\ UNCHANGED lsToWS
    BY <1>1, <1>4 DEF LSVerify
  <2>2. users \in [Users -> Rows] /\ users[u] \in Rows
    BY DEF TypeInv, LSTypes
  <2>3. users' = [users EXCEPT ![u] = r]
    BY <2>1, <2>2
  <2>4. k.user = u
    BY <1>1 DEF NewCookie
  <2> HIDE DEF k
  <2>5. r.state = "Authorized" /\ r.cookie = k
    BY <2>2 DEF Rows
  <2>6. users[u].state = "Offline"
    BY <1>4 DEF NotOffline
  <2> HIDE DEF r
  <2> QED
    BY <1>2, <2>1, <2>3, <2>4, <2>5, <2>6, RowGood DEF netVars, fesVars
<1> QED
  BY <1>3, <1>4

LEMMA LSChooseShardGood ==
  ASSUME TypeInv, Good, NEW a \in Addrs, LSChooseShard(a),
         UNCHANGED <<wsVars, fesVars, link, linked, broken, wsToLS, sees, wsToFES, fesToWS>>
  PROVE  Good'
<1>1. UNCHANGED <<lsUp, shardSId, nbPlayers>>
  BY DEF LSChooseShard
<1>2. CASE UNCHANGED <<users, lsToWS>>
  BY <1>1, <1>2, StillGood DEF netVars, fesVars
<1>3. CASE ~UNCHANGED <<users, lsToWS>>
  <2>1. /\ shardSId # 0
        /\ \E u \in RowsAt(a, {"Authorized"}) :
             /\ users' = Waits(u)
             /\ lsToWS' = IF shardSId = link THEN SendWS(ChooseMsg(users[u].cookie))
                          ELSE lsToWS
    BY <1>3 DEF LSChooseShard
  <2>2. PICK u \in RowsAt(a, {"Authorized"}) :
             /\ users' = Waits(u)
             /\ lsToWS' = IF shardSId = link THEN SendWS(ChooseMsg(users[u].cookie))
                          ELSE lsToWS
    BY <2>1
  <2>3. shardSId = link /\ linked /\ link = 1
    BY <2>1 DEF Good, Running
  <2>4. u \in Users /\ users[u].state = "Authorized" /\ users[u].cookie # None
    BY DEF RowsAt
  <2>5. users \in [Users -> Rows] /\ users[u] \in Rows /\ lsToWS \in Seq(ToWS)
    BY <2>4 DEF TypeInv, LSTypes, NetTypes
  <2>6. PICK k \in Cookies : k = users[u].cookie /\ k \in CookiesOf(u)
    BY <2>4, <2>5 DEF Rows, Null, Good, Books, CookiesOf
  <2>7. ChooseMsg(k) \in ToWS /\ lsToWS' = Append(lsToWS, ChooseMsg(k)) /\ lsToWS' = SendWS(ChooseMsg(k))
    BY <2>2, <2>3, <2>6, MessagesAreTyped DEF SendWS
  <2>8. \A v \in Users : /\ v # u => users'[v] = users[v]
                         /\ v = u => users'[v].state = "Waiting" /\ users'[v].cookie = k
    BY <2>2, <2>4, <2>5, <2>6 DEF Waits, Rows
  <2>9. OneLink' /\ \A M : ChooseMsg(k) \notin M => Keeps(lsToWS, lsToWS', M)
    BY <2>7, SendWSKeeps DEF Good
  <2>10. ASSUME NEW v \in Users, v # u PROVE Bystander(v)
    <3>1. ChooseMsg(k) \notin Requests(v)
      BY <2>6, <2>10, OneAccount DEF CookiesOf
    <3> QED
      BY <2>8, <2>9, <2>10, <3>1, KeepsSame DEF Bystander, fesVars, SessionsOf
  <2>11. PICK f \in Null(FESs) : Trip(u, "home", "none", f)
    BY <2>4, AtHome
  <2>12. Trip(u, "asked", "none", f)'
    <3>1. ASSUME NEW j \in CookiesOf(u)
          PROVE  Where(lsToWS', ChooseMsg(j), users'[u].cookie = j)
      <4>0. lsToWS \in Seq(ToWS) /\ ChooseMsg(k) \in ToWS
        BY <2>5, <2>7
      <4>1. Never(lsToWS, ChooseMsg(j)) /\ Never(lsToWS, ChooseMsg(k))
        BY <2>6, <2>11 DEF Trip, OnLink, Where
      <4>2. users'[u].cookie = k
        BY <2>4, <2>8
      <4>3. CASE j = k
        <5>1. Once(Append(lsToWS, ChooseMsg(k)), ChooseMsg(k))
          BY <4>0, <4>1, WhereAfterAppend
        <5> QED
          BY <2>7, <4>2, <4>3, <5>1 DEF Where
      <4>4. CASE j # k
        <5>1. ChooseMsg(j) # ChooseMsg(k)
          BY <4>4, OneAccount
        <5>2. Never(Append(lsToWS, ChooseMsg(k)), ChooseMsg(j))
          BY <4>0, <4>1, WhereAfterAppend, <5>1
        <5> QED
          BY <2>7, <4>2, <4>4, <5>2 DEF Where
      <4> QED
        BY <4>3, <4>4
    <3>2. OnLink(u, "asked", "none")'
      BY <2>11, <3>1 DEF Trip, OnLink, Where, Now
    <3>3. ASSUME NEW g \in FESs
          PROVE  AtFront(u, "asked", "none", f, g)' /\ PlaysAt(u, "asked", "none", f, g)'
      BY <2>11 DEF Trip, AtFront, PlaysAt, Entered, SessionsOf, fesVars
    <3>4. InTable(u, "asked")' /\ Consistent("asked", "none", f)
      BY <2>4, <2>8 DEF InTable, Consistent, Ways, Returns, Entered
    <3> QED
      BY <3>2, <3>3, <3>4 DEF Trip, Consistent
  <2>13. Trips'
    <3>1. "asked" \in Ways /\ "none" \in Returns
      BY DEF Ways, Returns
    <3> QED
      BY <2>4, <2>10, <2>11, <2>12, <3>1, TripsMoved DEF Good
  <2>14. Books'
    <3>1. OnlineOnes' = OnlineOnes
      BY <2>4, <2>8 DEF OnlineOnes
    <3> QED
      BY <1>1, <2>1, <2>6, <2>8, <3>1 DEF Good, Books, CookiesOf
  <2> QED
    BY <1>1, <2>9, <2>13, <2>14, PartsSame DEF Good, wsVars, fesVars
<1> QED
  BY <1>2, <1>3

LEMMA LSClientGood ==
  ASSUME TypeInv, Good, NEW a \in Addrs, LSClient(a)
  PROVE  Good'
<1>1. UNCHANGED <<wsVars, fesVars, link, linked, broken, wsToLS, sees, wsToFES, fesToWS>>
  BY DEF LSClient
<1>2. CASE LSVerify(a)
  BY <1>1, <1>2, LSVerifyGood
<1>3. CASE LSChooseShard(a)
  BY <1>1, <1>3, LSChooseShardGood
<1>4. CASE LSClientGone(a)
  <2>1. UNCHANGED <<lsUp, shardSId, nbPlayers, lsToWS>>
    BY <1>4 DEF LSClientGone
  <2>2. CASE UNCHANGED users
    BY <1>1, <2>1, <2>2, StillGood DEF netVars, fesVars
  <2>3. CASE ~UNCHANGED users
    <3>1. PICK u \in Users : Resettable(u) /\ users' = [users EXCEPT ![u] = Offline]
      BY <1>4, <2>3 DEF LSClientGone, RowsAt
    <3>2. Offline.state = "Offline" /\ Offline.cookie \notin Cookies
      BY LoginAssumption DEF Offline
    <3>3. users[u].state = "Authorized"
      BY <3>1 DEF Resettable
    <3> QED
      BY <1>1, <2>1, <3>1, <3>2, <3>3, RowGood DEF netVars, fesVars
  <2> QED
    BY <2>2, <2>3
<1> QED
  BY <1>2, <1>3, <1>4 DEF LSClient

(* What the LS reads came on the only connection there is.                 *)
LEMMA PopLink ==
  ASSUME TypeInv, Good, wsToLS # <<>>, wsToLS' = Tail(wsToLS), UNCHANGED <<linked, lsToWS>>
  PROVE  /\ linked /\ link = 1 /\ Head(wsToLS).link = 1 /\ Head(wsToLS) = From(1, Msg)
         /\ Msg \in FromWS /\ Msg # DownMsg
         /\ wsToLS \in Seq(ToLS) /\ OneLink'
         /\ \A M : Head(wsToLS) \notin M => Keeps(wsToLS, wsToLS', M)
<1> DEFINE q == wsToLS
           r == Tail(wsToLS)
<1>1. wsToLS \in Seq(ToLS)
  BY DEF TypeInv, NetTypes
<1>2. /\ Head(q) \in ToLS /\ Head(q) = q[1] /\ Len(q) \in Nat \ {0} /\ Len(r) = Len(q) - 1
      /\ \A i \in 1 .. Len(q) - 1 : r[i] = q[i + 1]
  BY <1>1, HeadAndTail
<1>3. linked /\ \A i \in 1 .. Len(q) : q[i].link = 1 /\ q[i].msg # DownMsg
  BY DEF Good, OneLink
<1>4. Head(q).link = 1 /\ Head(q).msg # DownMsg
  <2>1. 1 \in 1 .. Len(q)
    BY <1>2
  <2> QED
    BY <1>2, <1>3, <2>1
<1>5. Head(q) = From(1, Msg) /\ Msg \in FromWS
  BY <1>2, <1>4 DEF ToLS, From, Msg
<1>6. \A M : Head(q) \notin M => Keeps(q, r, M)
  BY <1>1, KeepsTail
<1>7. OneLink'
  <2> HIDE DEF q, r
  <2>1. \A i \in 1 .. Len(r) : r[i].link = 1 /\ r[i].msg # DownMsg
    <3> SUFFICES ASSUME NEW i \in 1 .. Len(q) - 1 PROVE r[i].link = 1 /\ r[i].msg # DownMsg
      BY <1>2
    <3>1. i + 1 \in 1 .. Len(q)
      BY <1>2
    <3> QED
      BY <1>2, <1>3, <3>1
  <2> QED
    BY <1>3, <2>1 DEF OneLink, r
<1> QED
  BY <1>1, <1>3, <1>4, <1>5, <1>6, <1>7 DEF Good, Running, Msg

(* The LS puts the account of a refused cookie offline.                    *)
LEMMA RefusalRead ==
  ASSUME TypeInv, Good, LSShardChosen, ~Msg.ok,
         UNCHANGED <<wsVars, fesVars, link, linked, broken, sees, wsToFES, fesToWS>>
  PROVE  Good'
<1>1. /\ wsToLS # <<>> /\ wsToLS' = Tail(wsToLS) /\ Msg.type = "SCS"
      /\ UNCHANGED <<lsUp, shardSId, nbPlayers, lsToWS>>
      /\ users' = [u \in Users |-> IF u \in WithCookie(Msg.cookie) THEN Offline ELSE users[u]]
  BY DEF LSShardChosen, LSReads, Msg
<1>2. /\ Head(wsToLS) = From(1, Msg) /\ Msg \in FromWS /\ OneLink' /\ wsToLS \in Seq(ToLS)
      /\ linked /\ link = 1 /\ \A M : Head(wsToLS) \notin M => Keeps(wsToLS, wsToLS', M)
  BY <1>1, PopLink
<1>3. PICK k \in Cookies : k = Msg.cookie /\ Msg = RefusedMsg(k)
  BY <1>1, <1>2, TypedMessages
<1>4. PICK u \in Users : u = k.user /\ k \in CookiesOf(u)
  BY DEF Cookies, CookiesOf
<1>5. PICK x \in Ways, y \in Returns, f \in Null(FESs) : Trip(u, x, y, f)
  BY DEF Good, Trips
<1>6. x = "refused" /\ users[u].cookie = k /\ y = "none"
  <2>1. Where(wsToLS, From(1, RefusedMsg(k)), x = "refused" /\ users[u].cookie = k)
    BY <1>4, <1>5 DEF Trip, OnLink, Now
  <2>2. ~Never(wsToLS, From(1, RefusedMsg(k)))
    BY <1>1, <1>2, <1>3, WhereAfterTail
  <2>3. x = "refused" /\ users[u].cookie = k
    BY <2>1, <2>2 DEF Where
  <2> QED
    BY <1>5, <2>3 DEF Trip, Consistent, Entered
<1>7. WithCookie(k) = {u}
  BY <1>4, <1>6 DEF WithCookie, Good, Books
<1>8. \A v \in Users : users'[v] = IF v = u THEN Offline ELSE users[v]
  BY <1>1, <1>3, <1>7
<1>9. Offline.state = "Offline" /\ Offline.cookie \notin Cookies
  BY LoginAssumption DEF Offline
<1>10. users[u].state = "Waiting"
  BY <1>5, <1>6 DEF Trip, InTable
<1>11. ASSUME NEW v \in Users, v # u PROVE Bystander(v)
  <2>1. From(1, RefusedMsg(k)) \notin Reports(v)
    BY <1>4, <1>11, OneAccount
  <2> QED
    BY <1>1, <1>2, <1>3, <1>8, <1>11, <2>1, KeepsSame DEF Bystander, fesVars, SessionsOf
<1>12. Trip(u, "home", "none", f)'
  <2>1. ASSUME NEW j \in CookiesOf(u) PROVE Never(wsToLS', From(1, RefusedMsg(j)))
    <3>1. Where(wsToLS, From(1, RefusedMsg(j)), j = k)
      BY <1>5, <1>6 DEF Trip, OnLink, Now
    <3>2. CASE j = k
      <4>1. Once(wsToLS, From(1, RefusedMsg(k))) /\ Head(wsToLS) = From(1, RefusedMsg(k))
        BY <1>2, <1>3, <3>1, <3>2 DEF Where
      <4>2. Never(Tail(wsToLS), From(1, RefusedMsg(k)))
        BY <1>1, <1>2, <4>1, WhereAfterTail
      <4> QED
        BY <1>1, <3>2, <4>2
    <3>3. CASE j # k
      <4>1. Never(wsToLS, From(1, RefusedMsg(j)))
        BY <3>1, <3>3 DEF Where
      <4>2. Never(Tail(wsToLS), From(1, RefusedMsg(j)))
        BY <1>1, <1>2, <4>1, WhereAfterTail
      <4> QED
        BY <1>1, <4>2
    <3> QED
      BY <3>2, <3>3
  <2>2. Never(wsToLS', From(1, Arrival(u))) /\ Never(wsToLS', From(1, Departure(u)))
    <3>1. Never(wsToLS, From(1, Arrival(u))) /\ Never(wsToLS, From(1, Departure(u)))
      BY <1>5, <1>6 DEF Trip, OnLink, Where
    <3> QED
      BY <1>1, <1>2, <3>1, WhereAfterTail
  <2>3. Before(wsToLS', From(1, Arrival(u)), From(1, Departure(u)))
    BY <2>2 DEF Never, Before
  <2>4. \A j \in CookiesOf(u) : Never(lsToWS', ChooseMsg(j))
    BY <1>1, <1>5, <1>6 DEF Trip, OnLink, Where
  <2>5. OnLink(u, "home", "none")'
    BY <2>1, <2>2, <2>3, <2>4 DEF OnLink, Where
  <2>6. ASSUME NEW g \in FESs
        PROVE  AtFront(u, "home", "none", f, g)' /\ PlaysAt(u, "home", "none", f, g)'
    BY <1>5, <1>6 DEF Trip, AtFront, PlaysAt, Entered, SessionsOf, fesVars
  <2>7. InTable(u, "home")' /\ Consistent("home", "none", f)
    BY <1>8, <1>9 DEF InTable, Consistent, Ways, Returns, Entered
  <2> QED
    BY <2>5, <2>6, <2>7 DEF Trip, Consistent
<1>13. Trips'
  <2>1. "home" \in Ways /\ "none" \in Returns
    BY DEF Ways, Returns
  <2> QED
    BY <1>11, <1>12, <2>1, TripsMoved DEF Good
<1>14. Books'
  <2>1. OnlineOnes' = OnlineOnes
    BY <1>8, <1>9, <1>10 DEF OnlineOnes
  <2> QED
    BY <1>1, <1>8, <1>9, <2>1 DEF Good, Books
<1> QED
  BY <1>1, <1>2, <1>13, <1>14, PartsSame DEF Good, wsVars, fesVars

(* One more account is Online, or one fewer.                               *)
LEMMA OnlineChanged ==
  ASSUME TypeInv, NEW u \in Users, \A v \in Users : v # u => users'[v].state = users[v].state
  PROVE  /\ users[u].state # "Online" /\ users'[u].state = "Online" =>
              Cardinality(OnlineOnes') = Cardinality(OnlineOnes) + 1
         /\ users[u].state = "Online" /\ users'[u].state # "Online" =>
              Cardinality(OnlineOnes') = Cardinality(OnlineOnes) - 1
<1>1. IsFiniteSet(OnlineOnes)
  <2>1. OnlineOnes \subseteq Users
    BY DEF OnlineOnes
  <2> QED
    BY <2>1, LoginAssumption, FS_Subset
<1>2. ASSUME users[u].state # "Online", users'[u].state = "Online"
      PROVE  Cardinality(OnlineOnes') = Cardinality(OnlineOnes) + 1
  <2>1. OnlineOnes' = OnlineOnes \cup {u} /\ u \notin OnlineOnes
    BY <1>2 DEF OnlineOnes
  <2> QED
    BY <1>1, <2>1, FS_AddElement
<1>3. ASSUME users[u].state = "Online", users'[u].state # "Online"
      PROVE  Cardinality(OnlineOnes') = Cardinality(OnlineOnes) - 1
  <2>1. OnlineOnes' = OnlineOnes \ {u} /\ u \in OnlineOnes
    BY <1>3 DEF OnlineOnes
  <2> QED
    BY <1>1, <2>1, FS_RemoveElement
<1> QED
  BY <1>2, <1>3

LEMMA ArrivalRead ==
  ASSUME TypeInv, Good, NEW u \in Users, LSClientConnected, Msg = Arrival(u),
         UNCHANGED <<wsVars, fesVars, link, linked, broken, sees, wsToFES, fesToWS>>
  PROVE  Good'
<1>1. /\ wsToLS # <<>> /\ wsToLS' = Tail(wsToLS) /\ Msg.user = u /\ Msg.con = TRUE
      /\ UNCHANGED <<lsUp, shardSId, lsToWS>>
  BY DEF LSClientConnected, LSReads, Arrival, ClientMsg
<1>2. /\ Head(wsToLS) = From(1, Arrival(u)) /\ OneLink' /\ wsToLS \in Seq(ToLS)
      /\ Head(wsToLS).link = 1 /\ \A M : Head(wsToLS) \notin M => Keeps(wsToLS, wsToLS', M)
  BY <1>1, PopLink
<1>3. PICK x \in Ways, y \in Returns, f \in Null(FESs) : Trip(u, x, y, f)
  BY DEF Good, Trips
<1>4. x = "in2"
  <2>1. Where(wsToLS, From(1, Arrival(u)), x = "in2")
    BY <1>3 DEF Trip, OnLink
  <2>2. ~Never(wsToLS, From(1, Arrival(u)))
    BY <1>1, <1>2, WhereAfterTail
  <2> QED
    BY <2>1, <2>2 DEF Where
<1>5. users[u].state = "Waiting"
  BY <1>3, <1>4 DEF Trip, InTable
<1>6. shardSId = 1 /\ IsListed
  BY <1>2, <1>5, InLogin DEF IsListed
<1>7. /\ \E here \in BOOLEAN : users' = SetOnline(u, here)
      /\ nbPlayers' = nbPlayers + 1
  BY <1>1, <1>5, <1>6 DEF LSClientConnected, Expects
<1>8. \A v \in Users : /\ v # u => users'[v] = users[v]
                       /\ users'[u].state = "Online" /\ users'[u].cookie = users[u].cookie
  <2>1. users \in [Users -> Rows] /\ users[u] \in Rows
    BY DEF TypeInv, LSTypes
  <2> QED
    BY <1>7, <2>1 DEF SetOnline, Rows
<1>9. ASSUME NEW v \in Users, v # u PROVE Bystander(v)
  <2>1. From(1, Arrival(u)) \notin Reports(v)
    BY <1>9, OneAccount DEF Arrival
  <2> QED
    BY <1>1, <1>2, <1>8, <1>9, <2>1, KeepsSame DEF Bystander, fesVars, SessionsOf
<1>10. Trip(u, "done", y, f)'
  <2>1. Never(wsToLS', From(1, Arrival(u)))
    <3>1. Once(wsToLS, From(1, Arrival(u)))
      BY <1>3, <1>4 DEF Trip, OnLink, Where
    <3> QED
      BY <1>1, <1>2, <3>1, WhereAfterTail
  <2>2. Where(wsToLS', From(1, Departure(u)), y = "at2")
    <3>1. Where(wsToLS, From(1, Departure(u)), y = "at2")
      BY <1>3 DEF Trip, OnLink
    <3>2. Head(wsToLS) # From(1, Departure(u))
      BY <1>2, OneAccount
    <3> QED
      BY <1>1, <1>2, <3>1, <3>2, WhereAfterTail DEF Where
  <2>3. \A j \in CookiesOf(u) : Never(wsToLS', From(1, RefusedMsg(j)))
    <3>1. \A j \in CookiesOf(u) : Never(wsToLS, From(1, RefusedMsg(j)))
      BY <1>3, <1>4 DEF Trip, OnLink, Where
    <3> QED
      BY <1>1, <1>2, <3>1, WhereAfterTail
  <2>4. Before(wsToLS', From(1, Arrival(u)), From(1, Departure(u)))
    BY <2>1 DEF Never, Before
  <2>5. \A j \in CookiesOf(u) : Never(lsToWS', ChooseMsg(j))
    BY <1>1, <1>3, <1>4 DEF Trip, OnLink, Where
  <2>6. OnLink(u, "done", y)'
    BY <2>1, <2>2, <2>3, <2>4, <2>5 DEF OnLink, Where
  <2>7. ASSUME NEW g \in FESs
        PROVE  AtFront(u, "done", y, f, g)' /\ PlaysAt(u, "done", y, f, g)'
    BY <1>1, <1>3, <1>4 DEF Trip, AtFront, PlaysAt, Entered, SessionsOf, fesVars
  <2>8. InTable(u, "done")' /\ Consistent("done", y, f)
    BY <1>3, <1>4, <1>8 DEF Trip, InTable, Consistent, Ways, Returns, Entered
  <2> QED
    BY <2>6, <2>7, <2>8 DEF Trip, Consistent
<1>11. Trips'
  <2>1. "done" \in Ways
    BY DEF Ways
  <2> QED
    BY <1>9, <1>10, <2>1, TripsMoved DEF Good
<1>12. Books'
  <2>1. Cardinality(OnlineOnes') = Cardinality(OnlineOnes) + 1
    BY <1>5, <1>8, OnlineChanged
  <2>2. \A v \in Users : users'[v].cookie = users[v].cookie
    BY <1>8
  <2> QED
    BY <1>1, <1>6, <1>7, <2>1, <2>2 DEF Good, Books
<1> QED
  BY <1>1, <1>2, <1>11, <1>12, PartsSame DEF Good, wsVars, fesVars

LEMMA DepartureRead ==
  ASSUME TypeInv, Good, NEW u \in Users, LSClientConnected, Msg = Departure(u),
         UNCHANGED <<wsVars, fesVars, link, linked, broken, sees, wsToFES, fesToWS>>
  PROVE  Good'
<1>1. /\ wsToLS # <<>> /\ wsToLS' = Tail(wsToLS) /\ Msg.user = u /\ Msg.con = FALSE
      /\ UNCHANGED <<lsUp, shardSId, lsToWS>>
  BY DEF LSClientConnected, LSReads, Departure, ClientMsg
<1>2. /\ Head(wsToLS) = From(1, Departure(u)) /\ OneLink' /\ wsToLS \in Seq(ToLS)
      /\ Head(wsToLS).link = 1 /\ \A M : Head(wsToLS) \notin M => Keeps(wsToLS, wsToLS', M)
  BY <1>1, PopLink
<1>3. PICK x \in Ways, y \in Returns, f \in Null(FESs) : Trip(u, x, y, f)
  BY DEF Good, Trips
<1>4. y = "at2"
  <2>1. Where(wsToLS, From(1, Departure(u)), y = "at2")
    BY <1>3 DEF Trip, OnLink
  <2>2. ~Never(wsToLS, From(1, Departure(u)))
    BY <1>1, <1>2, WhereAfterTail
  <2> QED
    BY <2>1, <2>2 DEF Where
<1>5. x = "done"
  <2>1. Before(wsToLS, From(1, Arrival(u)), From(1, Departure(u)))
    BY <1>3 DEF Trip, OnLink
  <2>2. Never(wsToLS, From(1, Arrival(u)))
    BY <1>1, <1>2, <2>1, BeforeAfterTail
  <2>3. ~Once(wsToLS, From(1, Arrival(u)))
    BY <2>2 DEF Never, Once
  <2>4. x # "in2"
    BY <1>3, <2>3 DEF Trip, OnLink, Where
  <2> QED
    BY <1>3, <1>4, <2>4 DEF Trip, Consistent, Entered
<1>6. users[u].state = "Online"
  BY <1>3, <1>5 DEF Trip, InTable
<1>7. shardSId = 1 /\ IsListed
  BY <1>2, <1>6, InLogin DEF IsListed
<1>8. users' = SetOffline(u) /\ nbPlayers' = nbPlayers - 1
  BY <1>1, <1>6, <1>7 DEF LSClientConnected, Expects
<1>9. \A v \in Users : /\ v # u => users'[v] = users[v]
                       /\ users'[u].state = "Offline" /\ users'[u].cookie = users[u].cookie
  <2>1. users \in [Users -> Rows] /\ users[u] \in Rows
    BY DEF TypeInv, LSTypes
  <2> QED
    BY <1>8, <2>1 DEF SetOffline, Rows
<1>10. ASSUME NEW v \in Users, v # u PROVE Bystander(v)
  <2>1. From(1, Departure(u)) \notin Reports(v)
    BY <1>10, OneAccount DEF Departure
  <2> QED
    BY <1>1, <1>2, <1>9, <1>10, <2>1, KeepsSame DEF Bystander, fesVars, SessionsOf
<1>11. Trip(u, "home", "none", f)'
  <2>1. Never(wsToLS', From(1, Arrival(u))) /\ Never(wsToLS', From(1, Departure(u)))
    <3>1. Never(wsToLS, From(1, Arrival(u))) /\ Once(wsToLS, From(1, Departure(u)))
      BY <1>3, <1>4, <1>5 DEF Trip, OnLink, Where
    <3> QED
      BY <1>1, <1>2, <3>1, WhereAfterTail
  <2>2. \A j \in CookiesOf(u) : Never(wsToLS', From(1, RefusedMsg(j)))
    <3>1. \A j \in CookiesOf(u) : Never(wsToLS, From(1, RefusedMsg(j)))
      BY <1>3, <1>5 DEF Trip, OnLink, Where
    <3> QED
      BY <1>1, <1>2, <3>1, WhereAfterTail
  <2>3. Before(wsToLS', From(1, Arrival(u)), From(1, Departure(u)))
    BY <2>1 DEF Never, Before
  <2>4. \A j \in CookiesOf(u) : Never(lsToWS', ChooseMsg(j))
    BY <1>1, <1>3, <1>5 DEF Trip, OnLink, Where
  <2>5. OnLink(u, "home", "none")'
    BY <2>1, <2>2, <2>3, <2>4 DEF OnLink, Where
  <2>6. ASSUME NEW g \in FESs
        PROVE  AtFront(u, "home", "none", f, g)' /\ PlaysAt(u, "home", "none", f, g)'
    BY <1>1, <1>3, <1>4, <1>5 DEF Trip, AtFront, PlaysAt, Entered, SessionsOf, fesVars
  <2>7. InTable(u, "home")' /\ Consistent("home", "none", f)
    BY <1>9 DEF InTable, Consistent, Ways, Returns, Entered
  <2> QED
    BY <2>5, <2>6, <2>7 DEF Trip, Consistent
<1>12. Trips'
  <2>1. "home" \in Ways /\ "none" \in Returns
    BY DEF Ways, Returns
  <2> QED
    BY <1>10, <1>11, <2>1, TripsMoved DEF Good
<1>13. Books'
  <2>1. Cardinality(OnlineOnes') = Cardinality(OnlineOnes) - 1
    BY <1>6, <1>9, OnlineChanged
  <2>2. \A v \in Users : users'[v].cookie = users[v].cookie
    BY <1>9
  <2> QED
    BY <1>1, <1>7, <1>8, <2>1, <2>2 DEF Good, Books
<1> QED
  BY <1>1, <1>2, <1>12, <1>13, PartsSame DEF Good, wsVars, fesVars

LEMMA LSShardGood ==
  ASSUME TypeInv, Good, LSShard
  PROVE  Good'
<1>1. /\ UNCHANGED <<wsVars, fesVars, link, linked, broken, sees, wsToFES, fesToWS>>
      /\ UNCHANGED <<lsUp, lsToWS>> /\ wsToLS # <<>> /\ wsToLS' = Tail(wsToLS)
  BY DEF LSShard, LSIdentify, LSShardChosen, LSClientConnected, LSLosesWS, LSReads
<1>2. /\ Head(wsToLS) = From(1, Msg) /\ Msg \in FromWS /\ Msg # DownMsg /\ OneLink'
      /\ Head(wsToLS).link = 1 /\ linked /\ link = 1
      /\ \A M : Head(wsToLS) \notin M => Keeps(wsToLS, wsToLS', M)
  BY <1>1, PopLink
<1>3. ASSUME UNCHANGED users, \A v \in Users : From(1, Msg) \notin Reports(v) PROVE Trips'
  <2>1. \A v \in Users : Bystander(v)
    BY <1>1, <1>2, <1>3, KeepsSame DEF Bystander, fesVars, SessionsOf
  <2> QED
    BY <2>1, TripsKept DEF Good
<1>4. From(1, Msg).msg = Msg
  BY DEF From
<1>5. CASE LSIdentify
  <2>1. Msg.type = "WS_IDENT" /\ shardSId' = 1 /\ UNCHANGED <<users, nbPlayers>>
    BY <1>2, <1>5 DEF LSIdentify, LSReads, Msg
  <2>2. Trips'
    BY <1>3, <1>4, <2>1, OneAccount
  <2>3. Running'
    BY <1>1, <1>2, <2>1 DEF Good, Running, wsVars, fesVars
  <2>4. Books'
    <3>1. OnlineOnes' = OnlineOnes
      BY <2>1 DEF OnlineOnes
    <3> QED
      BY <2>1, <3>1 DEF Good, Books
  <2> QED
    BY <1>1, <1>2, <2>2, <2>3, <2>4, PartsSame DEF Good, wsVars, fesVars
<1>6. CASE LSShardChosen /\ Msg.ok
  <2>1. Msg.type = "SCS" /\ UNCHANGED <<users, nbPlayers, shardSId>>
    BY <1>6 DEF LSShardChosen, LSReads, Msg
  <2>2. Trips'
    BY <1>3, <1>4, <1>6, <2>1, OneAccount
  <2> QED
    BY <1>1, <1>2, <2>1, <2>2, PartsSame DEF Good, wsVars, fesVars
<1>7. CASE LSShardChosen /\ ~Msg.ok
  BY <1>1, <1>7, RefusalRead
<1>8. CASE LSClientConnected
  <2>1. Msg.type = "CC"
    BY <1>8 DEF LSClientConnected, LSReads, Msg
  <2>2. PICK u \in Users : Msg = ClientMsg(u, TRUE) \/ Msg = ClientMsg(u, FALSE)
    <3>1. Msg.user \in Users /\ Msg.con \in BOOLEAN /\ Msg = ClientMsg(Msg.user, Msg.con)
      BY <1>2, <2>1, TypedMessages
    <3>2. Msg.con = TRUE \/ Msg.con = FALSE
      BY <3>1
    <3>3. Msg = ClientMsg(Msg.user, TRUE) \/ Msg = ClientMsg(Msg.user, FALSE)
      BY <3>1, <3>2
    <3> QED
      BY <3>1, <3>3
  <2> QED
    BY <1>1, <1>8, <2>2, ArrivalRead, DepartureRead DEF Arrival, Departure
<1>9. CASE LSLosesWS
  <2>1. Msg.type = "down"
    BY <1>9 DEF LSLosesWS, LSReads, Msg
  <2>2. Msg = DownMsg
    BY <1>2, <2>1 DEF FromWS, Chosen, Refusals, Moves, DownMsg
  <2> QED
    BY <1>2, <2>2
<1> QED
  BY <1>5, <1>6, <1>7, <1>8, <1>9 DEF LSShard

-----------------------------------------------------------------------------
(* The crashes are counted, and what follows from one needs one.           *)
LEMMA NoCrash ==
  ASSUME TypeInv, Good, [Next]_vars, faults' = <<>>
  PROVE  /\ ~WSCrash /\ ~WSRestart /\ ~LSCrash /\ ~LSRestart
         /\ \A f \in FESs : ~FESCrash(f)
         /\ \A l \in broken : ~Notice(l)
<1>1. faults \in Seq(MayCrash)
  BY LoginAssumption DEF TypeInv, ClientTypes
<1>2. \A who : ~Fault(who)
  BY <1>1 DEF Fault
<1> QED
  BY <1>2 DEF WSCrash, WSRestart, WSStarts, LSCrash, LSRestart, LSStarts, FESCrash, Good, Running

LEMMA GoodStep ==
  ASSUME TypeInv, KnownInv, Good, [Next]_vars, faults' = <<>>
  PROVE  Good'
<1>1. CASE UNCHANGED vars
  BY <1>1, StillGood DEF vars, lsVars, fesVars
<1>2. ASSUME NEW f \in FESs,
             \/ WSFrontEnd(f) \/ FESLaunch(f) \/ FESConnect(f) \/ FESMessage(f) \/ Erase(f)
             \/ \E p \in playing[f] : Leave(f, p)
      PROVE  Good'
  BY <1>2, WSFrontEndGood, FESLaunchGood, FESConnectGood, FESMessageGood, EraseGood, LeaveGood
<1>3. CASE \E c \in Clients :
             \/ \E u \in Users, a \in Addrs : Connect(c, u, a)
             \/ Authenticated(c) \/ Ignores(c) \/ Choose(c) \/ Confirmed(c)
             \/ Quit(c) \/ Enter(c) \/ Rejected(c)
  BY <1>3, ClientGood, EnterGood
<1>4. CASE (\E a \in Addrs : LSClient(a)) \/ LSShard \/ WSLogin \/ WSConnect
  BY <1>4, LSClientGood, LSShardGood, WSLoginGood, WSConnectGood
<1> QED
  BY <1>1, <1>2, <1>3, <1>4, NoCrash DEF Next

LEMMA GoodInit == Init => Good
<1> SUFFICES ASSUME Init PROVE Good
  OBVIOUS
<1>1. /\ lsUp = TRUE /\ wsUp = TRUE /\ broken = {} /\ link = 0 /\ linked = FALSE
      /\ shardSId = 0 /\ nbPlayers = 0 /\ lsToWS = <<>> /\ wsToLS = <<>> /\ FESList = <<>>
      /\ \A u \in Users : users[u].state = "Offline" /\ users[u].cookie = None
      /\ \A f \in FESs : /\ phase[f] = "off" /\ pending[f] = {} /\ playing[f] = {}
                         /\ sees[f] = FALSE /\ wsToFES[f] = <<>> /\ fesToWS[f] = <<>>
  BY DEF Init, LSInit, WSInit, FESInit, NetInit, Offline
<1>2. Running /\ OneLink /\ Apart /\ Listing
  BY <1>1 DEF Running, OneLink, Apart, Listing
<1>3. Books
  <2>1. OnlineOnes = {}
    BY <1>1 DEF OnlineOnes
  <2> QED
    BY <1>1, <2>1, FS_EmptySet, LoginAssumption DEF Books
<1>4. Trips
  <2>1. /\ \A m : Never(<<>>, m)
        /\ \A a, b : Before(<<>>, a, b)
    BY DEF Never, Before
  <2>2. ASSUME NEW u \in Users PROVE Trip(u, "home", "none", None)
    <3>1. OnLink(u, "home", "none") /\ InTable(u, "home") /\ Consistent("home", "none", None)
      BY <1>1, <2>1 DEF OnLink, Where, InTable, Consistent, Ways, Returns, Entered
    <3>2. ASSUME NEW g \in FESs
          PROVE  AtFront(u, "home", "none", None, g) /\ PlaysAt(u, "home", "none", None, g)
      BY <1>1, <2>1 DEF AtFront, PlaysAt, Where, Entered, SessionsOf
    <3> QED
      BY <3>1, <3>2 DEF Trip
  <2>3. "home" \in Ways /\ "none" \in Returns /\ None \in Null(FESs)
    BY DEF Ways, Returns, Null
  <2> QED
    BY <2>2, <2>3 DEF Trips
<1> QED
  BY <1>2, <1>3, <1>4 DEF Good

LEMMA AccountsAlways == Spec => []AccountsInv
<1>1. TypeInv /\ KnownInv /\ AccountsInv /\ [Next]_vars => AccountsInv'
  <2> SUFFICES ASSUME TypeInv, KnownInv, AccountsInv, [Next]_vars, faults' = <<>> PROVE Good'
    BY DEF AccountsInv
  <2>1. faults = <<>>
    <3>1. faults \in Seq(MayCrash)
      BY LoginAssumption DEF TypeInv, ClientTypes
    <3>2. faults' = faults \/ \E who \in MayCrash : faults' = Append(faults, who)
      BY DEF Next, Connect, Authenticated, Ignores, Choose, Confirmed, Quit, Enter, Rejected,
             LSClient, LSShard, Notice, WSLogin, WSConnect, WSRestart, WSCrash, WSFrontEnd,
             FESLaunch, FESConnect, FESMessage, Erase, FESCrash, Leave, LSCrash, LSRestart,
             Fault, vars
    <3> QED
      BY <3>1, <3>2
  <2> QED
    BY <2>1, GoodStep DEF AccountsInv
<1>2. Init => AccountsInv
  BY GoodInit DEF AccountsInv
<1> QED
  BY <1>1, <1>2, TypeInvAlways, KnownAlways, PTL DEF Spec

(* "2 players are trying to play with the same id, disconnect all"         *)
(* (connection_client.cpp:139).  Until a process crashes an account plays  *)
(* in one client at a time, whichever cookies grow old: it has one cookie, *)
(* that is with one front end, and gets another when the departure of its  *)
(* client has reached the LS.                                              *)
THEOREM OneSessionUntilCrash == Spec => [](faults = <<>> => OneSession)
<1>1. TypeInv /\ AccountsInv /\ faults = <<>> => OneSession
  <2> SUFFICES ASSUME Trips, NEW u \in Users PROVE Cardinality(Sessions(u)) <= 1
    BY DEF AccountsInv, Good, OneSession
  <2>1. PICK x \in Ways, y \in Returns, f \in Null(FESs) : Trip(u, x, y, f)
    BY DEF Trips
  <2>2. \A g \in FESs : g # f => SessionsOf(g, u) = {}
    BY <2>1 DEF Trip, PlaysAt
  <2>3. \A g \in FESs : SessionsOf(g, u) = {} \/ \E p : SessionsOf(g, u) = {p}
    BY <2>1 DEF Trip, PlaysAt
  <2>4. Sessions(u) = {} \/ \E p : Sessions(u) = {p}
    BY <2>2, <2>3 DEF Sessions
  <2>5. ASSUME NEW p, Sessions(u) = {p} PROVE Cardinality(Sessions(u)) = 1
    BY <2>5, FS_Singleton
  <2>6. Sessions(u) = {} => Cardinality(Sessions(u)) = 0
    BY FS_EmptySet
  <2> QED
    BY <2>4, <2>5, <2>6
<1> QED
  BY <1>1, TypeInvAlways, AccountsAlways, PTL

(* NbPlayers of the shard, which cbWSClientConnected counts up and down,   *)
(* is the number of its accounts that are Online until a process crashes.  *)
THEOREM PlayersCountedUntilCrash == Spec => [](faults = <<>> => PlayersAreCounted)
<1>1. AccountsInv /\ faults = <<>> => PlayersAreCounted
  BY DEF AccountsInv, Good, Books, OnlineOnes, PlayersAreCounted
<1> QED
  BY <1>1, AccountsAlways, PTL

(* Until a process crashes, the accounts the LS has Online are those that  *)
(* play when nothing is in flight: no arrival and no departure is lost, or *)
(* read in the wrong order, on the way of front end, WS and LS.            *)
THEOREM OnlinePlayUntilCrash == Spec => [](faults = <<>> => OnlineArePlaying)
<1>1. AccountsInv /\ faults = <<>> => OnlineArePlaying
  <2> SUFFICES ASSUME Trips, Quiet, NEW u \in Users
               PROVE  users[u].state = "Online" <=> Sessions(u) # {}
    BY DEF AccountsInv, Good, OnlineArePlaying
  <2>1. PICK x \in Ways, y \in Returns, f \in Null(FESs) : Trip(u, x, y, f)
    BY DEF Trips
  <2>2. /\ wsToLS = <<>> /\ \A g \in FESs : fesToWS[g] = <<>>
        /\ \A m : ~Once(<<>>, m)
    BY DEF Quiet, Once
  <2>3. x \notin {"in1", "in2"} /\ y = "none"
    <3>1. x # "in2" /\ y # "at2"
      BY <2>1, <2>2 DEF Trip, OnLink, Where
    <3>2. x \in Entered => f \in FESs
      BY <2>1 DEF Trip, Consistent
    <3>3. f \in FESs => x # "in1" /\ y # "at1"
      BY <2>1, <2>2 DEF Trip, AtFront, Where
    <3> QED
      BY <2>1, <3>1, <3>2, <3>3 DEF Trip, Consistent, Returns, Entered
  <2>4. CASE x = "done"
    <3>1. f \in FESs /\ SessionsOf(f, u) # {}
      BY <2>1, <2>3, <2>4 DEF Trip, Consistent, PlaysAt, Entered
    <3>2. users[u].state = "Online"
      BY <2>1, <2>4 DEF Trip, InTable
    <3> QED
      BY <3>1, <3>2 DEF Sessions
  <2>5. CASE x # "done"
    <3>1. \A g \in FESs : SessionsOf(g, u) = {}
      BY <2>1, <2>3, <2>5 DEF Trip, PlaysAt, Entered
    <3>2. users[u].state # "Online"
      BY <2>1, <2>5 DEF Trip, InTable
    <3> QED
      BY <3>1, <3>2 DEF Sessions
  <2> QED
    BY <2>4, <2>5
<1> QED
  BY <1>1, AccountsAlways, PTL

(* Until a process crashes, a cookie that a front end accepts              *)
(* (isValidCookie) is the last one the LS made for its account, which the  *)
(* LS still has as Waiting.                                                *)
THEOREM CookiesAwaitedUntilCrash == Spec => [](faults = <<>> => CookiesAreAwaited)
<1>1. TypeInv /\ AccountsInv /\ faults = <<>> => CookiesAreAwaited
  <2> SUFFICES ASSUME TypeInv, Trips, NEW f \in FESs, NEW k \in pending[f]
               PROVE  users[k.user].state = "Waiting" /\ users[k.user].cookie = k
    BY DEF AccountsInv, Good, CookiesAreAwaited
  <2> QED
    BY HeldCookie DEF Trip, InTable
<1> QED
  BY <1>1, TypeInvAlways, AccountsAlways, PTL
-----------------------------------------------------------------------------
(* The counts of the WS, whatever crashes.  Reading the queue of a front   *)
(* end from a count leads through the values of v to another count.        *)
Counters == {"pending", "users"}
Count(what, e) == IF what = "pending" THEN e.NbPendingUsers ELSE e.NbUser

Effect(what, m, n) ==
  IF what = "pending"
  THEN IF m.type = "NBPLAYERS2" THEN m.pending
       ELSE IF m.type = "SCS" THEN m.nb
       ELSE IF m.type = "RPC" \/ (m.type = "CC" /\ m.con) THEN Less(n) ELSE n
  ELSE IF m.type = "NBPLAYERS2" THEN m.users
       ELSE IF m.type = "CC" THEN (IF m.con THEN n + 1 ELSE Less(n)) ELSE n

IsReading(v, what, q, n, k) ==
  /\ v \in [0 .. k -> Nat] /\ v[0] = n
  /\ \A i \in 1 .. k : v[i] = Effect(what, q[i], v[i - 1])
LeadsTo(what, q, n, p) == \E v : IsReading(v, what, q, n, Len(q)) /\ v[Len(q)] = p

LEMMA EffectTypes ==
  ASSUME NEW what, NEW m \in FromFES, NEW n \in Nat
  PROVE  Effect(what, m, n) \in Nat
<1>1. Less(n) \in Nat /\ n + 1 \in Nat
  BY DEF Less
<1>2. m.type = "NBPLAYERS2" => m.users \in Nat /\ m.pending \in Nat
  BY DEF FromFES, Chosen, Moves
<1>3. m.type = "SCS" => m.nb \in Nat
  BY DEF FromFES, Chosen, Moves
<1> QED
  BY <1>1, <1>2, <1>3 DEF Effect

LEMMA ReadingExtends ==
  ASSUME NEW what, NEW q, NEW r, NEW n, NEW k \in Nat, NEW v, IsReading(v, what, q, n, k),
         \A i \in 1 .. k : r[i] = q[i], NEW m \in FromFES, r[k + 1] = m
  PROVE  \E w : IsReading(w, what, r, n, k + 1) /\ w[k + 1] = Effect(what, m, v[k])
<1> DEFINE x == Effect(what, m, v[k])
           w == [i \in 0 .. k + 1 |-> IF i <= k THEN v[i] ELSE x]
<1>1. v \in [0 .. k -> Nat] /\ v[0] = n /\ k \in 0 .. k /\ k + 1 \in 0 .. k + 1 /\ ~(k + 1 <= k)
  BY DEF IsReading
<1>2. x \in Nat
  BY <1>1, EffectTypes
<1> HIDE DEF x
<1>3. w \in [0 .. k + 1 -> Nat] /\ w[0] = n /\ w[k + 1] = x /\ \A i \in 0 .. k : w[i] = v[i]
  BY <1>1, <1>2
<1> HIDE DEF w
<1>4. ASSUME NEW i \in 1 .. k + 1 PROVE w[i] = Effect(what, r[i], w[i - 1])
  <2>1. CASE i \in 1 .. k
    <3>1. i \in 0 .. k /\ i - 1 \in 0 .. k
      BY <2>1
    <3>2. v[i] = Effect(what, q[i], v[i - 1]) /\ r[i] = q[i]
      BY <2>1 DEF IsReading
    <3> QED
      BY <1>3, <3>1, <3>2
  <2>2. CASE i = k + 1
    <3>1. i - 1 = k /\ w[k] = v[k]
      BY <1>1, <1>3, <2>2
    <3> QED
      BY <1>3, <2>2, <3>1 DEF x
  <2> QED
    BY <2>1, <2>2
<1>5. IsReading(w, what, r, n, k + 1) /\ w[k + 1] = Effect(what, m, v[k])
  BY <1>3, <1>4 DEF IsReading, x
<1> QED
  BY <1>5

(* A message at the end of the queue has its effect on what it led to.     *)
LEMMA LeadsAfterAppend ==
  ASSUME NEW what, NEW q \in Seq(FromFES), NEW n, NEW p, LeadsTo(what, q, n, p),
         NEW m \in FromFES
  PROVE  LeadsTo(what, Append(q, m), n, Effect(what, m, p))
<1> DEFINE r == Append(q, m)
           k == Len(q)
<1>1. k \in Nat /\ Len(r) = k + 1 /\ r[k + 1] = m /\ \A i \in 1 .. k : r[i] = q[i]
  BY AppendFacts
<1>2. PICK v : IsReading(v, what, q, n, k) /\ v[k] = p
  BY DEF LeadsTo
<1> HIDE DEF r, k
<1>3. \E w : IsReading(w, what, r, n, k + 1) /\ w[k + 1] = Effect(what, m, p)
  BY <1>1, <1>2, ReadingExtends
<1>4. LeadsTo(what, r, n, Effect(what, m, p))
  BY <1>1, <1>3 DEF LeadsTo
<1> QED
  BY <1>4 DEF r

(* Reading a message from the head of the queue.                           *)
LEMMA LeadsAfterTail ==
  ASSUME NEW what, NEW q \in Seq(FromFES), q # <<>>, NEW n, NEW p, LeadsTo(what, q, n, p)
  PROVE  LeadsTo(what, Tail(q), Effect(what, Head(q), n), p)
<1> DEFINE r == Tail(q)
           k == Len(q)
<1>1. /\ k \in Nat \ {0} /\ Len(r) = k - 1 /\ Head(q) = q[1]
      /\ \A i \in 1 .. k - 1 : r[i] = q[i + 1]
  BY HeadAndTail
<1>2. PICK v : IsReading(v, what, q, n, k) /\ v[k] = p
  BY DEF LeadsTo
<1> HIDE DEF r, k
<1>3. v \in [0 .. k -> Nat] /\ v[0] = n /\ \A i \in 1 .. k : v[i] = Effect(what, q[i], v[i - 1])
  BY <1>2 DEF IsReading
<1> DEFINE w == [i \in 0 .. k - 1 |-> v[i + 1]]
<1>4. \A i \in 0 .. k - 1 : i + 1 \in 0 .. k
  BY <1>1
<1>5. /\ w \in [0 .. k - 1 -> Nat] /\ \A i \in 0 .. k - 1 : w[i] = v[i + 1]
  BY <1>3, <1>4
<1>6. w[0] = Effect(what, q[1], n) /\ w[k - 1] = p
  <2>1. 0 \in 0 .. k - 1 /\ k - 1 \in 0 .. k - 1 /\ 1 \in 1 .. k /\ 0 + 1 = 1 /\ 1 - 1 = 0
        /\ (k - 1) + 1 = k
    BY <1>1
  <2>2. w[0] = v[1] /\ w[k - 1] = v[k]
    BY <1>5, <2>1
  <2> HIDE DEF w
  <2>3. v[1] = Effect(what, q[1], v[0])
    BY <1>3, <2>1
  <2> QED
    BY <1>2, <1>3, <2>2, <2>3
<1> HIDE DEF w
<1>7. ASSUME NEW i \in 1 .. k - 1 PROVE w[i] = Effect(what, r[i], w[i - 1])
  <2>1. i \in 0 .. k - 1 /\ i - 1 \in 0 .. k - 1 /\ i + 1 \in 1 .. k /\ (i + 1) - 1 = i
        /\ (i - 1) + 1 = i
    BY <1>1
  <2>2. w[i] = v[i + 1] /\ w[i - 1] = v[i] /\ r[i] = q[i + 1]
    BY <1>1, <1>5, <2>1
  <2>3. v[i + 1] = Effect(what, q[i + 1], v[i])
    BY <1>3, <2>1
  <2> QED
    BY <2>2, <2>3
<1>8. IsReading(w, what, r, Effect(what, q[1], n), k - 1)
  BY <1>5, <1>6, <1>7 DEF IsReading
<1>9. LeadsTo(what, r, Effect(what, q[1], n), p)
  BY <1>1, <1>6, <1>8 DEF LeadsTo
<1> QED
  BY <1>1, <1>9 DEF r

LEMMA LeadsEmpty == \A what, n, p : LeadsTo(what, <<>>, n, p) => p = n
BY DEF LeadsTo, IsReading

LEMMA LeadsFromEmpty ==
  ASSUME NEW what, NEW n \in Nat
  PROVE  LeadsTo(what, <<>>, n, n)
<1> DEFINE v == [i \in 0 .. 0 |-> n]
<1>1. v \in [0 .. 0 -> Nat] /\ v[0] = n /\ Len(<<>>) = 0
  OBVIOUS
<1> HIDE DEF v
<1>2. IsReading(v, what, <<>>, n, 0)
  BY <1>1 DEF IsReading
<1> QED
  BY <1>1, <1>2 DEF LeadsTo

(* Every queue leads somewhere.                                            *)
LEMMA LeadsSomewhere ==
  ASSUME NEW what, NEW q \in Seq(FromFES), NEW n \in Nat
  PROVE  \E p \in Nat : LeadsTo(what, q, n, p)
<1> DEFINE R(k) == \E v : IsReading(v, what, q, n, k)
           Bad == {k \in Nat : k <= Len(q) /\ ~R(k)}
<1>1. Len(q) \in Nat /\ \A i \in 1 .. Len(q) : q[i] \in FromFES
  OBVIOUS
<1>2. R(0)
  <2>1. PICK v : IsReading(v, what, <<>>, n, 0)
    BY LeadsFromEmpty DEF LeadsTo
  <2> QED
    BY <2>1 DEF IsReading
<1>3. ASSUME NEW k \in Nat, k + 1 <= Len(q), R(k) PROVE R(k + 1)
  <2>1. PICK v : IsReading(v, what, q, n, k)
    BY <1>3
  <2>2. q[k + 1] \in FromFES
    BY <1>1, <1>3
  <2>3. \E w : IsReading(w, what, q, n, k + 1) /\ w[k + 1] = Effect(what, q[k + 1], v[k])
    BY <2>1, <2>2, ReadingExtends
  <2> QED
    BY <2>3
<1> HIDE DEF R
<1>4. Bad = {}
  <2> SUFFICES ASSUME Bad # {} PROVE FALSE
    OBVIOUS
  <2>1. PICK k \in Bad : \A m \in Bad : k <= m
    BY LeastNumber
  <2>2. k \in Nat /\ k <= Len(q) /\ ~R(k) /\ k # 0
    BY <1>2
  <2>3. k - 1 \in Nat /\ k - 1 <= Len(q) /\ ~(k <= k - 1) /\ (k - 1) + 1 = k
    BY <1>1, <2>2
  <2>4. R(k - 1)
    BY <2>1, <2>3
  <2> QED
    BY <1>3, <2>2, <2>3, <2>4
<1>5. R(Len(q))
  BY <1>1, <1>4
<1>6. PICK v : IsReading(v, what, q, n, Len(q))
  BY <1>5 DEF R
<1>7. v[Len(q)] \in Nat
  BY <1>1, <1>6 DEF IsReading
<1> QED
  BY <1>6, <1>7 DEF LeadsTo

(* What the WS counts of a front end and the messages to come lead to what *)
(* the front end has: the cookies, unless another was sent to it and will  *)
(* be answered, and at least the players.  An entry that is not made yet   *)
(* has any counts.  A front end has one entry, none before its service up, *)
(* and an entry that outlives its connection will hear of it.              *)
Has(what, f) == Cardinality(IF what = "pending" THEN pending[f] ELSE playing[f])
Due(what, n, p) == IF what = "pending" THEN p = n ELSE p >= n
Asked(what, f) == what = "pending" /\ \E i \in 1 .. Len(wsToFES[f]) : wsToFES[f][i].type = "CS"
InCount(what, f, n) ==
  \E i \in 1 .. Len(FESList) : FESList[i].SId = f /\ Count(what, FESList[i]) = n
Begins(what, f, n) ==
  \/ InCount(what, f, n)
  \/ fesToWS[f] # <<>> /\ fesToWS[f][1] = UpMsg

Agrees(what, f) ==
  sees[f] /\ ~Asked(what, f) =>
    \A n \in Nat : Begins(what, f, n) =>
      \E p \in Nat : LeadsTo(what, fesToWS[f], n, p) /\ Due(what, Has(what, f), p)

InList(f) == \E i \in 1 .. Len(FESList) : FESList[i].SId = f
Single(f) ==
  \A i, j \in 1 .. Len(FESList) : FESList[i].SId = f /\ FESList[j].SId = f => i = j
EntryOK(f) ==
  /\ Single(f)
  /\ \A i \in 1 .. Len(fesToWS[f]) : fesToWS[f][i] = UpMsg => i = 1 /\ ~InList(f)
  /\ InList(f) => sees[f] \/ fesToWS[f] # <<>>

CountsOK(f) == EntryOK(f) /\ \A what \in Counters : Agrees(what, f)
CountsInv == FESList \in Seq(Entries) /\ \A f \in FESs : CountsOK(f)

(* A front end that a step does not concern.                               *)
LEMMA CountsUnaffected ==
  ASSUME NEW f \in FESs, CountsOK(f),
         FESList \in Seq(Entries), FESList' \in Seq(Entries),
         fesToWS'[f] = fesToWS[f], sees'[f] = sees[f],
         pending'[f] = pending[f], playing'[f] = playing[f],
         \A what \in Counters : Asked(what, f) => Asked(what, f)',
         InList(f)' => InList(f),
         \A what \in Counters, n \in Nat :
           ~Asked(what, f)' /\ InCount(what, f, n)' => InCount(what, f, n),
         Single(f)'
  PROVE  CountsOK(f)'
<1>1. EntryOK(f)'
  BY DEF CountsOK, EntryOK
<1>2. ASSUME NEW what \in Counters PROVE Agrees(what, f)'
  <2>1. \A p : Due(what, Has(what, f)', p) <=> Due(what, Has(what, f), p)
    BY DEF Has
  <2>2. ~Asked(what, f)' => \A n \in Nat : Begins(what, f, n)' => Begins(what, f, n)
    BY DEF Begins
  <2> QED
    BY <2>1, <2>2 DEF CountsOK, Agrees
<1> QED
  BY <1>1, <1>2 DEF CountsOK

LEMMA CountsSame ==
  ASSUME NEW f \in FESs, CountsOK(f), UNCHANGED FESList, FESList \in Seq(Entries),
         fesToWS'[f] = fesToWS[f], sees'[f] = sees[f],
         pending'[f] = pending[f], playing'[f] = playing[f],
         \A what \in Counters : Asked(what, f) => Asked(what, f)'
  PROVE  CountsOK(f)'
<1>1. InList(f)' <=> InList(f)
  BY DEF InList
<1>2. \A what \in Counters, n \in Nat : InCount(what, f, n)' => InCount(what, f, n)
  BY DEF InCount
<1>3. Single(f)'
  BY DEF CountsOK, EntryOK, Single
<1> QED
  BY <1>1, <1>2, <1>3, CountsUnaffected

LEMMA CountsElsewhere ==
  ASSUME CountsInv, UNCHANGED <<FESList, fesToWS, sees, pending, playing, wsToFES>>
  PROVE  CountsInv'
<1>1. \A what \in Counters, f \in FESs : Asked(what, f) => Asked(what, f)'
  BY DEF Asked
<1> QED
  BY <1>1, CountsSame DEF CountsInv

(* What a front end does and the message it tells it with keep the counts  *)
(* right, or make them right.                                              *)
Follows(what, f, m) == \A p \in Nat :
  Due(what, Has(what, f), p) => Due(what, Has(what, f)', Effect(what, m, p))
Settles(what, f, m) == \A p \in Nat : Due(what, Has(what, f)', Effect(what, m, p))

LEMMA CountsTold ==
  ASSUME TypeInv, CountsInv, NEW f \in FESs, NEW m \in FromFES, m # UpMsg,
         fesToWS' = Tell(f, m), UNCHANGED <<FESList, sees>>,
         \A g \in FESs : g # f => /\ pending'[g] = pending[g] /\ playing'[g] = playing[g]
                                 /\ wsToFES'[g] = wsToFES[g],
         \A what \in Counters : ~Asked(what, f)' =>
           \/ ~Asked(what, f) /\ Follows(what, f, m)
           \/ Settles(what, f, m)
  PROVE  CountsInv'
<1>1. ASSUME NEW g \in FESs, g # f PROVE CountsOK(g)'
  <2>1. \A what \in Counters : Asked(what, g) => Asked(what, g)'
    BY <1>1 DEF Asked
  <2> QED
    BY <1>1, <2>1, TellKeepsOthers, CountsSame DEF CountsInv, TypeInv
<1> DEFINE q == fesToWS[f]
           r == fesToWS'[f]
<1>2. q \in Seq(FromFES) /\ r = IF sees[f] THEN Append(q, m) ELSE q
  BY DEF TypeInv, LinkTypes, Tell
<1>3. Len(q) \in Nat /\ (InList(f)' <=> InList(f)) /\ EntryOK(f)
  BY <1>2 DEF InList, CountsInv, CountsOK
<1>4. EntryOK(f)'
  <2>1. CASE ~sees[f]
    BY <1>2, <1>3, <2>1 DEF EntryOK, Single
  <2>2. CASE sees[f]
    <3>1. /\ Len(r) = Len(q) + 1 /\ r[Len(q) + 1] = m /\ r # <<>>
          /\ \A i \in 1 .. Len(q) : r[i] = q[i]
      BY <1>2, <2>2, AppendFacts
    <3>2. \A i \in 1 .. Len(r) : i \in 1 .. Len(q) \/ i = Len(q) + 1
      BY <1>3, <3>1
    <3> HIDE DEF r, q
    <3>3. \A i \in 1 .. Len(q) : q[i] = UpMsg => i = 1 /\ ~InList(f)
      BY <1>3 DEF EntryOK, q
    <3>4. \A i \in 1 .. Len(r) : r[i] = UpMsg => i = 1 /\ ~InList(f)
      BY <3>1, <3>2, <3>3
    <3>5. Single(f)'
      BY <1>3 DEF EntryOK, Single
    <3> QED
      BY <1>3, <2>2, <3>4, <3>5 DEF EntryOK, r
  <2> QED
    BY <2>1, <2>2
<1>5. ASSUME NEW what \in Counters PROVE Agrees(what, f)'
  <2> SUFFICES ASSUME sees[f], ~Asked(what, f)', NEW n \in Nat, Begins(what, f, n)'
               PROVE  \E p \in Nat : LeadsTo(what, r, n, p) /\ Due(what, Has(what, f)', p)
    BY DEF Agrees
  <2>1. r = Append(q, m) /\ r # <<>> /\ (q # <<>> => r[1] = q[1]) /\ (q = <<>> => r[1] = m)
    <3>1. r = Append(q, m)
      BY <1>2
    <3>2. q # <<>> => 1 \in 1 .. Len(q)
      BY <1>2
    <3>3. q = <<>> => Len(q) = 0
      OBVIOUS
    <3> QED
      BY <1>2, <3>1, <3>2, <3>3, AppendFacts
  <2> HIDE DEF r, q
  <2>2. Begins(what, f, n)
    BY <2>1 DEF Begins, InCount, r, q
  <2>3. CASE ~Asked(what, f) /\ Follows(what, f, m)
    <3>1. PICK p \in Nat : LeadsTo(what, q, n, p) /\ Due(what, Has(what, f), p)
      BY <2>2, <2>3 DEF CountsInv, CountsOK, Agrees, q
    <3>2. LeadsTo(what, r, n, Effect(what, m, p)) /\ Effect(what, m, p) \in Nat
      BY <1>2, <2>1, <3>1, LeadsAfterAppend, EffectTypes
    <3> QED
      BY <2>3, <3>1, <3>2 DEF Follows
  <2>4. CASE Settles(what, f, m)
    <3>1. PICK p \in Nat : LeadsTo(what, q, n, p)
      BY <1>2, LeadsSomewhere
    <3>2. LeadsTo(what, r, n, Effect(what, m, p)) /\ Effect(what, m, p) \in Nat
      BY <1>2, <2>1, <3>1, LeadsAfterAppend, EffectTypes
    <3> QED
      BY <2>4, <3>1, <3>2 DEF Settles
  <2> QED
    BY <2>3, <2>4
<1> QED
  BY <1>1, <1>4, <1>5 DEF CountsInv, CountsOK

(* What a message of a front end says of its counts.                       *)
LEMMA Effects ==
  /\ \A k, f, n, p : /\ Effect("pending", ChosenMsg(k, f, n), p) = n
                     /\ Effect("users", ChosenMsg(k, f, n), p) = p
                     /\ ChosenMsg(k, f, n) # UpMsg
  /\ \A k, p : /\ Effect("pending", RemovedMsg(k), p) = Less(p)
               /\ Effect("users", RemovedMsg(k), p) = p /\ RemovedMsg(k) # UpMsg
  /\ \A u, b : ClientMsg(u, b) # UpMsg
  /\ \A n, p, k : /\ Effect("pending", CountsMsg(n, p), k) = p
                  /\ Effect("users", CountsMsg(n, p), k) = n /\ CountsMsg(n, p) # UpMsg
  /\ \A what, p : Effect(what, UpMsg, p) = p
  /\ DownMsg # UpMsg
BY DEF Effect, ChosenMsg, RemovedMsg, ClientMsg, CountsMsg, UpMsg, DownMsg

LEMMA ChosenCounts ==
  ASSUME TypeInv, CountsInv, NEW f \in FESs, NEW k \in Cookies,
         pending' = [pending EXCEPT ![f] = Inserted(f, k)],
         fesToWS' = Tell(f, ChosenMsg(k, f, Cardinality(Inserted(f, k)))),
         UNCHANGED <<FESList, sees, playing>>,
         \A g \in FESs : g # f => wsToFES'[g] = wsToFES[g]
  PROVE  CountsInv'
<1> DEFINE m == ChosenMsg(k, f, Cardinality(Inserted(f, k)))
<1>1. m \in FromFES /\ m # UpMsg
  BY InsertedTypes, MessagesAreTyped, Effects
<1>2. pending'[f] = Inserted(f, k) /\ \A g \in FESs : g # f => pending'[g] = pending[g]
  BY DEF TypeInv, FESTypes
<1>3. \A p : /\ Effect("pending", m, p) = Cardinality(pending'[f])
             /\ Effect("users", m, p) = p
  BY <1>2, Effects
<1>4. ~Asked("users", f)
  BY DEF Asked
<1> HIDE DEF m
<1>5. Settles("pending", f, m) /\ Follows("users", f, m)
  BY <1>3 DEF Follows, Settles, Due, Has
<1> QED
  BY <1>1, <1>2, <1>4, <1>5, CountsTold DEF Counters, m

LEMMA FESMessageCounts ==
  ASSUME TypeInv, CountsInv, NEW f \in FESs, FESMessage(f)
  PROVE  CountsInv'
<1>1. UNCHANGED <<FESList, sees, playing>> /\ FESPops(f) /\ wsToFES[f] # <<>>
  BY DEF FESMessage, FESAccepts, FESChooseShard, FESDisconnectClient, wsVars, FESReads, Reads
<1>2. /\ wsToFES[f] \in Seq(ToFES) /\ wsToFES'[f] = Tail(wsToFES[f])
      /\ \A g \in FESs : g # f => wsToFES'[g] = wsToFES[g]
  BY <1>1 DEF TypeInv, LinkTypes, FESPops
<1>3. CASE FESAccepts(f) \/ FESDisconnectClient(f)
  <2>1. UNCHANGED <<pending, fesToWS>> /\ Head(wsToFES[f]).type # "CS"
    BY <1>3 DEF FESAccepts, FESDisconnectClient, FESReads, Reads
  <2>2. ASSUME NEW what \in Counters, Asked(what, f) PROVE Asked(what, f)'
    <3>1. PICK i \in 1 .. Len(wsToFES[f]) : wsToFES[f][i].type = "CS"
      BY <2>2 DEF Asked
    <3>2. i # 1 /\ Len(wsToFES[f]) \in Nat /\ Len(wsToFES'[f]) = Len(wsToFES[f]) - 1
      BY <1>1, <1>2, <2>1, <3>1, HeadAndTail
    <3>3. i - 1 \in 1 .. Len(wsToFES[f]) - 1 /\ (i - 1) + 1 = i
      BY <3>1, <3>2
    <3>4. wsToFES'[f][i - 1] = wsToFES[f][i]
      BY <1>1, <1>2, <3>3, HeadAndTail
    <3> QED
      BY <2>2, <3>1, <3>2, <3>3, <3>4 DEF Asked
  <2>3. \A what \in Counters, g \in FESs : Asked(what, g) => Asked(what, g)'
    BY <1>2, <2>2 DEF Asked
  <2> QED
    BY <1>1, <2>1, <2>3, CountsSame DEF CountsInv
<1>4. CASE FESChooseShard(f)
  <2>1. Head(wsToFES[f]).cookie \in Cookies
    BY <1>4, FESPopTypes, TypedMessages DEF TypeInv, FESChooseShard
  <2> QED
    BY <1>1, <1>2, <1>4, <2>1, ChosenCounts DEF FESChooseShard
<1> QED
  BY <1>3, <1>4 DEF FESMessage

(* One element less, in the set and in the count.                          *)
LEMMA OneLess ==
  ASSUME NEW S, IsFiniteSet(S), NEW x \in S
  PROVE  /\ Cardinality(S) \in Nat \ {0} /\ Cardinality(S \ {x}) = Cardinality(S) - 1
         /\ Less(Cardinality(S)) = Cardinality(S \ {x})
         /\ \A p \in Nat : p >= Cardinality(S) => Less(p) >= Cardinality(S \ {x})
<1>1. Cardinality(S) \in Nat /\ Cardinality(S \ {x}) = Cardinality(S) - 1
  BY FS_CardinalityType, FS_RemoveElement
<1>2. Cardinality(S) # 0
  BY FS_EmptySet
<1> QED
  BY <1>1, <1>2 DEF Less

LEMMA EraseCounts ==
  ASSUME TypeInv, CountsInv, NEW f \in FESs, Erase(f)
  PROVE  CountsInv'
<1>1. UNCHANGED <<FESList, sees, playing, wsToFES>>
  BY DEF Erase, FESErasesCookie, wsVars
<1>2. PICK k \in pending[f] : /\ pending' = [pending EXCEPT ![f] = @ \ {k}]
                              /\ fesToWS' = Tell(f, RemovedMsg(k))
  BY DEF Erase, FESErasesCookie
<1> DEFINE m == RemovedMsg(k)
<1>3. m \in FromFES /\ m # UpMsg /\ IsFiniteSet(pending[f])
  BY MessagesAreTyped, Effects DEF TypeInv, FESTypes
<1>4. pending'[f] = pending[f] \ {k} /\ \A g \in FESs : g # f => pending'[g] = pending[g]
  BY <1>2 DEF TypeInv, FESTypes
<1>5. Follows("pending", f, m)
  BY <1>3, <1>4, Effects, OneLess DEF Follows, Due, Has
<1>6. Follows("users", f, m)
  BY <1>1, Effects DEF Follows, Due, Has
<1>7. \A what : Asked(what, f)' <=> Asked(what, f)
  BY <1>1 DEF Asked
<1> HIDE DEF m
<1> QED
  BY <1>1, <1>2, <1>3, <1>4, <1>5, <1>6, <1>7, CountsTold DEF Counters, m

LEMMA LoginCounts ==
  ASSUME TypeInv, CountsInv, NEW c \in Clients, NEW f \in FESs, NEW k \in Cookies,
         FESLogin(f, c, k), UNCHANGED FESList
  PROVE  CountsInv'
<1> DEFINE m == ClientMsg(k.user, TRUE)
<1>1. UNCHANGED <<FESList, sees, wsToFES>> /\ k.user \in Users
  BY DEF FESLogin, Cookies
<1>2. /\ k \in pending[f] /\ pending' = [pending EXCEPT ![f] = @ \ {k}]
      /\ fesToWS' = Tell(f, m)
      /\ \/ playing' = [playing EXCEPT ![f] = @ \cup {<<c, k.user>>}]
         \/ playing' = playing
  BY <1>1 DEF FESLogin, Valid
<1>3. m \in FromFES /\ m # UpMsg /\ IsFiniteSet(pending[f]) /\ IsFiniteSet(playing[f])
  BY <1>1, MessagesAreTyped, Effects, FiniteSessions
<1>4. pending'[f] = pending[f] \ {k} /\ \A g \in FESs : g # f => pending'[g] = pending[g]
  BY <1>1, <1>2 DEF TypeInv, FESTypes
<1>5. /\ playing'[f] = playing[f] \cup {<<c, k.user>>} \/ playing'[f] = playing[f]
      /\ \A g \in FESs : g # f => playing'[g] = playing[g]
  BY <1>1, <1>2 DEF TypeInv, FESTypes
<1>6. Follows("pending", f, m)
  BY <1>2, <1>3, <1>4, OneLess DEF Follows, Due, Has, Effect, ClientMsg
<1>7. /\ Cardinality(playing[f]) \in Nat /\ Cardinality(playing'[f]) \in Nat
      /\ Cardinality(playing'[f]) <= Cardinality(playing[f]) + 1
  <2>1. /\ Cardinality(playing[f]) \in Nat
        /\ \/ Cardinality(playing[f] \cup {<<c, k.user>>}) = Cardinality(playing[f]) + 1
           \/ Cardinality(playing[f] \cup {<<c, k.user>>}) = Cardinality(playing[f])
    BY <1>3, FS_CardinalityType, FS_AddElement
  <2> DEFINE N == Cardinality(playing[f])
             M == Cardinality(playing'[f])
  <2>2. M = N \/ M = N + 1
    BY <1>5, <2>1
  <2> HIDE DEF M
  <2> QED
    BY <2>1, <2>2 DEF M
<1>8. Follows("users", f, m)
  <2> SUFFICES ASSUME NEW p \in Nat, p >= Cardinality(playing[f])
               PROVE  p + 1 >= Cardinality(playing'[f])
    BY DEF Follows, Due, Has, Effect, ClientMsg
  <2> QED
    BY <1>7
<1>9. \A what : Asked(what, f)' <=> Asked(what, f)
  BY <1>1 DEF Asked
<1> HIDE DEF m
<1> QED
  BY <1>1, <1>2, <1>3, <1>4, <1>5, <1>6, <1>8, <1>9, CountsTold DEF Counters

LEMMA EnterCounts ==
  ASSUME TypeInv, CountsInv, NEW c \in Clients, Enter(c)
  PROVE  CountsInv'
<1>1. client[c].fes \in FESs /\ client[c].ticket \in Cookies
  BY DEF TypeInv, ClientTypes, Enter
<1>2. FESLogin(client[c].fes, c, client[c].ticket) /\ UNCHANGED FESList
  BY DEF Enter, wsVars
<1> QED
  BY <1>1, <1>2, LoginCounts

LEMMA LeaveCounts ==
  ASSUME TypeInv, CountsInv, NEW f \in FESs, NEW s \in playing[f], Leave(f, s)
  PROVE  CountsInv'
<1> DEFINE m == ClientMsg(s[2], FALSE)
<1>1. /\ UNCHANGED <<FESList, sees, wsToFES, pending>> /\ fesToWS' = Tell(f, m)
      /\ playing' = [playing EXCEPT ![f] = @ \ {s}]
  BY DEF Leave, FESRemoves, wsVars
<1>2. m \in FromFES /\ m # UpMsg /\ IsFiniteSet(playing[f])
  <2>1. s[2] \in Users
    BY DEF TypeInv, FESTypes
  <2> QED
    BY <2>1, MessagesAreTyped, Effects, FiniteSessions
<1>3. playing'[f] = playing[f] \ {s} /\ \A g \in FESs : g # f => playing'[g] = playing[g]
  BY <1>1 DEF TypeInv, FESTypes
<1>4. Follows("pending", f, m)
  BY <1>1 DEF Follows, Due, Has, Effect, ClientMsg
<1>5. Follows("users", f, m)
  BY <1>2, <1>3, OneLess DEF Follows, Due, Has, Effect, ClientMsg
<1>6. \A what : Asked(what, f)' <=> Asked(what, f)
  BY <1>1 DEF Asked
<1> HIDE DEF m
<1> QED
  BY <1>1, <1>2, <1>3, <1>4, <1>5, <1>6, CountsTold DEF Counters

(* The front end and the WS meet: no entry is there, and the report has    *)
(* the counts.                                                             *)
LEMMA FESConnectCounts ==
  ASSUME TypeInv, KnownInv, CountsInv, NEW f \in FESs, FESConnect(f)
  PROVE  CountsInv'
<1> DEFINE m == Report(f)
           u == Cardinality(playing[f])
           p == Cardinality(pending[f])
<1>1. /\ UNCHANGED <<FESList, pending, playing, wsToFES>> /\ phase[f] = "up" /\ ~sees[f]
      /\ sees' = [sees EXCEPT ![f] = TRUE]
      /\ fesToWS' = [fesToWS EXCEPT ![f] = <<UpMsg, m>>]
  BY DEF FESConnect, FESMeetsWS, wsVars, fesVars
<1>2. ASSUME NEW g \in FESs, g # f PROVE CountsOK(g)'
  <2>1. fesToWS'[g] = fesToWS[g] /\ sees'[g] = sees[g]
    BY <1>1, <1>2 DEF TypeInv, LinkTypes
  <2>2. \A what \in Counters : Asked(what, g) => Asked(what, g)'
    BY <1>1 DEF Asked
  <2> QED
    BY <1>1, <2>1, <2>2, CountsSame DEF CountsInv
<1>3. fesToWS[f] = <<>> /\ EntryOK(f)
  BY <1>1 DEF KnownInv, KnownOK, CountsInv, CountsOK
<1>4. ~InList(f) /\ ~InList(f)' /\ Single(f)'
  BY <1>1, <1>3 DEF EntryOK, InList, Single
<1>5. u \in Nat /\ p \in Nat /\ m = CountsMsg(u, p)
  BY FiniteSessions DEF Report
<1>6. m \in FromFES /\ UpMsg \in FromFES
  BY <1>5, MessagesAreTyped
<1>7. fesToWS'[f] = <<UpMsg, m>>
  BY <1>1 DEF TypeInv, LinkTypes
<1> HIDE DEF m, u, p
<1>8. /\ <<UpMsg, m>> = Append(Append(<<>>, UpMsg), m) /\ Append(<<>>, UpMsg) \in Seq(FromFES)
      /\ <<>> \in Seq(FromFES) /\ Len(<<UpMsg, m>>) = 2 /\ <<UpMsg, m>>[2] = m
  BY <1>6
<1>9. EntryOK(f)'
  <2>1. m # UpMsg
    BY <1>5, Effects
  <2>2. \A i \in 1 .. 2 : i = 1 \/ i = 2
    OBVIOUS
  <2> QED
    BY <1>4, <1>7, <1>8, <2>1, <2>2 DEF EntryOK
<1>10. ASSUME NEW what \in Counters PROVE Agrees(what, f)'
  <2>1. ASSUME NEW n \in Nat PROVE LeadsTo(what, <<UpMsg, m>>, n, Effect(what, m, n))
    <3>1. LeadsTo(what, Append(<<>>, UpMsg), n, Effect(what, UpMsg, n))
      BY <1>6, <1>8, <2>1, LeadsFromEmpty, LeadsAfterAppend
    <3>2. Effect(what, UpMsg, n) = n
      BY Effects
    <3> QED
      BY <1>6, <1>8, <3>1, <3>2, LeadsAfterAppend
  <2>2. /\ Has("pending", f)' = p /\ Has("users", f)' = u
        /\ \A n : Effect("pending", m, n) = p /\ Effect("users", m, n) = u
    BY <1>1, <1>5, Effects DEF Has, u, p
  <2>3. \A n \in Nat : Due(what, Has(what, f)', Effect(what, m, n)) /\ Effect(what, m, n) \in Nat
    BY <1>5, <2>2 DEF Counters, Due
  <2> QED
    BY <1>7, <2>1, <2>3 DEF Agrees
<1> QED
  BY <1>1, <1>2, <1>9, <1>10 DEF CountsInv, CountsOK

LEMMA FESCrashCounts ==
  ASSUME TypeInv, KnownInv, CountsInv, NEW f \in FESs, FESCrash(f)
  PROVE  CountsInv'
<1>1. /\ UNCHANGED FESList /\ phase[f] = "up" /\ wsToFES' = [wsToFES EXCEPT ![f] = <<>>]
      /\ pending' = [pending EXCEPT ![f] = {}] /\ playing' = [playing EXCEPT ![f] = {}]
      /\ sees' = [sees EXCEPT ![f] = FALSE]
      /\ IF sees[f] THEN \E q \in Cut(fesToWS[f]) :
                           fesToWS' = [fesToWS EXCEPT ![f] = Append(q, DownMsg)]
         ELSE UNCHANGED fesToWS
  BY DEF FESCrash, FESDies, wsVars
<1>2. ASSUME NEW g \in FESs, g # f PROVE CountsOK(g)'
  <2>1. /\ fesToWS'[g] = fesToWS[g] /\ sees'[g] = sees[g] /\ wsToFES'[g] = wsToFES[g]
        /\ pending'[g] = pending[g] /\ playing'[g] = playing[g]
    BY <1>1, <1>2 DEF TypeInv, LinkTypes, FESTypes
  <2>2. \A what \in Counters : Asked(what, g) => Asked(what, g)'
    BY <2>1 DEF Asked
  <2> QED
    BY <1>1, <2>1, <2>2, CountsSame DEF CountsInv
<1>3. ~sees'[f] /\ (InList(f)' <=> InList(f)) /\ EntryOK(f) /\ Single(f)'
  BY <1>1 DEF TypeInv, LinkTypes, InList, CountsInv, CountsOK, EntryOK, Single
<1>4. EntryOK(f)'
  <2>1. CASE ~sees[f]
    BY <1>1, <1>3, <2>1 DEF EntryOK
  <2>2. CASE sees[f]
    <3>1. PICK q \in Cut(fesToWS[f]) : fesToWS' = [fesToWS EXCEPT ![f] = Append(q, DownMsg)]
      BY <1>1, <2>2
    <3>2. fesToWS[f] \in Seq(FromFES)
      BY DEF TypeInv, LinkTypes
    <3>3. /\ q \in Seq(FromFES) /\ DownMsg \in FromFES /\ Len(q) <= Len(fesToWS[f])
          /\ \A i \in 1 .. Len(q) : q[i] = fesToWS[f][i]
      BY <3>2, CutFacts, MessagesAreTyped
    <3> DEFINE r == fesToWS'[f]
    <3>4. r = Append(q, DownMsg)
      BY <3>1 DEF TypeInv, LinkTypes
    <3>5. /\ Len(q) \in Nat /\ Len(r) = Len(q) + 1 /\ r[Len(q) + 1] = DownMsg /\ r # <<>>
          /\ \A i \in 1 .. Len(q) : r[i] = q[i]
      BY <3>3, <3>4, AppendFacts
    <3>6. \A i \in 1 .. Len(q) : q[i] = UpMsg => i = 1 /\ ~InList(f)
      <4>1. Len(fesToWS[f]) \in Nat
        BY <3>2
      <4> QED
        BY <1>3, <3>3, <3>5, <4>1 DEF EntryOK
    <3> HIDE DEF r
    <3>7. \A i \in 1 .. Len(r) : i \in 1 .. Len(q) \/ i = Len(q) + 1
      BY <3>5
    <3>8. \A i \in 1 .. Len(r) : r[i] = UpMsg => i = 1 /\ ~InList(f)
      BY <3>5, <3>6, <3>7, Effects
    <3> QED
      BY <1>3, <3>5, <3>8 DEF EntryOK, r
  <2> QED
    BY <2>1, <2>2
<1>5. \A what \in Counters : Agrees(what, f)'
  BY <1>3 DEF Agrees
<1> QED
  BY <1>1, <1>2, <1>4, <1>5 DEF CountsInv, CountsOK

LEMMA WSCrashCounts ==
  ASSUME TypeInv, CountsInv, WSCrash
  PROVE  CountsInv'
<1>1. FESList' = <<>> /\ \A f \in FESs : ~sees'[f] /\ fesToWS'[f] = <<>>
  BY DEF WSCrash, WSDies
<1>2. FESList' \in Seq(Entries) /\ \A f \in FESs : ~InList(f)' /\ Single(f)'
  BY <1>1 DEF InList, Single
<1>3. \A f \in FESs : EntryOK(f)'
  BY <1>1, <1>2 DEF EntryOK
<1>4. \A f \in FESs, what \in Counters : Agrees(what, f)'
  BY <1>1 DEF Agrees
<1> QED
  BY <1>2, <1>3, <1>4 DEF CountsInv, CountsOK

(* What a step of the WS leaves of the entries of a front end.             *)
SameCounts(g) ==
  /\ Single(g)' /\ (InList(g)' => InList(g))
  /\ \A what \in Counters, n \in Nat : InCount(what, g, n)' => InCount(what, g, n)

LEMMA CountsRead ==
  ASSUME TypeInv, KnownInv, CountsInv, NEW f \in FESs, fesToWS[f] # <<>>, WSPops(f),
         UNCHANGED <<sees, pending, playing>>, FESList' \in Seq(Entries),
         \A g \in FESs, what \in Counters : Asked(what, g) => Asked(what, g)',
         \A g \in FESs : g # f => SameCounts(g),
         Single(f)', Head(fesToWS[f]) = DownMsg => ~InList(f)',
         \A what \in Counters, n \in Nat : InCount(what, f, n)' =>
           \E k \in Nat : Begins(what, f, k) /\ n = Effect(what, Head(fesToWS[f]), k)
  PROVE  CountsInv'
<1> DEFINE q == fesToWS[f]
           h == Head(q)
           r == fesToWS'[f]
<1>1. ASSUME NEW g \in FESs, g # f PROVE CountsOK(g)'
  <2>1. fesToWS'[g] = fesToWS[g] /\ SameCounts(g) /\ CountsOK(g)
    BY <1>1 DEF WSPops, TypeInv, LinkTypes, CountsInv
  <2> QED
    BY <2>1, CountsUnaffected DEF CountsInv, SameCounts
<1>2. q \in Seq(FromFES) /\ r = Tail(q)
  BY DEF WSPops, TypeInv, LinkTypes
<1>3. /\ h \in FromFES /\ h = q[1] /\ Len(q) \in Nat \ {0} /\ r \in Seq(FromFES)
      /\ Len(r) = Len(q) - 1 /\ \A i \in 1 .. Len(q) - 1 : r[i] = q[i + 1]
  BY <1>2, HeadAndTail
<1>4. EntryOK(f) /\ KnownOK(f, q) /\ \A what \in Counters : Agrees(what, f)
  BY DEF CountsInv, CountsOK, KnownInv
<1> HIDE DEF q, h, r
<1>5. \A i \in 1 .. Len(r) : r[i] # UpMsg
  <2> SUFFICES ASSUME NEW i \in 1 .. Len(r), r[i] = UpMsg PROVE FALSE
    OBVIOUS
  <2>1. i + 1 \in 1 .. Len(q) /\ i \in 1 .. Len(q) - 1 /\ i + 1 # 1
    BY <1>3
  <2>2. q[i + 1] = UpMsg
    BY <1>3, <2>1
  <2> QED
    BY <1>4, <2>1, <2>2 DEF EntryOK, q
<1>6. InList(f)' => sees'[f] \/ r # <<>>
  <2> SUFFICES ASSUME InList(f)', ~sees[f], r = <<>> PROVE FALSE
    OBVIOUS
  <2>1. Len(q) = 1 /\ q # <<>> /\ q[1] # DownMsg
    BY <1>3 DEF q, h
  <2> QED
    BY <1>4, <2>1 DEF KnownOK
<1>7. EntryOK(f)'
  BY <1>5, <1>6 DEF EntryOK, r
<1>8. ASSUME NEW what \in Counters PROVE Agrees(what, f)'
  <2> SUFFICES ASSUME sees[f], ~Asked(what, f)', NEW n \in Nat, Begins(what, f, n)'
               PROVE  \E p \in Nat : LeadsTo(what, r, n, p) /\ Due(what, Has(what, f)', p)
    BY DEF Agrees, r
  <2>1. ~Asked(what, f) /\ Has(what, f)' = Has(what, f)
    BY DEF Has
  <2>2. InCount(what, f, n)'
    <3>1. r # <<>> => r[1] # UpMsg
      <4>1. r # <<>> => 1 \in 1 .. Len(r)
        BY <1>3
      <4> QED
        BY <1>5, <4>1
    <3> QED
      BY <3>1 DEF Begins, r
  <2>3. PICK k \in Nat : Begins(what, f, k) /\ n = Effect(what, h, k)
    BY <2>2 DEF h, q
  <2>4. PICK p \in Nat : LeadsTo(what, q, k, p) /\ Due(what, Has(what, f), p)
    BY <1>4, <2>1, <2>3 DEF Agrees, q
  <2>5. LeadsTo(what, r, n, p)
    <3>1. q # <<>>
      BY DEF q
    <3> QED
      BY <1>2, <2>3, <2>4, <3>1, LeadsAfterTail DEF h
  <2> QED
    BY <2>1, <2>4, <2>5
<1> QED
  BY <1>1, <1>7, <1>8 DEF CountsInv, CountsOK

LEMMA SameSIds ==
  ASSUME Len(FESList') = Len(FESList),
         \A i \in 1 .. Len(FESList) : FESList'[i].SId = FESList[i].SId
  PROVE  \A g : (Single(g) => Single(g)') /\ (InList(g)' <=> InList(g))
<1> SUFFICES ASSUME NEW g PROVE (Single(g) => Single(g)') /\ (InList(g)' <=> InList(g))
  OBVIOUS
<1> DEFINE D == 1 .. Len(FESList)
<1>1. \A i \in D : FESList'[i].SId = g <=> FESList[i].SId = g
  OBVIOUS
<1>2. /\ Single(g) <=> \A i, j \in D : FESList[i].SId = g /\ FESList[j].SId = g => i = j
      /\ Single(g)' <=> \A i, j \in D : FESList'[i].SId = g /\ FESList'[j].SId = g => i = j
      /\ InList(g) <=> \E i \in D : FESList[i].SId = g
      /\ InList(g)' <=> \E i \in D : FESList'[i].SId = g
  BY DEF Single, InList
<1> HIDE DEF D
<1> QED
  BY <1>1, <1>2

(* A list whose entries have other counts, and perhaps accept clients now. *)
LEMMA ListChanged ==
  ASSUME FESList \in Seq(Entries), NEW list, list = [i \in DOMAIN FESList |-> list[i]],
         \A i \in 1 .. Len(FESList) : list[i] \in Entries /\ list[i].SId = FESList[i].SId,
         FESList' = list
  PROVE  /\ FESList' \in Seq(Entries) /\ Len(FESList') = Len(FESList)
         /\ \A g : (Single(g) => Single(g)') /\ (InList(g)' <=> InList(g))
<1>1. DOMAIN FESList = 1 .. Len(FESList) /\ Len(FESList) \in Nat
  OBVIOUS
<1>2. list \in Seq(Entries) /\ Len(list) = Len(FESList)
  BY <1>1
<1>3. Len(FESList') = Len(FESList)
  BY <1>2
<1>4. \A i \in 1 .. Len(FESList) : FESList'[i].SId = FESList[i].SId
  OBVIOUS
<1> QED
  BY <1>2, <1>3, <1>4, SameSIds

LEMMA ListSameFor ==
  ASSUME NEW list, FESList' = list, Len(list) = Len(FESList), NEW g, Single(g), Single(g)',
         InList(g)' <=> InList(g),
         \A i \in 1 .. Len(FESList) :
           /\ list[i].SId = FESList[i].SId
           /\ list[i].SId = g =>
                \A what \in Counters : Count(what, list[i]) = Count(what, FESList[i])
  PROVE  SameCounts(g)
<1>1. ASSUME NEW what \in Counters, NEW n \in Nat, InCount(what, g, n)'
      PROVE  InCount(what, g, n)
  BY <1>1 DEF InCount
<1> QED
  BY <1>1 DEF SameCounts

(* The entry e after the message that is read, when it was d.              *)
Reflects(f, e, d) ==
  /\ e \in Entries /\ e.SId = d.SId
  /\ e.SId # f => e = d
  /\ e.SId = f => \A what \in Counters :
       Count(what, e) = Effect(what, Head(fesToWS[f]), Count(what, d))

LEMMA CountsChanged ==
  ASSUME TypeInv, KnownInv, CountsInv, NEW f \in FESs, fesToWS[f] # <<>>, WSPops(f),
         UNCHANGED <<sees, pending, playing>>,
         \A g \in FESs, what \in Counters : Asked(what, g) => Asked(what, g)',
         Head(fesToWS[f]) # DownMsg,
         NEW list, list = [i \in DOMAIN FESList |-> list[i]], FESList' = list,
         \A i \in 1 .. Len(FESList) : Reflects(f, list[i], FESList[i])
  PROVE  CountsInv'
<1>1. /\ FESList \in Seq(Entries) /\ \A g \in FESs : Single(g)
  BY DEF CountsInv, CountsOK, EntryOK
<1>5. \A i \in 1 .. Len(FESList) :
        /\ list[i] \in Entries /\ list[i].SId = FESList[i].SId
        /\ list[i].SId # f => list[i] = FESList[i]
        /\ list[i].SId = f => \A what \in Counters :
             Count(what, list[i]) = Effect(what, Head(fesToWS[f]), Count(what, FESList[i]))
  BY DEF Reflects
<1>2. /\ FESList' \in Seq(Entries) /\ Len(list) = Len(FESList)
      /\ \A g \in FESs : Single(g)' /\ (InList(g)' <=> InList(g))
  BY <1>1, <1>5, ListChanged
<1>3. ASSUME NEW g \in FESs, g # f PROVE SameCounts(g)
  BY <1>1, <1>2, <1>3, <1>5, ListSameFor
<1>4. ASSUME NEW what \in Counters, NEW n \in Nat, InCount(what, f, n)'
      PROVE  \E k \in Nat : Begins(what, f, k) /\ n = Effect(what, Head(fesToWS[f]), k)
  <2>1. PICK i \in 1 .. Len(FESList) : list[i].SId = f /\ Count(what, list[i]) = n
    BY <1>2, <1>4 DEF InCount
  <2>2. FESList[i].SId = f /\ n = Effect(what, Head(fesToWS[f]), Count(what, FESList[i]))
    BY <1>5, <2>1
  <2>3. FESList[i] \in Entries
    BY <1>1
  <2>4. Count(what, FESList[i]) \in Nat
    BY <2>3 DEF Count, Entries
  <2>5. Begins(what, f, Count(what, FESList[i]))
    BY <2>2 DEF Begins, InCount
  <2> QED
    BY <2>2, <2>4, <2>5
<1> QED
  BY <1>2, <1>3, <1>4, CountsRead

(* Messages to the front ends are only added.                              *)
Longer(q, r) == \A g \in FESs : \A i \in 1 .. Len(q[g]) : i \in 1 .. Len(r[g]) /\ r[g][i] = q[g][i]

LEMMA SentLonger ==
  ASSUME NEW q \in [FESs -> Seq(ToFES)], NEW f \in FESs, NEW m \in ToFES
  PROVE  /\ [q EXCEPT ![f] = @ \o <<m>>] = [q EXCEPT ![f] = Append(@, m)]
         /\ Longer(q, [q EXCEPT ![f] = Append(@, m)])
<1>1. q[f] \in Seq(ToFES) /\ q[f] \o <<m>> = Append(q[f], m)
  OBVIOUS
<1>2. ASSUME NEW g \in FESs, NEW i \in 1 .. Len(q[g])
      PROVE  /\ i \in 1 .. Len([q EXCEPT ![f] = Append(@, m)][g])
             /\ [q EXCEPT ![f] = Append(@, m)][g][i] = q[g][i]
  <2>1. /\ q[g] \in Seq(ToFES) /\ Len(q[g]) \in Nat /\ Len(Append(q[g], m)) = Len(q[g]) + 1
        /\ Append(q[g], m)[i] = q[g][i]
    BY <1>2, AppendFacts
  <2>2. [q EXCEPT ![f] = Append(@, m)][g] = IF g = f THEN Append(q[g], m) ELSE q[g]
    BY <1>2
  <2> QED
    BY <1>2, <2>1, <2>2
<1> QED
  BY <1>1, <1>2 DEF Longer

LEMMA AskedStill ==
  ASSUME Longer(wsToFES, wsToFES')
  PROVE  \A g \in FESs, what \in Counters : Asked(what, g) => Asked(what, g)'
<1> SUFFICES ASSUME NEW g \in FESs, NEW what \in Counters, Asked(what, g)
             PROVE  Asked(what, g)'
  OBVIOUS
<1>1. PICK i \in 1 .. Len(wsToFES[g]) : wsToFES[g][i].type = "CS"
  BY DEF Asked
<1>2. i \in 1 .. Len(wsToFES'[g]) /\ wsToFES'[g][i].type = "CS"
  BY <1>1 DEF Longer
<1> QED
  BY <1>2 DEF Asked

LEMMA AcceptSent ==
  ASSUME TypeInv, NEW f \in FESs,
         wsToFES' = wsToFES \/ wsToFES' = Sent(f, <<AcceptMsg>>)
  PROVE  \A g \in FESs, what \in Counters : Asked(what, g) => Asked(what, g)'
<1>1. wsToFES \in [FESs -> Seq(ToFES)] /\ AcceptMsg \in ToFES
  BY MessagesAreTyped DEF TypeInv, LinkTypes
<1>2. Longer(wsToFES, wsToFES')
  <2>1. CASE wsToFES' = wsToFES
    BY <2>1 DEF Longer
  <2>2. CASE wsToFES' = Sent(f, <<AcceptMsg>>)
    BY <1>1, <2>2, SentLonger DEF Sent
  <2> QED
    BY <2>1, <2>2
<1> QED
  BY <1>2, AskedStill

(* The counts of the new entries.                                          *)
LEMMA NewCounts ==
  ASSUME NEW e \in Entries
  PROVE  /\ \A n \in Nat : /\ Count("pending", Pending(e, n)) = n
                           /\ Count("users", Pending(e, n)) = Count("users", e)
         /\ Count("pending", Arrives(e)) = Less(Count("pending", e))
         /\ Count("users", Arrives(e)) = Count("users", e) + 1
         /\ Count("pending", Leaves(e)) = Count("pending", e)
         /\ Count("users", Leaves(e)) = Less(Count("users", e))
         /\ \A n, p, b : /\ Count("users", Counted(e, n, p, b)) = n
                         /\ Count("pending", Counted(e, n, p, b)) = p
<1>1. e = [SId |-> e.SId, NbPendingUsers |-> e.NbPendingUsers, NbUser |-> e.NbUser,
           accepts |-> e.accepts]
  BY DEF Entries
<1>2. \A n : /\ Count("pending", Pending(e, n)) = n
             /\ Count("users", Pending(e, n)) = Count("users", e)
  BY DEF Count, Pending, Entries
<1>3. /\ Count("pending", Leaves(e)) = Count("pending", e)
      /\ Count("users", Leaves(e)) = Less(Count("users", e))
  BY DEF Count, Leaves, Entries
<1>4. \A n, p, b : /\ Count("users", Counted(e, n, p, b)) = n
                   /\ Count("pending", Counted(e, n, p, b)) = p
  BY DEF Count, Counted, Entries
<1>5. /\ Count("pending", Arrives(e)) = Less(Count("pending", e))
      /\ Count("users", Arrives(e)) = Count("users", e) + 1
  BY DEF Count, Arrives, Entries
<1> QED
  BY <1>2, <1>3, <1>4, <1>5

LEMMA CountsReported ==
  ASSUME TypeInv, KnownInv, CountsInv, NEW f \in FESs, WSFrontEnd(f),
         WSCounts(f) \/ WSShardChosen(f) \/ WSClientConnected(f) \/ WSCookieRemoved(f)
  PROVE  CountsInv'
<1> DEFINE h == Head(fesToWS[f])
           S == 1 .. Len(FESList)
<1>1. /\ fesToWS[f] # <<>> /\ WSPops(f) /\ UNCHANGED <<sees, pending, playing>>
      /\ h.type \in {"NBPLAYERS2", "SCS", "CC", "RPC"}
  BY DEF WSFrontEnd, fesVars, WSCounts, WSShardChosen, WSClientConnected, WSCookieRemoved,
         WSReads, Reads
<1>2. h # DownMsg /\ h \in FromFES
  BY <1>1, HeadAndTail DEF DownMsg, TypeInv, LinkTypes
<1>3. \A g \in FESs, what \in Counters : Asked(what, g) => Asked(what, g)'
  <2>1. wsToFES' = wsToFES \/ wsToFES' = Sent(f, <<AcceptMsg>>)
    BY DEF WSCounts, WSShardChosen, WSClientConnected, WSCookieRemoved
  <2> QED
    BY <2>1, AcceptSent
<1>4. /\ DOMAIN FESList = S /\ \A i \in S : FESList[i] \in Entries
  BY DEF CountsInv
<1>5. CASE WSCounts(f)
  <2>1. h.type = "NBPLAYERS2" /\ h.users \in Nat /\ h.pending \in Nat
    <3>1. h.type = "NBPLAYERS2"
      BY <1>5 DEF WSCounts, WSReads, Reads
    <3> QED
      BY <1>2, <3>1 DEF FromFES, Chosen, Moves
  <2> DEFINE b(e) == e.accepts \/ h.users # 0
             r(e) == Counted(e, h.users, h.pending, b(e))
             list == [i \in DOMAIN FESList |-> IF FESList[i].SId = f THEN r(FESList[i])
                                               ELSE FESList[i]]
  <2>2. FESList' = list
    BY <1>5 DEF WSCounts, Updated, Counted
  <2>3. ASSUME NEW e \in Entries PROVE r(e) \in Entries /\ r(e).SId = e.SId
    <3>1. b(e) \in BOOLEAN
      OBVIOUS
    <3> HIDE DEF b, h
    <3> QED
      BY <2>1, <3>1, CountedTypes
  <2>4. \A e \in Entries, what \in Counters : Count(what, r(e)) = Effect(what, h, Count(what, e))
    <3> SUFFICES ASSUME NEW e \in Entries, NEW what \in Counters
                 PROVE  Count(what, r(e)) = Effect(what, h, Count(what, e))
      OBVIOUS
    <3>1. Count("users", r(e)) = h.users /\ Count("pending", r(e)) = h.pending
      BY NewCounts
    <3>2. /\ Effect("users", h, Count("users", e)) = h.users
          /\ Effect("pending", h, Count("pending", e)) = h.pending
      BY <2>1 DEF Effect
    <3> HIDE DEF r, h
    <3> QED
      BY <3>1, <3>2 DEF Counters
  <2>5. ASSUME NEW i \in S
        PROVE  Reflects(f, list[i], FESList[i])
    <3>1. /\ FESList[i] \in Entries /\ list[i] \in Entries /\ list[i].SId = FESList[i].SId
          /\ list[i] = IF FESList[i].SId = f THEN r(FESList[i]) ELSE FESList[i]
      BY <1>4, <2>3
    <3> HIDE DEF r, list
    <3> QED
      BY <2>4, <3>1 DEF Reflects
  <2>6. list = [i \in DOMAIN FESList |-> list[i]]
    OBVIOUS
  <2> HIDE DEF list
  <2> QED
    BY <1>1, <1>2, <1>3, <2>2, <2>5, <2>6, CountsChanged
<1>6. CASE WSShardChosen(f)
  <2>1. h.type = "SCS" /\ h.nb \in Nat
    <3>1. h.type = "SCS"
      BY <1>6 DEF WSShardChosen, WSReads, Reads
    <3> QED
      BY <1>2, <3>1 DEF FromFES, Chosen, Moves
  <2> DEFINE list == [i \in DOMAIN FESList |-> IF FESList[i].SId = f
                        THEN Pending(FESList[i], h.nb) ELSE FESList[i]]
  <2>2. FESList' = list
    BY <1>6 DEF WSShardChosen, Updated
  <2>3. ASSUME NEW e \in Entries, NEW what \in Counters
        PROVE  Count(what, Pending(e, h.nb)) = Effect(what, h, Count(what, e))
    BY <2>1, NewCounts DEF Effect, Counters
  <2>5. ASSUME NEW i \in S
        PROVE  Reflects(f, list[i], FESList[i])
    <3>1. /\ FESList[i] \in Entries /\ list[i] \in Entries /\ list[i].SId = FESList[i].SId
          /\ list[i] = IF FESList[i].SId = f THEN Pending(FESList[i], h.nb) ELSE FESList[i]
      BY <1>4, <2>1, EntryTypes
    <3> HIDE DEF list
    <3> QED
      BY <2>3, <3>1 DEF Reflects
  <2>6. list = [i \in DOMAIN FESList |-> list[i]]
    OBVIOUS
  <2> HIDE DEF list
  <2> QED
    BY <1>1, <1>2, <1>3, <2>2, <2>5, <2>6, CountsChanged
<1>7. CASE WSClientConnected(f)
  <2>1. h.type = "CC"
    BY <1>7 DEF WSClientConnected, WSReads, Reads
  <2> DEFINE list == [i \in DOMAIN FESList |-> IF FESList[i].SId = f
                        THEN (IF h.con THEN Arrives(FESList[i]) ELSE Leaves(FESList[i]))
                        ELSE FESList[i]]
  <2>2. FESList' = list
    BY <1>7 DEF WSClientConnected, Updated
  <2>3. ASSUME NEW e \in Entries, NEW what \in Counters
        PROVE  Count(what, IF h.con THEN Arrives(e) ELSE Leaves(e))
                 = Effect(what, h, Count(what, e))
    BY <2>1, NewCounts DEF Effect, Counters
  <2>5. ASSUME NEW i \in S
        PROVE  Reflects(f, list[i], FESList[i])
    <3>1. /\ FESList[i] \in Entries /\ list[i] \in Entries /\ list[i].SId = FESList[i].SId
          /\ list[i] = IF FESList[i].SId = f
                       THEN (IF h.con THEN Arrives(FESList[i]) ELSE Leaves(FESList[i]))
                       ELSE FESList[i]
      BY <1>4, EntryTypes
    <3> HIDE DEF list
    <3> QED
      BY <2>3, <3>1 DEF Reflects
  <2>6. list = [i \in DOMAIN FESList |-> list[i]]
    OBVIOUS
  <2> HIDE DEF list
  <2> QED
    BY <1>1, <1>2, <1>3, <2>2, <2>5, <2>6, CountsChanged
<1>8. CASE WSCookieRemoved(f)
  <2>1. h.type = "RPC"
    BY <1>8 DEF WSCookieRemoved, WSReads, Reads
  <2> DEFINE r(e) == Pending(e, Less(e.NbPendingUsers))
             list == [i \in DOMAIN FESList |-> IF FESList[i].SId = f THEN r(FESList[i])
                                               ELSE FESList[i]]
  <2>2. FESList' = list
    BY <1>8 DEF WSCookieRemoved, Updated
  <2>3. ASSUME NEW e \in Entries
        PROVE  /\ r(e) \in Entries /\ r(e).SId = e.SId
               /\ \A what \in Counters : Count(what, r(e)) = Effect(what, h, Count(what, e))
    <3>1. Less(e.NbPendingUsers) \in Nat /\ Count("pending", e) = e.NbPendingUsers
      BY EntryTypes DEF Count
    <3>2. /\ r(e) \in Entries /\ r(e).SId = e.SId
          /\ Count("pending", r(e)) = Less(Count("pending", e))
          /\ Count("users", r(e)) = Count("users", e)
      <4> DEFINE n == Less(e.NbPendingUsers)
      <4>1. n \in Nat /\ r(e) = Pending(e, n) /\ n = Less(Count("pending", e))
        BY <3>1
      <4> HIDE DEF n, r
      <4>2. Pending(e, n) \in Entries /\ Pending(e, n).SId = e.SId
        BY <4>1, EntryTypes
      <4>3. /\ Count("pending", Pending(e, n)) = n
            /\ Count("users", Pending(e, n)) = Count("users", e)
        BY <4>1, NewCounts
      <4> QED
        BY <4>1, <4>2, <4>3
    <3>3. /\ Effect("pending", h, Count("pending", e)) = Less(Count("pending", e))
          /\ Effect("users", h, Count("users", e)) = Count("users", e)
      BY <2>1 DEF Effect
    <3> HIDE DEF r, h
    <3> QED
      BY <3>2, <3>3 DEF Counters
  <2>5. ASSUME NEW i \in S
        PROVE  Reflects(f, list[i], FESList[i])
    <3>1. /\ FESList[i] \in Entries /\ list[i] \in Entries /\ list[i].SId = FESList[i].SId
          /\ list[i] = IF FESList[i].SId = f THEN r(FESList[i]) ELSE FESList[i]
      BY <1>4, <2>3
    <3> HIDE DEF r, list
    <3> QED
      BY <2>3, <3>1 DEF Reflects
  <2>6. list = [i \in DOMAIN FESList |-> list[i]]
    OBVIOUS
  <2> HIDE DEF list
  <2> QED
    BY <1>1, <1>2, <1>3, <2>2, <2>5, <2>6, CountsChanged
<1> QED
  BY <1>5, <1>6, <1>7, <1>8

(* The service up callback makes the entry, with no counts.                *)
LEMMA UpCounts ==
  ASSUME TypeInv, KnownInv, CountsInv, NEW f \in FESs, WSFrontEnd(f), WSFrontEndUp(f)
  PROVE  CountsInv'
<1> DEFINE h == Head(fesToWS[f])
           e == [CFES(f) EXCEPT !.accepts = ~UsePatchMode]
           n == Len(FESList)
<1>1. /\ fesToWS[f] # <<>> /\ WSPops(f) /\ UNCHANGED <<sees, pending, playing>>
      /\ h.type = "up" /\ FESList' = Append(FESList, e)
      /\ wsToFES' = wsToFES \/ wsToFES' = Sent(f, <<AcceptMsg>>)
  BY DEF WSFrontEnd, fesVars, WSFrontEndUp, WSReads, Reads
<1>2. h \in FromFES /\ h = fesToWS[f][1] /\ Len(fesToWS[f]) \in Nat \ {0}
  BY <1>1, HeadAndTail DEF TypeInv, LinkTypes
<1>3. h = UpMsg /\ h # DownMsg
  <2>1. h \in [type : {"up", "down"}]
    BY <1>1, <1>2 DEF FromFES, Chosen, Moves
  <2> QED
    BY <1>1, <2>1 DEF UpMsg, DownMsg
<1>4. ~InList(f)
  BY <1>2, <1>3 DEF CountsInv, CountsOK, EntryOK
<1>5. /\ e \in Entries /\ e.SId = f
      /\ \A what : Count(what, e) = 0
  <2>1. (~UsePatchMode) \in BOOLEAN
    OBVIOUS
  <2>2. e \in Entries /\ e.SId = f
    BY <2>1 DEF CFES, Entries
  <2>3. e.NbUser = 0 /\ e.NbPendingUsers = 0
    BY DEF CFES
  <2> HIDE DEF e
  <2> QED
    BY <2>2, <2>3 DEF Count
<1>6. /\ FESList \in Seq(Entries) /\ \A g \in FESs : Single(g)
  BY DEF CountsInv, CountsOK, EntryOK
<1> HIDE DEF e, h
<1>7. /\ FESList' \in Seq(Entries) /\ n \in Nat /\ Len(FESList') = n + 1
      /\ FESList'[n + 1] = e /\ \A i \in 1 .. n : FESList'[i] = FESList[i]
      /\ \A i \in 1 .. n + 1 : i \in 1 .. n \/ i = n + 1
  BY <1>1, <1>5, <1>6, AppendFacts
<1>8. ASSUME NEW g \in FESs, g # f PROVE SameCounts(g)
  <2>1. \A i \in 1 .. Len(FESList') : FESList'[i].SId = g =>
          i \in 1 .. Len(FESList) /\ FESList'[i] = FESList[i]
    BY <1>5, <1>7, <1>8
  <2>2. Single(g)
    BY <1>6
  <2> HIDE DEF n
  <2>3. Single(g)'
    BY <2>1, <2>2 DEF Single
  <2>4. InList(g)' => InList(g)
    BY <2>1 DEF InList
  <2>5. ASSUME NEW what \in Counters, NEW k \in Nat, InCount(what, g, k)'
        PROVE  InCount(what, g, k)
    BY <2>1, <2>5 DEF InCount
  <2> QED
    BY <2>3, <2>4, <2>5 DEF SameCounts
<1>9. \A i \in 1 .. Len(FESList') : FESList'[i].SId = f => i = n + 1 /\ FESList'[i] = e
  BY <1>4, <1>7 DEF InList
<1>10. Single(f)'
  BY <1>9 DEF Single
<1>11. ASSUME NEW what \in Counters, NEW k \in Nat, InCount(what, f, k)'
       PROVE  \E j \in Nat : Begins(what, f, j) /\ k = Effect(what, h, j)
  <2>1. k = 0
    BY <1>5, <1>9, <1>11 DEF InCount
  <2>2. Begins(what, f, 0) /\ Effect(what, h, 0) = 0
    BY <1>1, <1>2, <1>3, Effects DEF Begins
  <2> QED
    BY <2>1, <2>2
<1>12. \A g \in FESs, what \in Counters : Asked(what, g) => Asked(what, g)'
  BY <1>1, AcceptSent
<1> QED
  BY <1>1, <1>3, <1>7, <1>8, <1>10, <1>11, <1>12, CountsRead DEF h

(* A sequence without its element k.                                       *)
LEMMA ElementErased ==
  ASSUME NEW S, NEW q \in Seq(S), NEW k \in 1 .. Len(q)
  PROVE  /\ RemoveAt(q, k) \in Seq(S) /\ Len(RemoveAt(q, k)) = Len(q) - 1
         /\ \A i \in 1 .. Len(q) - 1 : RemoveAt(q, k)[i] = IF i < k THEN q[i] ELSE q[i + 1]
<1> DEFINE n == Len(q)
           a == SubSeq(q, 1, k - 1)
           b == SubSeq(q, k + 1, n)
<1>1. n \in Nat /\ \A i \in 1 .. n : q[i] \in S
  OBVIOUS
<1>2. a \in Seq(S) /\ Len(a) = k - 1 /\ \A i \in 1 .. k - 1 : a[i] = q[i]
  BY <1>1
<1>3. b \in Seq(S) /\ Len(b) = n - k /\ \A i \in 1 .. n - k : b[i] = q[k + i]
  <2>1. \A i \in k + 1 .. n : q[i] \in S
    BY <1>1
  <2>2. Len(b) = n - k /\ \A i \in 1 .. n - k : b[i] = q[k + i]
    BY <1>1
  <2>3. b \in Seq(S)
    BY <1>1, <2>1
  <2> QED
    BY <2>2, <2>3
<1>4. RemoveAt(q, k) = a \o b
  BY DEF RemoveAt
<1> HIDE DEF a, b, n
<1>5. /\ a \o b \in Seq(S) /\ Len(a \o b) = Len(a) + Len(b)
      /\ \A i \in 1 .. Len(a) + Len(b) : (a \o b)[i] = IF i <= Len(a) THEN a[i] ELSE b[i - Len(a)]
  <2>1. a \in Seq(S) /\ b \in Seq(S)
    BY <1>2, <1>3
  <2>2. a \o b \in Seq(S)
    BY <2>1
  <2>3. Len(a \o b) = Len(a) + Len(b)
    BY <2>1
  <2>4. Len(a) \in Nat /\ Len(b) \in Nat
    BY <2>1
  <2>5. ASSUME NEW i \in 1 .. Len(a) + Len(b)
        PROVE  (a \o b)[i] = IF i <= Len(a) THEN a[i] ELSE b[i - Len(a)]
    BY <2>1, <2>4, <2>5
  <2> QED
    BY <2>2, <2>3, <2>5
<1>6. ASSUME NEW i \in 1 .. n - 1 PROVE (a \o b)[i] = IF i < k THEN q[i] ELSE q[i + 1]
  <2>1. k \in 1 .. n
    BY DEF n
  <2>2. CASE i < k
    <3>1. i \in 1 .. Len(a) + Len(b) /\ i <= Len(a) /\ i \in 1 .. k - 1
      BY <1>1, <1>2, <1>3, <2>1, <2>2
    <3> QED
      BY <1>2, <1>5, <2>2, <3>1
  <2>3. CASE ~(i < k)
    <3>1. /\ i \in 1 .. Len(a) + Len(b) /\ ~(i <= Len(a)) /\ i - (k - 1) \in 1 .. n - k
          /\ k + (i - (k - 1)) = i + 1 /\ i - Len(a) = i - (k - 1)
      BY <1>1, <1>2, <1>3, <2>1, <2>3
    <3>2. b[i - (k - 1)] = q[i + 1]
      BY <1>3, <3>1
    <3>3. (a \o b)[i] = b[i - (k - 1)]
      BY <1>5, <3>1
    <3> QED
      BY <2>3, <3>2, <3>3
  <2> QED
    BY <2>2, <2>3
<1>7. Len(a) + Len(b) = n - 1
  <2>1. k \in 1 .. n
    BY DEF n
  <2> QED
    BY <1>1, <1>2, <1>3, <2>1
<1> QED
  BY <1>4, <1>5, <1>6, <1>7 DEF n

(* The service down callback erases the entry.                             *)
Erased(list, f) == RemoveFirstMatch(list, LAMBDA e : e.SId = f)
Old(i, k) == IF i < k THEN i ELSE i + 1
Shifted(r, list, k) ==
  \A i \in 1 .. Len(r) : Old(i, k) \in 1 .. Len(list) /\ r[i] = list[Old(i, k)]

LEMMA EntryErased ==
  ASSUME NEW list \in Seq(Entries), NEW f,
         \A i, j \in 1 .. Len(list) : list[i].SId = f /\ list[j].SId = f => i = j,
         NEW r, r = Erased(list, f)
  PROVE  /\ r \in Seq(Entries)
         /\ \A i \in 1 .. Len(r) : r[i].SId # f
         /\ \E k \in Nat : Shifted(r, list, k)
<1> DEFINE n == Len(list)
           I == {i \in 1 .. n : list[i].SId = f}
<1>1. n \in Nat
  OBVIOUS
<1>2. CASE I = {}
  <2>1. r = list
    BY <1>2 DEF Erased, RemoveFirstMatch
  <2>2. n + 1 \in Nat /\ \A i \in 1 .. n : i < n + 1
    BY <1>1
  <2> QED
    BY <1>2, <2>1, <2>2 DEF Shifted, Old
<1>3. CASE I # {}
  <2>1. PICK k \in I : I = {k}
    BY <1>3
  <2>2. Min(I) = k
    BY <2>1 DEF Min
  <2>3. SelectInSeq(list, LAMBDA e : e.SId = f) = k
    BY <1>3, <2>2 DEF SelectInSeq
  <2>4. r = RemoveAt(list, k)
    BY <1>3, <2>3 DEF Erased, RemoveFirstMatch
  <2>6. k \in 1 .. n /\ \A i \in 1 .. n : list[i].SId = f => i = k
    BY <2>1
  <2> HIDE DEF I
  <2>7. /\ r \in Seq(Entries) /\ Len(r) = n - 1
        /\ \A i \in 1 .. n - 1 : r[i] = IF i < k THEN list[i] ELSE list[i + 1]
    BY <2>4, <2>6, ElementErased
  <2>8. \A i \in 1 .. n - 1 : i \in 1 .. n /\ i + 1 \in 1 .. n /\ (i < k => i # k)
                           /\ (~(i < k) => i + 1 # k)
    BY <1>1, <2>6
  <2> HIDE DEF n
  <2>9. \A i \in 1 .. n - 1 : r[i].SId # f
    BY <2>6, <2>7, <2>8
  <2>10. k \in Nat
    BY <2>6
  <2> QED
    BY <2>7, <2>8, <2>9, <2>10 DEF n, Shifted, Old
<1> QED
  BY <1>2, <1>3

LEMMA DownCounts ==
  ASSUME TypeInv, KnownInv, CountsInv, NEW f \in FESs, WSFrontEnd(f), WSFrontEndDown(f)
  PROVE  CountsInv'
<1> DEFINE r == FESList'
<1>1. /\ fesToWS[f] # <<>> /\ WSPops(f) /\ UNCHANGED <<sees, pending, playing, wsToFES>>
      /\ r = Erased(FESList, f)
  BY DEF WSFrontEnd, fesVars, WSFrontEndDown, WSReads, Reads, Erased
<1>2. /\ FESList \in Seq(Entries) /\ \A g \in FESs : Single(g)
  BY DEF CountsInv, CountsOK, EntryOK
<1> HIDE DEF r
<1>3. /\ r \in Seq(Entries) /\ \A i \in 1 .. Len(r) : r[i].SId # f
      /\ \E k \in Nat : Shifted(r, FESList, k)
  <2>1. \A i, j \in 1 .. Len(FESList) : FESList[i].SId = f /\ FESList[j].SId = f => i = j
    BY <1>2 DEF Single
  <2> QED
    BY <1>1, <1>2, <2>1, EntryErased
<1>4. PICK k \in Nat : Shifted(r, FESList, k)
  BY <1>3
<1>5. /\ \A i \in 1 .. Len(r) : Old(i, k) \in 1 .. Len(FESList) /\ r[i] = FESList[Old(i, k)]
      /\ \A i, j \in 1 .. Len(r) : Old(i, k) = Old(j, k) => i = j
  BY <1>4 DEF Shifted, Old
<1>6. ASSUME NEW g \in FESs PROVE SameCounts(g)
  <2>1. Single(g)'
    <3> SUFFICES ASSUME NEW i \in 1 .. Len(r), NEW j \in 1 .. Len(r), r[i].SId = g, r[j].SId = g
                 PROVE  i = j
      BY DEF Single, r
    <3>1. Old(i, k) = Old(j, k)
      BY <1>2, <1>5 DEF Single
    <3> QED
      BY <1>5, <3>1
  <2>2. InList(g)' => InList(g)
    <3> SUFFICES ASSUME NEW i \in 1 .. Len(r), r[i].SId = g PROVE InList(g)
      BY DEF InList, r
    <3>1. Old(i, k) \in 1 .. Len(FESList) /\ FESList[Old(i, k)].SId = g
      BY <1>5
    <3> QED
      BY <3>1 DEF InList
  <2>3. ASSUME NEW what \in Counters, NEW n \in Nat, InCount(what, g, n)'
        PROVE  InCount(what, g, n)
    <3>1. PICK i \in 1 .. Len(r) : r[i].SId = g /\ Count(what, r[i]) = n
      BY <2>3 DEF InCount, r
    <3>2. /\ Old(i, k) \in 1 .. Len(FESList) /\ FESList[Old(i, k)].SId = g
          /\ Count(what, FESList[Old(i, k)]) = n
      BY <1>5, <3>1
    <3> QED
      BY <3>2 DEF InCount
  <2> QED
    BY <2>1, <2>2, <2>3 DEF SameCounts
<1>7. ~InList(f)' /\ \A what \in Counters, n \in Nat : ~InCount(what, f, n)'
  BY <1>3 DEF InList, InCount, r
<1>8. \A g \in FESs, what \in Counters : Asked(what, g) => Asked(what, g)'
  BY <1>1 DEF Asked
<1> QED
  BY <1>1, <1>3, <1>6, <1>7, <1>8, CountsRead DEF SameCounts, r

LEMMA WSFrontEndCounts ==
  ASSUME TypeInv, KnownInv, CountsInv, NEW f \in FESs, WSFrontEnd(f)
  PROVE  CountsInv'
BY CountsReported, UpCounts, DownCounts DEF WSFrontEnd

(* lsChooseShard: the new count of the front end that is chosen is void    *)
(* until it answers, and the one that is opened keeps its counts.          *)
LEMMA OpenedCounts ==
  ASSUME FESList \in Seq(Entries)
  PROVE  /\ Opened \in Seq(Entries) /\ Len(Opened) = Len(FESList)
         /\ \A i \in 1 .. Len(FESList) :
              /\ Opened[i].SId = FESList[i].SId
              /\ \A what : Count(what, Opened[i]) = Count(what, FESList[i])
<1>1. ASSUME NEW i \in 1 .. Len(FESList), NEW what
      PROVE  Count(what, Opened[i]) = Count(what, FESList[i])
  <2>1. FESList[i] \in Entries /\ i \in DOMAIN FESList
    OBVIOUS
  <2>2. Opened[i] = [FESList[i] EXCEPT !.accepts = TRUE] \/ Opened[i] = FESList[i]
    BY <2>1 DEF Opened
  <2>3. /\ [FESList[i] EXCEPT !.accepts = TRUE].NbUser = FESList[i].NbUser
        /\ [FESList[i] EXCEPT !.accepts = TRUE].NbPendingUsers = FESList[i].NbPendingUsers
    BY <2>1 DEF Entries
  <2> QED
    BY <2>2, <2>3 DEF Count
<1> QED
  BY <1>1, OpensOne

LEMMA OpenLonger ==
  ASSUME TypeInv, FESList \in Seq(Entries)
  PROVE  OpenMsgs \in [FESs -> Seq(ToFES)] /\ Longer(wsToFES, OpenMsgs)
<1>1. wsToFES \in [FESs -> Seq(ToFES)]
  BY DEF TypeInv, LinkTypes
<1>2. CASE Opens = {}
  BY <1>1, <1>2 DEF OpenMsgs, Longer
<1>3. CASE Opens # {}
  <2>1. PICK i \in 1 .. Len(FESList) : Opens = {i}
    BY <1>3, OpensOne
  <2>2. FESList[i].SId \in FESs /\ AcceptMsg \in ToFES
    <3>1. FESList[i] \in Entries
      OBVIOUS
    <3> QED
      BY <3>1, EntryTypes, MessagesAreTyped
  <2>3. OpenMsgs = [wsToFES EXCEPT ![FESList[i].SId] = @ \o <<AcceptMsg>>]
    BY <1>3, <2>1 DEF OpenMsgs, Sent
  <2> QED
    BY <1>1, <2>2, <2>3, SentLonger, SentTypes
<1> QED
  BY <1>2, <1>3

LEMMA RefusedCounts ==
  ASSUME TypeInv, CountsInv, FESList' = Opened, wsToFES' = OpenMsgs,
         UNCHANGED <<fesToWS, sees, pending, playing>>
  PROVE  CountsInv'
<1>1. FESList \in Seq(Entries) /\ \A g \in FESs : CountsOK(g) /\ Single(g)
  BY DEF CountsInv, CountsOK, EntryOK
<1>2. /\ FESList' \in Seq(Entries) /\ Len(FESList') = Len(FESList)
      /\ \A i \in 1 .. Len(FESList) :
           /\ FESList'[i].SId = FESList[i].SId
           /\ \A what : Count(what, FESList'[i]) = Count(what, FESList[i])
  BY <1>1, OpenedCounts
<1>3. \A g \in FESs, what \in Counters : Asked(what, g) => Asked(what, g)'
  BY <1>1, OpenLonger, AskedStill
<1>4. \A g \in FESs : Single(g)' /\ (InList(g)' <=> InList(g))
  BY <1>1, <1>2, SameSIds
<1>5. ASSUME NEW g \in FESs, NEW what \in Counters, NEW n \in Nat, InCount(what, g, n)'
      PROVE  InCount(what, g, n)
  BY <1>2, <1>5 DEF InCount
<1> QED
  BY <1>1, <1>2, <1>3, <1>4, <1>5, CountsUnaffected DEF CountsInv

LEMMA ElementReplaced ==
  ASSUME NEW S, NEW q \in Seq(S), NEW k \in 1 .. Len(q), NEW x \in S
  PROVE  /\ [q EXCEPT ![k] = x] \in Seq(S) /\ Len([q EXCEPT ![k] = x]) = Len(q)
         /\ \A i \in 1 .. Len(q) : [q EXCEPT ![k] = x][i] = IF i = k THEN x ELSE q[i]
<1>1. q \in [1 .. Len(q) -> S] /\ Len(q) \in Nat
  OBVIOUS
<1>2. [q EXCEPT ![k] = x] \in [1 .. Len(q) -> S]
  BY <1>1
<1> QED
  BY <1>1, <1>2

LEMMA ChoiceCounts ==
  ASSUME TypeInv, CountsInv, NEW k \in Cookies, NEW b \in 1 .. Len(FESList),
         NEW f \in FESs, f = FESList[b].SId,
         wsToFES' = [OpenMsgs EXCEPT ![f] = Append(@, ChooseMsg(k))],
         FESList' = [Opened EXCEPT ![b].NbPendingUsers = @ + 1],
         UNCHANGED <<fesToWS, sees, pending, playing>>
  PROVE  CountsInv'
<1>1. FESList \in Seq(Entries) /\ \A g \in FESs : CountsOK(g) /\ Single(g)
  BY DEF CountsInv, CountsOK, EntryOK
<1>2. /\ Opened \in Seq(Entries) /\ Len(Opened) = Len(FESList)
      /\ \A i \in 1 .. Len(FESList) :
           /\ Opened[i].SId = FESList[i].SId
           /\ \A what : Count(what, Opened[i]) = Count(what, FESList[i])
  BY <1>1, OpenedCounts
<1> DEFINE d == Opened[b]
           e == [d EXCEPT !.NbPendingUsers = @ + 1]
<1>3. /\ e \in Entries /\ e.SId = f /\ Count("users", e) = Count("users", d)
  <2>1. d \in Entries /\ d.SId = f /\ d.NbPendingUsers + 1 \in Nat
    <3>1. d \in Entries /\ d.SId = f
      BY <1>2
    <3> QED
      BY <3>1 DEF Entries
  <2> DEFINE m == d.NbPendingUsers + 1
  <2>2. e = [d EXCEPT !.NbPendingUsers = m]
    OBVIOUS
  <2> HIDE DEF d, e, m
  <2> QED
    BY <2>1, <2>2 DEF Entries, Count, m
<1>4. FESList' = [Opened EXCEPT ![b] = e]
  OBVIOUS
<1> HIDE DEF e, d
<1>5. /\ FESList' \in Seq(Entries) /\ Len(FESList') = Len(FESList)
      /\ \A i \in 1 .. Len(FESList) : FESList'[i] = IF i = b THEN e ELSE Opened[i]
  <2> DEFINE r == [Opened EXCEPT ![b] = e]
  <2>1. b \in 1 .. Len(Opened)
    BY <1>2
  <2>2. /\ r \in Seq(Entries) /\ Len(r) = Len(Opened)
        /\ \A i \in 1 .. Len(Opened) : r[i] = IF i = b THEN e ELSE Opened[i]
    BY <1>2, <1>3, <2>1, ElementReplaced
  <2>3. FESList' = r
    BY <1>4
  <2> HIDE DEF r
  <2> QED
    BY <1>2, <2>2, <2>3
<1>6. \A i \in 1 .. Len(FESList) :
        /\ FESList'[i].SId = FESList[i].SId
        /\ Count("users", FESList'[i]) = Count("users", FESList[i])
        /\ FESList'[i].SId # f => Count("pending", FESList'[i]) = Count("pending", FESList[i])
  <2> TAKE i \in 1 .. Len(FESList)
  <2>1. /\ FESList'[i] = IF i = b THEN e ELSE Opened[i]
        /\ Opened[i].SId = FESList[i].SId
    BY <1>2, <1>5
  <2>2. /\ Count("users", Opened[i]) = Count("users", FESList[i])
        /\ Count("pending", Opened[i]) = Count("pending", FESList[i])
    BY <1>2
  <2>3. CASE i = b
    <3>1. FESList'[i] = e /\ Opened[i] = d
      BY <2>1, <2>3 DEF d
    <3> QED
      BY <1>3, <2>1, <2>2, <2>3, <3>1
  <2>4. CASE i # b
    <3>1. FESList'[i] = Opened[i]
      BY <2>1, <2>4
    <3> QED
      BY <2>1, <2>2, <3>1
  <2> QED
    BY <2>3, <2>4
<1>7. \A g \in FESs : Single(g)' /\ (InList(g)' <=> InList(g))
  BY <1>1, <1>5, <1>6, SameSIds
<1>8. /\ OpenMsgs \in [FESs -> Seq(ToFES)] /\ ChooseMsg(k) \in ToFES
      /\ ChooseMsg(k).type = "CS" /\ Longer(wsToFES, OpenMsgs)
  BY <1>1, OpenLonger, MessagesAreTyped DEF ChooseMsg
<1>9. Longer(OpenMsgs, wsToFES')
  BY <1>8, SentLonger
<1>10. Longer(wsToFES, wsToFES')
  BY <1>8, <1>9 DEF Longer
<1>11. \A g \in FESs, what \in Counters : Asked(what, g) => Asked(what, g)'
  BY <1>10, AskedStill
<1>12. Asked("pending", f)'
  <2>1. wsToFES'[f] = Append(OpenMsgs[f], ChooseMsg(k)) /\ OpenMsgs[f] \in Seq(ToFES)
    BY <1>8
  <2>2. /\ Len(OpenMsgs[f]) \in Nat /\ Len(wsToFES'[f]) = Len(OpenMsgs[f]) + 1
        /\ wsToFES'[f][Len(OpenMsgs[f]) + 1] = ChooseMsg(k)
    BY <1>8, <2>1, AppendFacts
  <2>3. Len(OpenMsgs[f]) + 1 \in 1 .. Len(wsToFES'[f])
    BY <2>2
  <2> QED
    BY <1>8, <2>2, <2>3 DEF Asked
<1>13. ASSUME NEW g \in FESs, NEW what \in Counters, NEW n \in Nat, InCount(what, g, n)',
              ~Asked(what, g)'
       PROVE  InCount(what, g, n)
  <2>1. what = "users" \/ (what = "pending" /\ g # f)
    BY <1>12, <1>13 DEF Counters
  <2>2. PICK i \in 1 .. Len(FESList) : FESList'[i].SId = g /\ Count(what, FESList'[i]) = n
    BY <1>5, <1>13 DEF InCount
  <2>3. FESList[i].SId = g /\ Count(what, FESList[i]) = n
    BY <1>6, <2>1, <2>2
  <2> QED
    BY <2>3 DEF InCount
<1> QED
  BY <1>1, <1>5, <1>7, <1>11, <1>13, CountsUnaffected DEF CountsInv

LEMMA WSLoginCounts ==
  ASSUME TypeInv, CountsInv, WSLogin
  PROVE  CountsInv'
<1>1. /\ UNCHANGED <<fesToWS, sees, pending, playing>> /\ lsToWS # <<>>
      /\ lsToWS \in Seq(ToWS) /\ Head(lsToWS) \in ToWS /\ FESList \in Seq(Entries)
  <2>1. /\ UNCHANGED <<fesToWS, sees, pending, playing>> /\ lsToWS # <<>>
    BY DEF WSLogin, WSChooseShard, WSDisconnectClient, Reads, fesVars
  <2>2. lsToWS \in Seq(ToWS) /\ FESList \in Seq(Entries)
    BY DEF TypeInv, NetTypes, CountsInv
  <2> QED
    BY <2>1, <2>2, HeadAndTail
<1>2. CASE WSDisconnectClient
  <2> DEFINE u == Head(lsToWS).user
  <2>1. /\ UNCHANGED FESList /\ u \in Users
        /\ wsToFES' = IF Known(u) THEN Sent(assoc[u], <<KickMsg(u)>>) ELSE wsToFES
    BY <1>1, <1>2, TypedMessages DEF WSDisconnectClient, Reads
  <2> HIDE DEF u
  <2>2. /\ wsToFES \in [FESs -> Seq(ToFES)] /\ KickMsg(u) \in ToFES
        /\ Known(u) => assoc[u] \in FESs
    BY <2>1, MessagesAreTyped DEF TypeInv, LinkTypes, Known, Null
  <2>3. Longer(wsToFES, wsToFES')
    <3>1. CASE Known(u)
      BY <2>1, <2>2, <3>1, SentLonger DEF Sent
    <3>2. CASE ~Known(u)
      BY <2>1, <3>2 DEF Longer
    <3> QED
      BY <3>1, <3>2
  <2> QED
    BY <1>1, <2>1, <2>3, AskedStill, CountsSame DEF CountsInv
<1>3. CASE WSChooseShard
  <2> DEFINE b == BestFES(Opened)
  <2>1. Head(lsToWS).cookie \in Cookies
    BY <1>1, <1>3, TypedMessages DEF WSChooseShard, Reads
  <2>2. CASE Accepting(Opened) = {} \/ Full(Opened)
    BY <1>1, <1>3, <2>2, RefusedCounts DEF WSChooseShard
  <2>3. CASE ~(Accepting(Opened) = {} \/ Full(Opened))
    <3>1. Opened \in Seq(Entries) /\ b \in 1 .. Len(FESList)
      BY <1>1, <2>3, OpenedCounts, BestIsAccepting DEF Accepting
    <3>2. Opened[b].SId = FESList[b].SId /\ FESList[b].SId \in FESs
      <4>1. FESList[b] \in Entries
        BY <1>1, <3>1
      <4> QED
        BY <1>1, <3>1, <4>1, OpenedCounts, EntryTypes
    <3>3. /\ wsToFES' = [OpenMsgs EXCEPT ![Opened[b].SId] =
                           Append(@, ChooseMsg(Head(lsToWS).cookie))]
          /\ FESList' = [Opened EXCEPT ![b].NbPendingUsers = @ + 1]
      BY <1>3, <2>3 DEF WSChooseShard
    <3> HIDE DEF b
    <3> QED
      BY <1>1, <2>1, <3>1, <3>2, <3>3, ChoiceCounts
  <2> QED
    BY <2>2, <2>3
<1> QED
  BY <1>2, <1>3 DEF WSLogin

LEMMA CountsKept ==
  ASSUME CountsInv, [Next]_vars,
         \A f \in FESs : /\ ~WSFrontEnd(f) /\ ~FESConnect(f) /\ ~FESMessage(f)
                         /\ ~Erase(f) /\ ~FESCrash(f)
                         /\ \A p \in playing[f] : ~Leave(f, p),
         \A c \in Clients : ~Enter(c), ~WSCrash, ~WSLogin
  PROVE  CountsInv'
<1>1. UNCHANGED <<FESList, fesToWS, sees, pending, playing, wsToFES>>
  <2>1. CASE UNCHANGED vars
    BY <2>1 DEF vars, wsVars, fesVars, netVars
  <2>2. ASSUME NEW f \in FESs, FESLaunch(f)
        PROVE  UNCHANGED <<FESList, fesToWS, sees, pending, playing, wsToFES>>
    BY <2>2 DEF FESLaunch, FESStart, wsVars
  <2>3. CASE WSConnect \/ WSRestart
    BY <2>3 DEF WSConnect, WSRestart, WSConnectsLS, WSStarts, fesVars, wsVars, netVars
  <2>4. CASE LSShard \/ LSCrash \/ LSRestart \/ \E l \in broken : Notice(l)
    BY <2>4 DEF LSShard, LSCrash, LSRestart, Notice, fesVars, wsVars, netVars
  <2>5. CASE \E a \in Addrs : LSClient(a)
    BY <2>5 DEF LSClient, fesVars, wsVars
  <2>6. ASSUME NEW c \in Clients, NEW u \in Users, NEW a \in Addrs, Connect(c, u, a)
        PROVE  UNCHANGED <<FESList, fesToWS, sees, pending, playing, wsToFES>>
    BY <2>6 DEF Connect, fesVars, wsVars, netVars
  <2>7. ASSUME NEW c \in Clients,
               \/ Authenticated(c) \/ Ignores(c) \/ Choose(c) \/ Confirmed(c)
               \/ Quit(c) \/ Rejected(c)
        PROVE  UNCHANGED <<FESList, fesToWS, sees, pending, playing, wsToFES>>
    BY <2>7 DEF Authenticated, Ignores, Choose, Confirmed, Quit, Rejected,
                fesVars, wsVars, netVars
  <2> QED
    BY <2>1, <2>2, <2>3, <2>4, <2>5, <2>6, <2>7 DEF Next
<1> QED
  BY <1>1, CountsElsewhere

LEMMA CountsAlways == Spec => []CountsInv
<1>1. Init => CountsInv
  <2> SUFFICES ASSUME Init PROVE CountsInv
    OBVIOUS
  <2>1. FESList = <<>> /\ \A f \in FESs : ~sees[f] /\ fesToWS[f] = <<>>
    BY DEF Init, WSInit, NetInit
  <2>2. FESList \in Seq(Entries) /\ \A f \in FESs : ~InList(f) /\ Single(f)
    BY <2>1 DEF InList, Single
  <2>3. \A f \in FESs : EntryOK(f)
    BY <2>1, <2>2 DEF EntryOK
  <2>4. \A f \in FESs, what \in Counters : Agrees(what, f)
    BY <2>1 DEF Agrees
  <2> QED
    BY <2>2, <2>3, <2>4 DEF CountsInv, CountsOK
<1>2. TypeInv /\ KnownInv /\ CountsInv /\ [Next]_vars => CountsInv'
  BY CountsKept, FESMessageCounts, EraseCounts, EnterCounts, LeaveCounts, FESConnectCounts,
     FESCrashCounts, WSCrashCounts, WSFrontEndCounts, WSLoginCounts
<1> QED
  BY <1>1, <1>2, TypeInvAlways, KnownAlways, PTL DEF Spec

LEMMA QuietCounts ==
  ASSUME TypeInv, CountsInv, Quiet, NEW i \in DOMAIN FESList, NEW what \in Counters
  PROVE  Due(what, Has(what, FESList[i].SId), Count(what, FESList[i]))
<1> DEFINE e == FESList[i]
           f == e.SId
           n == Count(what, e)
<1>1. FESList \in Seq(Entries) /\ i \in 1 .. Len(FESList)
  BY DEF CountsInv
<1>2. e \in Entries
  BY <1>1
<1>3. f \in FESs /\ n \in Nat
  BY <1>2 DEF Entries, Count
<1>4. fesToWS[f] = <<>> /\ wsToFES[f] = <<>> /\ CountsOK(f)
  BY <1>3 DEF Quiet, CountsInv
<1>5. InList(f) /\ Begins(what, f, n)
  BY <1>1 DEF InList, Begins, InCount
<1>6. sees[f] /\ ~Asked(what, f)
  BY <1>4, <1>5 DEF CountsOK, EntryOK, Asked
<1>7. PICK p \in Nat : LeadsTo(what, <<>>, n, p) /\ Due(what, Has(what, f), p)
  BY <1>3, <1>4, <1>5, <1>6 DEF CountsOK, Agrees
<1> QED
  BY <1>7, LeadsEmpty

(* Whatever crashes, and whether or not cookies grow old: when nothing is  *)
(* in flight, the WS counts for each front end the cookies that it holds   *)
(* (PendingUsers), although its own count, the absolute counts of the      *)
(* front end and their changes overtake each other on the way.             *)
THEOREM PendingAgreeCorrect == Spec => []PendingAgree
<1>1. TypeInv /\ CountsInv => PendingAgree
  <2> SUFFICES ASSUME TypeInv, CountsInv, Quiet, NEW i \in DOMAIN FESList
               PROVE  FESList[i].NbPendingUsers = Cardinality(pending[FESList[i].SId])
    BY DEF PendingAgree
  <2> QED
    BY QuietCounts DEF Counters, Due, Has, Count
<1> QED
  BY <1>1, TypeInvAlways, CountsAlways, PTL

(* Likewise it counts at least the players of the front end (_ClientMap):  *)
(* it may count an arrival that addClient turned away, but no player whom  *)
(* a limit of players should know of is missed.                            *)
THEOREM NobodyIsUncountedCorrect == Spec => []NobodyIsUncounted
<1>1. TypeInv /\ CountsInv => NobodyIsUncounted
  <2> SUFFICES ASSUME TypeInv, CountsInv, Quiet, NEW i \in DOMAIN FESList
               PROVE  FESList[i].NbUser >= Cardinality(playing[FESList[i].SId])
    BY DEF NobodyIsUncounted
  <2> QED
    BY QuietCounts DEF Counters, Due, Has, Count
<1> QED
  BY <1>1, TypeInvAlways, CountsAlways, PTL
=============================================================================
