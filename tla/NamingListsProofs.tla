------------------------- MODULE NamingListsProofs -------------------------
(***************************************************************************)
(* Theorems about the lists of services that Naming keeps in agreement,    *)
(* for every value of its constants when the NS does not restart and no    *)
(* config file names an SId: broadcasts fit the lists they reach, lists    *)
(* agree at rest, restricted names are unique, one of two services dials.  *)
(* When nothing is killed either and acknowledgements come in time, every  *)
(* SId follows its lease.                                                  *)
(***************************************************************************)
EXTENDS NamingProofs

-----------------------------------------------------------------------------
(* What a service lists once it has read the first n messages of q, when   *)
(* it lists K now.                                                         *)
Adds(m, x) == \/ m.type = "RGB" /\ m.entry = x
              \/ m.type = "RG" /\ m.ok /\ x \in m.list
Drops(m, x) == m.type = "UNB" /\ m.sid = x.sid

Lists(K, q, n, x) ==
  \E j \in 0 .. n : /\ IF j = 0 THEN x \in K ELSE Adds(q[j], x)
                    /\ \A k \in j + 1 .. n : ~Drops(q[k], x)

(* The messages in q fit the list they find: the answer finds none, a      *)
(* service that comes up none under its SId, one that goes down is the one *)
(* that is listed.                                                         *)
OneEach(K) == \A x, y \in K : x.sid = y.sid => x = y

Fitting(K, q, j) ==
  /\ q[j].type = "RG" => j = 1 /\ K = {} /\ (q[j].ok => OneEach(q[j].list))
  /\ q[j].type = "RGB" => \A x \in Listed : Lists(K, q, j - 1, x) => x.sid # q[j].entry.sid
  /\ q[j].type = "UNB" =>
       \A x \in Listed : Lists(K, q, j - 1, x) /\ x.sid = q[j].sid => x.svc = q[j].svc

Fits(K, q) == OneEach(K) /\ \A j \in 1 .. Len(q) : Fitting(K, q, j)

(* The lists of the NS: the entries that do not wait, and all of them.     *)
Live == {AsListed(e) : e \in {f \in registered : ~f.waiting}}
Present == {AsListed(e) : e \in registered}
HasEntry(s) == \E x \in Live : x.svc = s
Current(s) == {x \in Live : SameNet(s, x.svc)}

-----------------------------------------------------------------------------
(* The inductive invariant.                                                *)

(* A service asks once, when it starts.                                    *)
Asks(s) == \E n \in 1 .. Len(toNS[s]) : toNS[s][n].type = "RG"
Asked(s) == phase[s] # "off" /\ ~Asks(s)
Answered(s) == \E n \in 1 .. Len(toSvc[s]) : toSvc[s][n].type = "RG" /\ toSvc[s][n].ok

StartOK(s) ==
  /\ Alive(s) => \A n \in 1 .. Len(toNS[s]) : toNS[s][n].type # "DISC"
  /\ Asks(s) /\ Alive(s) => phase[s] = "registering" /\ toSvc[s] = <<>>
  /\ phase[s] \in {"off", "registering"} => known[s] = {}

(* A service that owns its SId has an entry, and under this SId.           *)
EnrolledOK(s) ==
  /\ Alive(s) /\ s \notin killed /\ (phase[s] # "registering" \/ Answered(s)) => HasEntry(s)
  /\ Alive(s) => \A x \in Live : x.svc = s =>
       /\ phase[s] # "registering" => mySId[s] = x.sid
       /\ \A n \in 1 .. Len(toSvc[s]) :
            toSvc[s][n].type = "RG" => toSvc[s][n].ok /\ toSvc[s][n].sid = x.sid

(* A service that has an entry will list what the NS would send it now.    *)
ListOK(s) ==
  Alive(s) =>
    /\ Fits(known[s], toSvc[s])
    /\ HasEntry(s) => \A x \in Listed :
         Lists(known[s], toSvc[s], Len(toSvc[s]), x) <=> x \in Current(s)

Restricted(s, t) ==
  NameOf[s] = NameOf[t] => /\ NameOf[s] \notin ShardUnique
                           /\ NameOf[s] \in MachineUnique => MachineOf[s] # MachineOf[t]

RegistryOK ==
  /\ \A x \in Present : x.pos < nextPos /\ Asked(x.svc) /\ x.sid \in online
  /\ \A x, y \in Present : x.pos = y.pos => x = y
  /\ \A x, y \in Present : x # y => Restricted(x.svc, y.svc)

(* What a service was ever told of another is the one entry that it had.   *)
Mentions(t, x) ==
  x \in known[t] \/ \E n \in 1 .. Len(toSvc[t]) : Adds(toSvc[t][n], x)
Genuine(x) ==
  /\ Asked(x.svc) /\ x.pos < nextPos
  /\ \A y \in Present : y.svc = x.svc => y = x
MentionsOK(t) ==
  /\ \A x \in Listed : Mentions(t, x) => Genuine(x)
  /\ \A u \in dialed[t] : Asked(u)

(* A service is offered those that registered before it, and dials them.   *)
Offered(t, x) ==
  \/ phase[t] = "registering" /\
       \E n \in 1 .. Len(toSvc[t]) : toSvc[t][n].type = "RG" /\ Adds(toSvc[t][n], x)
  \/ phase[t] = "registered" /\ x \in known[t]
DialOK(t) ==
  Alive(t) => \A x, y \in Live : y.svc = t /\ SameNet(t, x.svc) =>
    /\ phase[t] # "running" => (Offered(t, x) <=> x.pos <= y.pos)
    /\ phase[t] = "running" /\ Alive(x.svc) /\ x # y =>
         (x.svc \in dialed[t] <=> x.pos < y.pos)

ListsInv ==
  /\ RegistryOK
  /\ \A s \in Services : StartOK(s) /\ EnrolledOK(s) /\ ListOK(s) /\ MentionsOK(s) /\ DialOK(s)

Shard == TypeInv /\ ConnInv /\ SIdInv

LEMMA ListsInit == Init => ListsInv
  BY DEF Init, NetInit, NSInit, ClientInit, ListsInv, RegistryOK, StartOK, EnrolledOK, ListOK,
     MentionsOK, DialOK, Live, Present, Alive, Asks, Mentions

-----------------------------------------------------------------------------
(* Reading and sending.                                                    *)

LEMMA ListsAppend ==
  ASSUME NEW M, NEW q \in Seq(M), NEW m, NEW K, NEW x
  PROVE  /\ \A n \in 0 .. Len(q) : Lists(K, Append(q, m), n, x) <=> Lists(K, q, n, x)
         /\ Lists(K, Append(q, m), Len(q) + 1, x)
              <=> Adds(m, x) \/ (Lists(K, q, Len(q), x) /\ ~Drops(m, x))
<1> DEFINE r == Append(q, m)
           n == Len(q)
<1>1. n \in Nat /\ \A k \in 1 .. n : r[k] = q[k]
  OBVIOUS
<1>2. r[n + 1] = m
  OBVIOUS
<1> HIDE DEF r, n
<1>3. \A k \in 0 .. n : Lists(K, r, k, x) <=> Lists(K, q, k, x)
  <2> TAKE k \in 0 .. n
  <2>1. \A j \in 1 .. k : r[j] = q[j]
    BY <1>1
  <2> HIDE DEF Adds
  <2> QED
    BY <2>1 DEF Lists
<1>4. ASSUME Lists(K, r, n + 1, x) PROVE Adds(m, x) \/ (Lists(K, q, n, x) /\ ~Drops(m, x))
  <2>1. PICK j \in 0 .. n + 1 : /\ IF j = 0 THEN x \in K ELSE Adds(r[j], x)
                                /\ \A k \in j + 1 .. n + 1 : ~Drops(r[k], x)
    BY <1>4 DEF Lists
  <2>2. CASE j = n + 1
    BY <1>1, <1>2, <2>1, <2>2
  <2>3. CASE j \in 0 .. n
    <3>1. ~Drops(m, x)
      BY <1>1, <1>2, <2>1, <2>3
    <3>2. Lists(K, r, n, x)
      BY <1>1, <2>1, <2>3 DEF Lists
    <3> QED
      BY <1>1, <1>3, <3>1, <3>2
  <2> QED
    BY <1>1, <2>2, <2>3
<1>5. ASSUME Adds(m, x) PROVE Lists(K, r, n + 1, x)
  <2>1. n + 1 \in 0 .. n + 1 /\ n + 1 # 0 /\ (n + 1) + 1 .. n + 1 = {}
    BY <1>1
  <2> QED
    BY <1>2, <1>5, <2>1 DEF Lists
<1>6. ASSUME Lists(K, q, n, x), ~Drops(m, x) PROVE Lists(K, r, n + 1, x)
  <2>1. Lists(K, r, n, x)
    BY <1>1, <1>3, <1>6
  <2>2. PICK j \in 0 .. n : /\ IF j = 0 THEN x \in K ELSE Adds(r[j], x)
                            /\ \A k \in j + 1 .. n : ~Drops(r[k], x)
    BY <2>1 DEF Lists
  <2>3. \A k \in j + 1 .. n + 1 : ~Drops(r[k], x)
    <3>1. \A k \in j + 1 .. n + 1 : k \in j + 1 .. n \/ k = n + 1
      BY <1>1
    <3> QED
      BY <1>2, <1>6, <2>2, <3>1
  <2>4. j \in 0 .. n + 1
    BY <1>1
  <2> QED
    BY <2>2, <2>3, <2>4 DEF Lists
<1> QED
  BY <1>1, <1>3, <1>4, <1>5, <1>6 DEF r, n

(* The list once the head has been read is the list that its reader has.   *)
LEMMA ListsTail ==
  ASSUME NEW M, NEW q \in Seq(M), q # <<>>, NEW K, NEW L, NEW x,
         x \in L <=> Adds(q[1], x) \/ (x \in K /\ ~Drops(q[1], x))
  PROVE  \A n \in 0 .. Len(Tail(q)) : Lists(L, Tail(q), n, x) <=> Lists(K, q, n + 1, x)
<1> DEFINE r == Tail(q)
<1>1. Len(q) \in Nat \ {0} /\ Len(r) = Len(q) - 1 /\ \A k \in 1 .. Len(r) : r[k] = q[k + 1]
  OBVIOUS
<1> HIDE DEF r
<1> SUFFICES ASSUME NEW n \in 0 .. Len(r)
             PROVE  Lists(L, r, n, x) <=> Lists(K, q, n + 1, x)
  BY DEF r
<1>2. ASSUME Lists(L, r, n, x) PROVE Lists(K, q, n + 1, x)
  <2>1. PICK j \in 0 .. n : /\ IF j = 0 THEN x \in L ELSE Adds(r[j], x)
                            /\ \A k \in j + 1 .. n : ~Drops(r[k], x)
    BY <1>2 DEF Lists
  <2>2. \A k \in j + 2 .. n + 1 : ~Drops(q[k], x)
    <3> TAKE k \in j + 2 .. n + 1
    <3>1. k - 1 \in j + 1 .. n /\ k - 1 \in 1 .. Len(r) /\ (k - 1) + 1 = k
      BY <1>1
    <3> QED
      BY <1>1, <2>1, <3>1
  <2>3. CASE j # 0 \/ Adds(q[1], x)
    <3>1. Adds(q[j + 1], x)
      BY <1>1, <2>1, <2>3
    <3>2. j + 1 \in 0 .. n + 1 /\ j + 1 # 0 /\ (j + 1) + 1 = j + 2
      BY <1>1
    <3> QED
      BY <2>2, <3>1, <3>2 DEF Lists
  <2>4. CASE j = 0 /\ x \in K /\ ~Drops(q[1], x)
    <3>1. \A k \in 0 + 1 .. n + 1 : ~Drops(q[k], x)
      <4>1. \A k \in 0 + 1 .. n + 1 : k = 1 \/ k \in j + 2 .. n + 1
        BY <1>1, <2>4
      <4> QED
        BY <2>2, <2>4, <4>1
    <3>2. 0 \in 0 .. n + 1
      BY <1>1
    <3> QED
      BY <2>4, <3>1, <3>2 DEF Lists
  <2> QED
    BY <2>1, <2>3, <2>4
<1>3. ASSUME Lists(K, q, n + 1, x) PROVE Lists(L, r, n, x)
  <2>1. PICK j \in 0 .. n + 1 : /\ IF j = 0 THEN x \in K ELSE Adds(q[j], x)
                                /\ \A k \in j + 1 .. n + 1 : ~Drops(q[k], x)
    BY <1>3 DEF Lists
  <2>2. \A k \in 1 .. n : k + 1 \in j + 1 .. n + 1 => ~Drops(r[k], x)
    BY <1>1, <2>1
  <2>3. CASE j \in {0, 1}
    <3>1. x \in L
      BY <1>1, <2>1, <2>3
    <3>2. \A k \in 0 + 1 .. n : ~Drops(r[k], x)
      BY <1>1, <2>2, <2>3
    <3>3. 0 \in 0 .. n
      BY <1>1
    <3> QED
      BY <3>1, <3>2, <3>3 DEF Lists
  <2>4. CASE j \in 2 .. n + 1
    <3>1. j - 1 \in 0 .. n /\ j - 1 # 0 /\ r[j - 1] = q[j]
      BY <1>1, <2>4
    <3>2. \A k \in (j - 1) + 1 .. n : ~Drops(r[k], x)
      BY <1>1, <2>2, <2>4
    <3> QED
      BY <2>1, <2>4, <3>1, <3>2 DEF Lists
  <2> QED
    BY <1>1, <2>3, <2>4
<1> QED
  BY <1>2, <1>3

LEMMA ListsNow == \A K, q, x : Lists(K, q, 0, x) <=> x \in K
  BY DEF Lists

(* A queue that fits goes on fitting when a message that fits is sent.     *)
LEMMA FitsAppend ==
  ASSUME NEW q \in Seq(SvcMessages), NEW m \in SvcMessages, NEW K, Fits(K, q),
         m.type = "RG" => q = <<>> /\ K = {} /\ (m.ok => OneEach(m.list)),
         m.type = "RGB" =>
           \A x \in Listed : Lists(K, q, Len(q), x) => x.sid # m.entry.sid,
         m.type = "UNB" =>
           \A x \in Listed : Lists(K, q, Len(q), x) /\ x.sid = m.sid => x.svc = m.svc
  PROVE  Fits(K, Append(q, m))
<1> DEFINE r == Append(q, m)
           n == Len(q)
<1>1. /\ n \in Nat /\ Len(r) = n + 1 /\ r[n + 1] = m /\ \A j \in 1 .. n : r[j] = q[j]
      /\ q = <<>> => n = 0
  OBVIOUS
<1>2. \A x : \A j \in 0 .. n : Lists(K, r, j, x) <=> Lists(K, q, j, x)
  BY ListsAppend
<1> HIDE DEF r, n
<1>3. ASSUME NEW j \in 1 .. n PROVE Fitting(K, r, j)
  <2>1. Fitting(K, q, j) /\ r[j] = q[j] /\ j - 1 \in 0 .. n
    BY <1>1 DEF Fits, n
  <2>2. \A x : Lists(K, r, j - 1, x) <=> Lists(K, q, j - 1, x)
    BY <1>2, <2>1
  <2> QED
    BY <2>1, <2>2 DEF Fitting
<1>4. Fitting(K, r, n + 1)
  <2>1. (n + 1) - 1 = n /\ n \in 0 .. n
    BY <1>1
  <2>2. \A x : Lists(K, r, (n + 1) - 1, x) <=> Lists(K, q, Len(q), x)
    BY <1>2, <2>1 DEF n
  <2> QED
    BY <1>1, <2>2 DEF Fitting
<1>5. \A j \in 1 .. Len(r) : j \in 1 .. n \/ j = n + 1
  BY <1>1
<1>6. OneEach(K)
  BY DEF Fits
<1> QED
  BY <1>3, <1>4, <1>5, <1>6 DEF Fits, r

(* It goes on fitting when its reader does what its head says.             *)
LEMMA FitsTail ==
  ASSUME NEW q \in Seq(SvcMessages), q # <<>>, NEW K \in SUBSET Listed,
         NEW L \in SUBSET Listed, Fits(K, q),
         \A x \in Listed : x \in L <=> Adds(q[1], x) \/ (x \in K /\ ~Drops(q[1], x))
  PROVE  /\ Fits(L, Tail(q))
         /\ \A x \in Listed :
              Lists(L, Tail(q), Len(Tail(q)), x) <=> Lists(K, q, Len(q), x)
<1> DEFINE r == Tail(q)
<1>1. /\ Len(q) \in Nat \ {0} /\ Len(r) = Len(q) - 1
      /\ \A j \in 1 .. Len(r) : r[j] = q[j + 1]
  OBVIOUS
<1>2. \A x \in Listed : \A n \in 0 .. Len(r) : Lists(L, r, n, x) <=> Lists(K, q, n + 1, x)
  BY ListsTail
<1> HIDE DEF r
<1>3. OneEach(L)
  <2>1. Fitting(K, q, 1) /\ OneEach(K)
    BY <1>1 DEF Fits
  <2>2. \A x \in K : Lists(K, q, 1 - 1, x)
    BY ListsNow
  <2> SUFFICES ASSUME NEW x \in L, NEW y \in L, x.sid = y.sid PROVE x = y
    BY DEF OneEach
  <2>3. CASE q[1].type = "RG"
    <3>1. K = {} /\ (q[1].ok => OneEach(q[1].list))
      BY <2>1, <2>3 DEF Fitting
    <3>2. q[1].ok /\ x \in q[1].list /\ y \in q[1].list
      BY <2>3, <3>1 DEF Adds
    <3> QED
      BY <3>1, <3>2 DEF OneEach
  <2>4. CASE q[1].type = "RGB"
    <3>1. \A z \in K : z.sid # q[1].entry.sid
      BY <2>1, <2>2, <2>4 DEF Fitting
    <3>2. \A z \in L : z = q[1].entry \/ z \in K
      BY <2>4 DEF Adds
    <3> QED
      BY <2>1, <3>1, <3>2 DEF OneEach
  <2>5. CASE q[1].type \notin {"RG", "RGB"}
    BY <2>1, <2>5 DEF Adds, OneEach
  <2> QED
    BY <2>3, <2>4, <2>5
<1>4. ASSUME NEW j \in 1 .. Len(r) PROVE Fitting(L, r, j)
  <2>1. /\ j + 1 \in 1 .. Len(q) /\ j + 1 # 1 /\ j - 1 \in 0 .. Len(r)
        /\ (j - 1) + 1 = (j + 1) - 1 /\ r[j] = q[j + 1]
    BY <1>1
  <2>2. Fitting(K, q, j + 1)
    BY <2>1 DEF Fits
  <2>3. \A x \in Listed : Lists(L, r, j - 1, x) <=> Lists(K, q, (j + 1) - 1, x)
    BY <1>2, <2>1
  <2> QED
    BY <2>1, <2>2, <2>3 DEF Fitting
<1>5. Len(r) \in 0 .. Len(r) /\ Len(r) + 1 = Len(q)
  BY <1>1
<1> QED
  BY <1>2, <1>3, <1>4, <1>5 DEF Fits, r

-----------------------------------------------------------------------------
(* The list of the NS.                                                     *)

LEMMA EntryFacts ==
  ASSUME Shard, NEW e \in registered
  PROVE  /\ e \in CServiceEntry /\ AsListed(e) \in Listed
         /\ AsListed(e).pos = e.pos /\ AsListed(e).sid = e.sid /\ AsListed(e).svc = e.svc
         /\ AsListed(e) \in Present
         /\ AsListed(e) \in Live <=> ~e.waiting
<1>1. e \in CServiceEntry /\ AsListed(e) \in Listed
  BY ListedType DEF Shard, TypeInv, TypeOK, NSTypeOK
<1>2. \A f \in registered : AsListed(f).sid = f.sid /\ AsListed(f).pos = f.pos /\ AsListed(f).svc = f.svc
  BY DEF AsListed
<1>3. AsListed(e) \in Live <=> ~e.waiting
  <2>1. \A f \in registered : AsListed(f) = AsListed(e) => f = e
    BY <1>2 DEF Shard, SIdInv, EntriesHaveDistinctSIds
  <2> QED
    BY <2>1 DEF Live
<1> QED
  BY <1>1, <1>2, <1>3 DEF Present

LEMMA RegistryFacts ==
  ASSUME Shard
  PROVE  /\ Live \subseteq Present /\ Present \subseteq Listed
         /\ \A x, y \in Present : x.sid = y.sid \/ x.svc = y.svc => x = y
         /\ \A x \in Live : sock[x.svc]
         /\ \A s \in Services : NoEntryOf(s) <=> \A x \in Present : x.svc # s
<1>1. \A x \in Present : \E e \in registered : x = AsListed(e)
  BY DEF Present
<1>2. \A x \in Live : \E e \in registered : x = AsListed(e) /\ ~e.waiting
  BY DEF Live
<1>3. Live \subseteq Present /\ Present \subseteq Listed
  BY <1>1, <1>2, EntryFacts
<1>4. \A x, y \in Present : x.sid = y.sid \/ x.svc = y.svc => x = y
  BY <1>1, EntryFacts DEF Shard, SIdInv, EntriesHaveDistinctSIds, ConnInv, OneEntryEach
<1>5. \A x \in Live : sock[x.svc]
  BY <1>2, EntryFacts DEF Shard, ConnInv, LiveEntriesAreConnected
<1>6. \A s \in Services : NoEntryOf(s) <=> \A x \in Present : x.svc # s
  BY <1>1, EntryFacts DEF NoEntryOf
<1> QED
  BY <1>3, <1>4, <1>5, <1>6

(* doRemove takes the entry off the list of those that do not wait.        *)
LEMMA RemoveRegistry ==
  ASSUME Shard, NEW e \in registered, doRemove(e)
  PROVE  Live' = Live \ {AsListed(e)} /\ Present' \subseteq Present
<1> DEFINE removed == [e EXCEPT !.waiting = TRUE, !.late = FALSE, !.acks = AcksAwaited(e)]
           rest(f) == [f EXCEPT !.acks[e.sid] = 0]
<1>1. /\ removed.waiting /\ AsListed(removed) = AsListed(e)
      /\ \A f \in registered : rest(f).waiting = f.waiting /\ AsListed(rest(f)) = AsListed(f)
  BY EntryFacts DEF CServiceEntry, AsListed
<1>2. \/ registered' = {rest(f) : f \in registered \ {e}}
      \/ registered' = {rest(f) : f \in registered \ {e}} \cup {removed}
  BY DEF doRemove
<1>3. \A f \in registered : AsListed(f) = AsListed(e) => f = e
  BY EntryFacts DEF Shard, SIdInv, EntriesHaveDistinctSIds
<1> HIDE DEF removed, rest
<1>4. Live' = Live \ {AsListed(e)}
  <2>1. Live' = {AsListed(g) : g \in {f \in registered' : ~f.waiting}}
    BY DEF Live, AsListed
  <2>2. {f \in registered' : ~f.waiting} = {rest(f) : f \in {g \in registered \ {e} : ~g.waiting}}
    BY <1>1, <1>2
  <2>3. Live' = {AsListed(f) : f \in {g \in registered \ {e} : ~g.waiting}}
    BY <1>1, <2>1, <2>2
  <2> QED
    BY <1>3, <2>3 DEF Live
<1>5. Present' \subseteq Present
  <2>1. Present' = {AsListed(g) : g \in registered'}
    BY DEF Present, AsListed
  <2> QED
    BY <1>1, <1>2, <2>1 DEF Present
<1> QED
  BY <1>4, <1>5

(* The steps that only tidy the entries that wait.                         *)
Tidied ==
  /\ \A f \in registered : ~f.waiting => f \in registered'
  /\ \A f \in registered' : \/ f \in registered
                            \/ f.waiting /\ \E e \in registered : AsListed(f) = AsListed(e)

LEMMA TidyRegistry ==
  ASSUME Tidied
  PROVE  Live' = Live /\ Present' \subseteq Present
<1>1. /\ Live' = {AsListed(g) : g \in {f \in registered' : ~f.waiting}}
      /\ Present' = {AsListed(g) : g \in registered'}
  BY DEF Live, Present, AsListed
<1>2. {f \in registered' : ~f.waiting} = {f \in registered : ~f.waiting}
  BY DEF Tidied
<1>3. Live' = Live
  BY <1>1, <1>2 DEF Live
<1>4. Present' \subseteq Present
  BY <1>1 DEF Tidied, Present
<1> QED
  BY <1>3, <1>4

(* doRegister puts a new entry at the end.                                 *)
Newcomer(s, i) == AsListed(NewEntry(s, i))

LEMMA GrantRegistry ==
  ASSUME Shard, NEW s \in Services, NEW i \in SIds, Grant(s, i)
  PROVE  /\ Live' = Live \cup {Newcomer(s, i)} /\ Present' = Present \cup {Newcomer(s, i)}
         /\ Newcomer(s, i) \in Listed
         /\ Newcomer(s, i).pos = nextPos /\ Newcomer(s, i).sid = i /\ Newcomer(s, i).svc = s
<1>1. /\ Live' = {AsListed(g) : g \in {f \in registered' : ~f.waiting}}
      /\ Present' = {AsListed(g) : g \in registered'}
  BY DEF Live, Present, AsListed
<1>2. registered' = registered \cup {NewEntry(s, i)} /\ ~NewEntry(s, i).waiting
  BY DEF Grant, NewEntry
<1>3. {f \in registered' : ~f.waiting} = {f \in registered : ~f.waiting} \cup {NewEntry(s, i)}
  BY <1>2
<1>4. Live' = Live \cup {Newcomer(s, i)} /\ Present' = Present \cup {Newcomer(s, i)}
  BY <1>1, <1>2, <1>3 DEF Live, Present, Newcomer
<1>5. /\ Newcomer(s, i).pos = nextPos /\ Newcomer(s, i).sid = i /\ Newcomer(s, i).svc = s
  BY DEF Newcomer, NewEntry, AsListed
<1>6. Newcomer(s, i) \in Listed
  BY NewEntryType, ListedType DEF Newcomer, Shard
<1> QED
  BY <1>4, <1>5, <1>6

-----------------------------------------------------------------------------
(* What one service has, told and was told.                                *)
Same(t) ==
  /\ phase'[t] = phase[t] /\ toSvc'[t] = toSvc[t] /\ known'[t] = known[t]
  /\ mySId'[t] = mySId[t] /\ dialed'[t] = dialed[t]

LEMMA SameStart ==
  ASSUME NEW t, Same(t), toNS'[t] = toNS[t], StartOK(t) PROVE StartOK(t)'
  BY DEF Same, StartOK, Alive, Asks

LEMMA SameAsked ==
  ASSUME NEW t, Same(t), toNS'[t] = toNS[t] PROVE Asked(t)' <=> Asked(t)
  BY DEF Same, Asked, Asks

LEMMA SameEnrolled ==
  ASSUME NEW t, Same(t), EnrolledOK(t), Live' = Live, killed' = killed
  PROVE  EnrolledOK(t)'
<1>1. Alive(t)' = Alive(t) /\ Answered(t)' = Answered(t) /\ HasEntry(t)' = HasEntry(t)
  BY DEF Same, Alive, Answered, HasEntry
<1> QED
  BY <1>1 DEF EnrolledOK, Same

LEMMA SameList ==
  ASSUME NEW t, Same(t), ListOK(t), Live' = Live
  PROVE  ListOK(t)'
<1>1. Alive(t)' = Alive(t) /\ Current(t)' = Current(t) /\ HasEntry(t)' = HasEntry(t)
  BY DEF Same, Alive, Current, HasEntry, SameNet
<1> QED
  BY <1>1 DEF ListOK, Same

(* Nobody takes back that it asked to be registered.                       *)
AskedStays == \A u \in Services : Asked(u) => Asked(u)'

LEMMA GenuineStays ==
  ASSUME Shard, AskedStays, Present' \subseteq Present, nextPos' = nextPos
  PROVE  \A x \in Listed : Genuine(x) => Genuine(x)'
<1>1. \A x \in Listed : x.svc \in Services
  BY DEF Listed
<1> QED
  BY <1>1 DEF Genuine, AskedStays

LEMMA SameMentions ==
  ASSUME Shard, NEW t \in Services, AskedStays, MentionsOK(t),
         \A x \in Listed : Genuine(x) => Genuine(x)',
         \A x \in Listed : Mentions(t, x)' => Mentions(t, x) \/ Genuine(x)',
         dialed'[t] = dialed[t]
  PROVE  MentionsOK(t)'
<1>1. dialed[t] \subseteq Services
  BY DEF Shard, TypeInv, TypeOK, ClientTypeOK
<1> QED
  BY <1>1 DEF MentionsOK, AskedStays

LEMMA SameMention ==
  ASSUME NEW t, Same(t), NEW x PROVE Mentions(t, x)' <=> Mentions(t, x)
  BY DEF Same, Mentions

(* Nobody that has an entry comes alive.                                   *)
NoneRises == \A x \in Live : Alive(x.svc)' => Alive(x.svc)

LEMMA SameDial ==
  ASSUME NEW t, Same(t), DialOK(t), Live' = Live, NoneRises
  PROVE  DialOK(t)'
<1>1. \A x : Offered(t, x)' <=> Offered(t, x)
  BY DEF Same, Offered
<1>2. Alive(t)' = Alive(t) /\ \A u : SameNet(t, u)' = SameNet(t, u)
  BY DEF Same, Alive, SameNet
<1> QED
  BY <1>1, <1>2 DEF DialOK, NoneRises, Same

LEMMA RegistryStays ==
  ASSUME Shard, RegistryOK, AskedStays, Present' \subseteq Present, nextPos' = nextPos,
         online' = online
  PROVE  RegistryOK'
<1>1. \A x \in Present : x.svc \in Services
  BY RegistryFacts DEF Listed
<1>2. \A u, v : Restricted(u, v)' = Restricted(u, v)
  BY DEF Restricted
<1> QED
  BY <1>1, <1>2 DEF RegistryOK, AskedStays

-----------------------------------------------------------------------------
(* Steps of a service.                                                     *)

OwnStep(s) ==
  /\ registered' = registered /\ online' = online /\ nextPos' = nextPos /\ killed' = killed
  /\ \A t \in Services : t # s => Same(t) /\ toNS'[t] = toNS[t]

LEMMA OwnKeeps ==
  ASSUME Shard, ListsInv, NEW s \in Services, OwnStep(s), AskedStays, NoneRises,
         StartOK(s)', EnrolledOK(s)', ListOK(s)',
         \A x \in Listed : Mentions(s, x)' => Mentions(s, x),
         \A u \in dialed'[s] : u \in Services /\ Asked(u),
         DialOK(s)'
  PROVE  ListsInv'
<1>1. Live' = Live /\ Present' = Present
  BY DEF OwnStep, Live, Present, AsListed
<1>2. RegistryOK'
  BY <1>1, RegistryStays DEF OwnStep, ListsInv
<1>3. \A x \in Listed : Genuine(x) => Genuine(x)'
  BY <1>1, GenuineStays DEF OwnStep
<1>4. MentionsOK(s)'
  <2>1. \A x \in Listed : Mentions(s, x)' => Genuine(x)'
    BY <1>3 DEF ListsInv, MentionsOK
  <2>2. \A u \in dialed'[s] : Asked(u)'
    BY DEF AskedStays
  <2> QED
    BY <2>1, <2>2 DEF MentionsOK
<1>5. ASSUME NEW t \in Services, t # s
      PROVE  StartOK(t)' /\ EnrolledOK(t)' /\ ListOK(t)' /\ MentionsOK(t)' /\ DialOK(t)'
  <2>1. Same(t) /\ toNS'[t] = toNS[t] /\ killed' = killed
    BY <1>5 DEF OwnStep
  <2>2. StartOK(t) /\ EnrolledOK(t) /\ ListOK(t) /\ MentionsOK(t) /\ DialOK(t)
    BY DEF ListsInv
  <2>3. MentionsOK(t)'
    <3>1. \A x \in Listed : Mentions(t, x)' => Mentions(t, x)
      BY <2>1, SameMention
    <3>2. dialed'[t] = dialed[t]
      BY <2>1 DEF Same
    <3> QED
      BY <1>3, <2>2, <3>1, <3>2, SameMentions
  <2> QED
    BY <1>1, <2>1, <2>2, <2>3, SameStart, SameEnrolled, SameList, SameDial
<1> QED
  BY <1>2, <1>4, <1>5 DEF ListsInv

(* What a service sends does not ask again.                                *)
Tells(s) ==
  /\ phase[s] # "off" /\ phase'[s] # "off"
  /\ \/ toNS'[s] = toNS[s]
     \/ \E m : m.type # "RG" /\ toNS'[s] = Append(toNS[s], m)

LEMMA TellsAsked ==
  ASSUME Shard, NEW s \in Services, OwnStep(s), Tells(s)
  PROVE  AskedStays /\ (Asks(s)' => Asks(s))
<1>1. toNS[s] \in Seq(NSMessages)
  BY DEF Shard, TypeInv, TypeOK, NetTypeOK
<1>2. Asks(s)' => Asks(s)
  <2>1. CASE toNS'[s] = toNS[s]
    BY <2>1 DEF Asks
  <2>2. ASSUME NEW m, m.type # "RG", toNS'[s] = Append(toNS[s], m) PROVE Asks(s)' => Asks(s)
    <3>1. \A n \in 1 .. Len(toNS'[s]) :
            \/ n \in 1 .. Len(toNS[s]) /\ toNS'[s][n] = toNS[s][n]
            \/ toNS'[s][n] = m
      BY <1>1, <2>2
    <3> QED
      BY <2>2, <3>1 DEF Asks
  <2> QED
    BY <2>1, <2>2 DEF Tells
<1>3. ASSUME NEW u \in Services, Asked(u) PROVE Asked(u)'
  <2>1. CASE u = s
    BY <1>2, <1>3, <2>1 DEF Asked, Tells
  <2>2. CASE u # s
    BY <1>3, <2>2, SameAsked DEF OwnStep
  <2> QED
    BY <2>1, <2>2
<1> QED
  BY <1>2, <1>3 DEF AskedStays

(* A process that ends.                                                    *)
LEMMA DyingKeeps ==
  ASSUME Shard, ListsInv, NEW s \in Services, OwnStep(s), Tells(s),
         phase'[s] = "dead", toSvc'[s] = <<>>, known'[s] = known[s], dialed'[s] = dialed[s]
  PROVE  ListsInv'
<1>1. AskedStays
  BY TellsAsked
<1>2. ~Alive(s)'
  BY DEF Alive
<1>3. NoneRises
  <2>1. \A x \in Live : x.svc \in Services
    BY RegistryFacts DEF Listed
  <2> QED
    BY <1>2, <2>1 DEF NoneRises, OwnStep, Same, Alive
<1>4. StartOK(s)' /\ EnrolledOK(s)' /\ ListOK(s)' /\ DialOK(s)'
  <2>1. StartOK(s)'
    BY <1>2 DEF StartOK
  <2> QED
    BY <1>2, <2>1 DEF EnrolledOK, ListOK, DialOK
<1>5. \A x \in Listed : Mentions(s, x)' => Mentions(s, x)
  BY DEF Mentions
<1>6. \A u \in dialed'[s] : u \in Services /\ Asked(u)
  BY DEF ListsInv, MentionsOK, Shard, TypeInv, TypeOK, ClientTypeOK
<1> QED
  BY <1>1, <1>3, <1>4, <1>5, <1>6, OwnKeeps

(* A service that starts.                                                  *)
LEMMA StartKeeps ==
  ASSUME Shard, ListsInv, NEW s \in Services, Start(s)
  PROVE  ListsInv'
<1> USE DEF Start, NSAccept, ClientStart, envVars
<1>0. /\ phase \in [Services -> {"off", "registering", "registered", "running", "dead"}]
      /\ toNS \in [Services -> Seq(NSMessages)]
  BY DEF Shard, TypeInv, TypeOK, NetTypeOK, ClientTypeOK
<1>1. OwnStep(s)
  BY <1>0 DEF OwnStep, Same
<1>2. toNS[s] = <<>> /\ toSvc[s] = <<>> /\ \A x \in Present : x.svc # s
  BY RegistryFacts DEF Shard, ConnInv, OffIsUnknown, UnreadIsOpen, UnsentIsOpen
<1>3. known[s] = {}
  BY DEF ListsInv, StartOK
<1>4. phase'[s] = "registering" /\ toSvc'[s] = <<>> /\ known'[s] = {} /\ dialed'[s] = dialed[s]
  BY <1>0, <1>2, <1>3
<1>5. /\ Len(toNS'[s]) = 1 /\ toNS'[s][1].type = "RG"
  BY <1>0, <1>2 DEF RegMsg
<1>6. AskedStays
  <2>1. ~Asked(s)
    BY DEF Asked
  <2> QED
    BY <1>1, <2>1, SameAsked DEF AskedStays, OwnStep
<1>7. NoneRises
  <2>1. \A x \in Live : x.svc \in Services /\ x.svc # s
    BY <1>2, RegistryFacts DEF Listed
  <2> QED
    BY <1>1, <2>1 DEF NoneRises, OwnStep, Same, Alive
<1>8. Live' = Live
  BY DEF Live, AsListed
<1>9. StartOK(s)'
  BY <1>4, <1>5 DEF StartOK
<1>10. EnrolledOK(s)'
  <2>1. ~Answered(s)'
    BY <1>4 DEF Answered
  <2>2. \A x \in Live' : x.svc # s
    BY <1>2, <1>8, RegistryFacts
  <2> QED
    BY <1>4, <2>1, <2>2 DEF EnrolledOK
<1>11. ListOK(s)'
  <2>1. ~HasEntry(s)'
    BY <1>2, <1>8, RegistryFacts DEF HasEntry
  <2>2. Fits(known'[s], toSvc'[s])
    BY <1>4 DEF Fits, OneEach
  <2> QED
    BY <2>1, <2>2 DEF ListOK
<1>12. DialOK(s)'
  BY <1>2, <1>8, RegistryFacts DEF DialOK
<1>13. \A x \in Listed : Mentions(s, x)' => Mentions(s, x)
  BY <1>4 DEF Mentions
<1>14. \A u \in dialed'[s] : u \in Services /\ Asked(u)
  BY <1>4 DEF ListsInv, MentionsOK, Shard, TypeInv, TypeOK, ClientTypeOK
<1> QED
  BY <1>1, <1>6, <1>7, <1>9, <1>10, <1>11, <1>12, <1>13, <1>14, OwnKeeps

(* A service that reads the head of its queue and does what it says.       *)
Reading(s) ==
  /\ OwnStep(s) /\ Alive(s) /\ phase'[s] \in {"registered", "running"}
  /\ toSvc[s] # <<>> /\ toSvc'[s] = Tail(toSvc[s]) /\ dialed'[s] = dialed[s]
  /\ \/ toNS'[s] = toNS[s]
     \/ \E m : m.type = "ACK_UNI" /\ toNS'[s] = Append(toNS[s], m)
  /\ known'[s] \in SUBSET Listed
  /\ \A x \in Listed :
       x \in known'[s] <=> Adds(toSvc[s][1], x) \/ (x \in known[s] /\ ~Drops(toSvc[s][1], x))

LEMMA ReadingKeeps ==
  ASSUME Shard, ListsInv, NEW s \in Services, Reading(s), EnrolledOK(s)', DialOK(s)'
  PROVE  ListsInv'
<1>0. /\ toSvc[s] \in Seq(SvcMessages) /\ toNS[s] \in Seq(NSMessages)
      /\ known[s] \in SUBSET Listed /\ dialed[s] \in SUBSET Services
  BY DEF Shard, TypeInv, TypeOK, NetTypeOK, ClientTypeOK
<1>1. OwnStep(s) /\ Tells(s)
  <2>1. \A m : m.type = "ACK_UNI" => m.type # "RG"
    OBVIOUS
  <2> QED
    BY <2>1 DEF Reading, Tells, Alive
<1>2. AskedStays /\ (Asks(s)' => Asks(s))
  BY <1>1, TellsAsked
<1>3. NoneRises
  <2>1. \A x \in Live : x.svc \in Services
    BY RegistryFacts DEF Listed
  <2>2. \A u \in Services : Alive(u)' => Alive(u)
    BY <1>1 DEF OwnStep, Same, Alive, Reading
  <2> QED
    BY <2>1, <2>2 DEF NoneRises
<1>4. StartOK(s) /\ ListOK(s) /\ Alive(s)
  BY DEF ListsInv, Reading
<1>5. StartOK(s)'
  <2>1. \A n \in 1 .. Len(toNS'[s]) : toNS'[s][n].type # "DISC"
    <3>1. CASE toNS'[s] = toNS[s]
      BY <1>4, <3>1 DEF StartOK
    <3>2. ASSUME NEW m, m.type = "ACK_UNI", toNS'[s] = Append(toNS[s], m)
          PROVE  \A n \in 1 .. Len(toNS'[s]) : toNS'[s][n].type # "DISC"
      <4>1. \A n \in 1 .. Len(toNS'[s]) :
              \/ n \in 1 .. Len(toNS[s]) /\ toNS'[s][n] = toNS[s][n]
              \/ toNS'[s][n] = m
        BY <1>0, <3>2
      <4> QED
        BY <1>4, <3>2, <4>1 DEF StartOK
    <3> QED
      BY <3>1, <3>2 DEF Reading
  <2>2. ~Asks(s)'
    BY <1>2, <1>4 DEF StartOK, Reading
  <2> QED
    BY <2>1, <2>2 DEF StartOK, Reading
<1>6. ListOK(s)'
  <2>1. Live' = Live
    BY <1>1 DEF OwnStep, Live, AsListed
  <2>2. Current(s)' = Current(s) /\ HasEntry(s)' = HasEntry(s)
    BY <2>1 DEF Current, HasEntry, SameNet
  <2>3. Fits(known[s], toSvc[s])
    BY <1>4 DEF ListOK
  <2>4. /\ Fits(known'[s], Tail(toSvc[s]))
        /\ \A x \in Listed :
             Lists(known'[s], Tail(toSvc[s]), Len(Tail(toSvc[s])), x)
               <=> Lists(known[s], toSvc[s], Len(toSvc[s]), x)
    BY <1>0, <2>3, FitsTail DEF Reading
  <2>5. /\ Fits(known'[s], toSvc'[s])
        /\ \A x \in Listed :
             Lists(known'[s], toSvc'[s], Len(toSvc'[s]), x)
               <=> Lists(known[s], toSvc[s], Len(toSvc[s]), x)
    BY <2>4 DEF Reading
  <2> QED
    BY <1>4, <2>2, <2>5 DEF ListOK
<1>7. \A x \in Listed : Mentions(s, x)' => Mentions(s, x)
  <2> TAKE x \in Listed
  <2>1. \A n \in 1 .. Len(Tail(toSvc[s])) :
          n + 1 \in 1 .. Len(toSvc[s]) /\ Tail(toSvc[s])[n] = toSvc[s][n + 1]
    BY <1>0, TailAt DEF Reading
  <2>2. 1 \in 1 .. Len(toSvc[s])
    BY <1>0, HeadAt DEF Reading
  <2>3. x \in known'[s] => Mentions(s, x)
    BY <2>2 DEF Reading, Mentions
  <2>4. ASSUME NEW n \in 1 .. Len(toSvc'[s]), Adds(toSvc'[s][n], x) PROVE Mentions(s, x)
    <3>1. n + 1 \in 1 .. Len(toSvc[s]) /\ toSvc'[s][n] = toSvc[s][n + 1]
      BY <2>1 DEF Reading
    <3> QED
      BY <2>4, <3>1 DEF Mentions
  <2> QED
    BY <2>3, <2>4 DEF Mentions
<1>8. \A u \in dialed'[s] : u \in Services /\ Asked(u)
  BY <1>0 DEF ListsInv, MentionsOK, Reading
<1> QED
  BY <1>1, <1>2, <1>3, <1>5, <1>6, <1>7, <1>8, OwnKeeps

(* A service takes the SId of its entry from the answer.                   *)
LEMMA ReadingEnrolled ==
  ASSUME Shard, ListsInv, NEW s \in Services, Reading(s),
         \/ phase[s] # "registering" /\ mySId'[s] = mySId[s]
         \/ /\ toSvc[s][1].type = "RG" /\ toSvc[s][1].ok
            /\ mySId'[s] = toSvc[s][1].sid
  PROVE  EnrolledOK(s)'
<1>0. toSvc[s] \in Seq(SvcMessages)
  BY DEF Shard, TypeInv, TypeOK, NetTypeOK
<1>1. Live' = Live /\ killed' = killed
  BY DEF Reading, OwnStep, Live, AsListed
<1>2. EnrolledOK(s) /\ Alive(s) /\ toSvc[s] # <<>>
  BY DEF ListsInv, Reading
<1>3. 1 \in 1 .. Len(toSvc[s])
  BY <1>0, <1>2, HeadAt
<1>4. phase[s] # "registering" \/ Answered(s)
  BY <1>3 DEF Answered
<1>5. s \notin killed => HasEntry(s)'
  BY <1>1, <1>2, <1>4 DEF EnrolledOK, HasEntry
<1>6. \A n \in 1 .. Len(toSvc'[s]) :
        n + 1 \in 1 .. Len(toSvc[s]) /\ toSvc'[s][n] = toSvc[s][n + 1]
  BY <1>0, <1>2, TailAt DEF Reading
<1>7. ASSUME NEW x \in Live, x.svc = s
      PROVE  /\ mySId'[s] = x.sid
             /\ \A n \in 1 .. Len(toSvc'[s]) :
                  toSvc'[s][n].type = "RG" => toSvc'[s][n].ok /\ toSvc'[s][n].sid = x.sid
  BY <1>2, <1>3, <1>6, <1>7 DEF EnrolledOK
<1> QED
  BY <1>1, <1>5, <1>7 DEF EnrolledOK

(* The answer: the list is taken as it is.                                 *)
LEMMA InsertAllSame ==
  ASSUME NEW list \in SUBSET Listed, OneEach(list)
  PROVE  InsertAll(list) = list
<1>1. \A e \in list : e.pos \in Nat /\ [e EXCEPT !.svc = e.svc] = e
  BY DEF Listed
<1> DEFINE First(e) == \A f \in list : f.sid = e.sid => e.pos <= f.pos
           Last(e) == \A f \in list : f.sid = e.sid => f.pos <= e.pos
           ends == {u \in list \X list : u[1].sid = u[2].sid /\ First(u[1]) /\ Last(u[2])}
<1>2. \A u \in ends : u[1] \in list /\ u[2] = u[1]
  BY DEF OneEach
<1>3. \A e \in list : <<e, e>> \in ends
  <2> TAKE e \in list
  <2>1. First(e) /\ Last(e)
    BY <1>1 DEF OneEach
  <2> QED
    BY <2>1
<1>4. InsertAll(list) = {[u[1] EXCEPT !.svc = u[2].svc] : u \in ends}
  BY DEF InsertAll
<1> HIDE DEF ends
<1>5. \A u \in ends : [u[1] EXCEPT !.svc = u[2].svc] = u[1]
  BY <1>1, <1>2
<1>6. InsertAll(list) \subseteq list
  BY <1>2, <1>4, <1>5
<1>7. ASSUME NEW e \in list PROVE e \in InsertAll(list)
  <2>1. <<e, e>> \in ends /\ <<e, e>>[1] = e
    BY <1>3
  <2> QED
    BY <1>4, <1>5, <2>1
<1> QED
  BY <1>6, <1>7

LEMMA RegisteredKeeps ==
  ASSUME Shard, ListsInv, NEW s \in Services, Registered(s)
  PROVE  ListsInv'
<1> USE DEF Registered, ClientRegistered, nsVars, envVars
<1>0. /\ phase \in [Services -> {"off", "registering", "registered", "running", "dead"}]
      /\ toNS \in [Services -> Seq(NSMessages)] /\ toSvc \in [Services -> Seq(SvcMessages)]
      /\ known \in [Services -> SUBSET Listed] /\ mySId \in [Services -> SIds \cup {NoSId}]
  BY DEF Shard, TypeInv, TypeOK, NetTypeOK, ClientTypeOK
<1> DEFINE m == toSvc[s][1]
<1>1. /\ toSvc[s] # <<>> /\ Head(toSvc[s]) = m /\ m.type = "RG" /\ m \in SvcMessages
      /\ 1 \in 1 .. Len(toSvc[s])
  BY <1>0, HeadAt DEF SvcReads
<1> HIDE DEF m
<1>2. CASE Dies(s) /\ UNCHANGED <<mySId, known>>
  <2>1. OwnStep(s)
    BY <1>0, <1>2 DEF Dies, OwnStep, Same
  <2>2. Tells(s)
    BY <1>0, <1>2 DEF Dies, Tells, Sent, DiscMsg
  <2>3. phase'[s] = "dead" /\ toSvc'[s] = <<>> /\ known'[s] = known[s] /\ dialed'[s] = dialed[s]
    BY <1>0, <1>2 DEF Dies
  <2> QED
    BY <2>1, <2>2, <2>3, DyingKeeps
<1>3. ASSUME m.ok, mySId' = [mySId EXCEPT ![s] = m.sid],
             known' = [known EXCEPT ![s] = InsertAll(m.list)],
             phase' = [phase EXCEPT ![s] = "registered"],
             toSvc' = [toSvc EXCEPT ![s] = Tail(@)], UNCHANGED <<conn, toNS>>
      PROVE  ListsInv'
  <2>1. m.list \in SUBSET Listed
    BY <1>1, <1>3, SvcMessageFields
  <2>2. phase[s] = "registering" /\ Alive(s)
    BY DEF Alive
  <2>3. /\ Fits(known[s], toSvc[s]) /\ Fitting(known[s], toSvc[s], 1)
    BY <1>1, <2>2 DEF ListsInv, ListOK, Fits
  <2>4. known[s] = {} /\ OneEach(m.list)
    BY <1>1, <1>3, <2>3 DEF Fitting, m
  <2>5. InsertAll(m.list) = m.list
    BY <2>1, <2>4, InsertAllSame
  <2>6. known'[s] = m.list /\ phase'[s] = "registered" /\ toSvc'[s] = Tail(toSvc[s])
        /\ mySId'[s] = m.sid /\ dialed'[s] = dialed[s] /\ toNS'[s] = toNS[s]
    BY <1>0, <1>3, <2>5
  <2>7. OwnStep(s)
    BY <1>0, <1>3 DEF OwnStep, Same
  <2>8. Reading(s)
    <3>1. \A x \in Listed : x \in known'[s] <=> Adds(m, x) \/ (x \in known[s] /\ ~Drops(m, x))
      BY <1>1, <1>3, <2>4, <2>6 DEF Adds
    <3> QED
      BY <1>1, <2>1, <2>2, <2>6, <2>7, <3>1 DEF Reading, m
  <2>9. EnrolledOK(s)'
    BY <1>1, <1>3, <2>6, <2>8, ReadingEnrolled DEF m
  <2>10. DialOK(s)'
    <3>1. Live' = Live
      BY DEF Live, AsListed
    <3>2. ASSUME NEW x PROVE Offered(s, x)' <=> Offered(s, x)
      <4>1. Offered(s, x)' <=> x \in m.list
        BY <2>6 DEF Offered
      <4>2. \A n \in 1 .. Len(toSvc[s]) : toSvc[s][n].type = "RG" => n = 1
        BY <2>3 DEF Fits, Fitting
      <4>3. Offered(s, x) <=> Adds(m, x)
        BY <1>1, <2>2, <4>2 DEF Offered, m
      <4> QED
        BY <1>1, <1>3, <4>1, <4>3 DEF Adds
    <3>3. DialOK(s)
      BY DEF ListsInv
    <3>4. \A u : SameNet(s, u)' = SameNet(s, u)
      BY DEF SameNet
    <3> QED
      BY <2>2, <2>6, <3>1, <3>2, <3>3, <3>4 DEF DialOK
  <2> QED
    BY <2>8, <2>9, <2>10, ReadingKeeps
<1> QED
  BY <1>1, <1>2, <1>3

(* A running service keeps the connections it opened.                      *)
LEMMA RunningDial ==
  ASSUME Shard, ListsInv, NEW s \in Services, Reading(s), phase[s] = "running",
         phase'[s] = "running"
  PROVE  DialOK(s)'
<1>1. Live' = Live
  BY DEF Reading, OwnStep, Live, AsListed
<1>2. \A x \in Live : x.svc \in Services
  BY RegistryFacts DEF Listed
<1>3. \A u \in Services : Alive(u)' => Alive(u)
  BY DEF Reading, OwnStep, Same, Alive
<1>4. DialOK(s) /\ Alive(s) /\ dialed'[s] = dialed[s]
  BY DEF ListsInv, Reading
<1>5. \A u : SameNet(s, u)' = SameNet(s, u)
  BY DEF SameNet
<1> QED
  BY <1>1, <1>2, <1>3, <1>4, <1>5 DEF DialOK

LEMMA ServiceUpKeeps ==
  ASSUME Shard, ListsInv, NEW s \in Services, ServiceUp(s)
  PROVE  ListsInv'
<1> USE DEF ServiceUp, ClientServiceUp, nsVars, envVars
<1>0. /\ toSvc \in [Services -> Seq(SvcMessages)] /\ known \in [Services -> SUBSET Listed]
  BY DEF Shard, TypeInv, TypeOK, NetTypeOK, ClientTypeOK
<1> DEFINE m == toSvc[s][1]
<1>1. /\ toSvc[s] # <<>> /\ Head(toSvc[s]) = m /\ m.type = "RGB" /\ m \in SvcMessages
      /\ 1 \in 1 .. Len(toSvc[s])
  BY <1>0, HeadAt DEF SvcReads
<1> HIDE DEF m
<1>2. m.entry \in Listed
  BY <1>1, SvcMessageFields
<1>3. Alive(s) /\ Fitting(known[s], toSvc[s], 1)
  BY <1>1 DEF ListsInv, ListOK, Fits, Alive
<1>4. \A x \in known[s] : x.sid # m.entry.sid
  <2>1. \A x \in known[s] : x \in Listed /\ Lists(known[s], toSvc[s], 1 - 1, x)
    BY <1>0, ListsNow
  <2> QED
    BY <1>1, <1>3, <2>1 DEF Fitting, m
<1>5. known'[s] = known[s] \cup {m.entry}
  BY <1>0, <1>1, <1>4 DEF Insert
<1>6. OwnStep(s)
  BY <1>0 DEF OwnStep, Same
<1>7. Reading(s)
  <2>1. \A x \in Listed : x \in known'[s] <=> Adds(m, x) \/ (x \in known[s] /\ ~Drops(m, x))
    BY <1>1, <1>5 DEF Adds, Drops
  <2>2. known'[s] \in SUBSET Listed
    BY <1>0, <1>2, <1>5
  <2>3. toSvc'[s] = Tail(toSvc[s])
    BY <1>0
  <2> QED
    BY <1>1, <1>3, <1>6, <2>1, <2>2, <2>3 DEF Reading, m
<1>8. EnrolledOK(s)'
  BY <1>7, ReadingEnrolled
<1>9. DialOK(s)'
  BY <1>7, RunningDial
<1> QED
  BY <1>7, <1>8, <1>9, ReadingKeeps

LEMMA ServiceDownKeeps ==
  ASSUME Shard, ListsInv, NEW s \in Services, ServiceDown(s)
  PROVE  ListsInv'
<1> USE DEF ServiceDown, ClientServiceDown, nsVars, envVars
<1>0. /\ toSvc \in [Services -> Seq(SvcMessages)] /\ known \in [Services -> SUBSET Listed]
      /\ toNS \in [Services -> Seq(NSMessages)]
  BY DEF Shard, TypeInv, TypeOK, NetTypeOK, ClientTypeOK
<1> DEFINE m == toSvc[s][1]
<1>1. /\ toSvc[s] # <<>> /\ Head(toSvc[s]) = m /\ m.type = "UNB" /\ m \in SvcMessages
      /\ 1 \in 1 .. Len(toSvc[s])
  BY <1>0, HeadAt DEF SvcReads
<1> HIDE DEF m
<1>2. Alive(s) /\ OneEach(known[s])
  BY DEF ListsInv, ListOK, Fits, Alive
<1>3. \A x \in known[s] : x.pos \in Nat
  BY <1>0 DEF Listed
<1>4. known'[s] = {x \in known[s] : x.sid # m.sid}
  <2>1. known'[s] = {e \in known[s] : e.sid = m.sid =>
                       \E f \in {g \in known[s] : g.sid = m.sid} : f.pos < e.pos}
    BY <1>0, <1>1
  <2>2. \A e \in known[s], f \in known[s] : e.sid = m.sid /\ f.sid = m.sid => ~(f.pos < e.pos)
    BY <1>2, <1>3 DEF OneEach
  <2> QED
    BY <2>1, <2>2
<1>5. OwnStep(s)
  BY <1>0 DEF OwnStep, Same
<1>6. Reading(s)
  <2>1. \A x \in Listed : x \in known'[s] <=> Adds(m, x) \/ (x \in known[s] /\ ~Drops(m, x))
    BY <1>1, <1>4 DEF Adds, Drops
  <2>2. known'[s] \in SUBSET Listed
    BY <1>0, <1>4
  <2>3. toSvc'[s] = Tail(toSvc[s])
    BY <1>0
  <2>4. \/ toNS'[s] = toNS[s]
        \/ \E a : a.type = "ACK_UNI" /\ toNS'[s] = Append(toNS[s], a)
    <3>1. AckMsg(Head(toSvc[s]).sid).type = "ACK_UNI"
      BY DEF AckMsg
    <3>2. \/ toNS'[s] = toNS[s]
          \/ toNS'[s] = Append(toNS[s], AckMsg(Head(toSvc[s]).sid))
      BY <1>0 DEF Sent
    <3> QED
      BY <3>1, <3>2
  <2> QED
    BY <1>1, <1>2, <1>5, <2>1, <2>2, <2>3, <2>4 DEF Reading, m
<1>7. EnrolledOK(s)'
  BY <1>6, ReadingEnrolled
<1>8. DialOK(s)'
  BY <1>6, RunningDial
<1> QED
  BY <1>6, <1>7, <1>8, ReadingKeeps

(* A service that dials: it lists itself, and those it lists before are    *)
(* those that registered before.                                           *)
LEMMA ConnectKeeps ==
  ASSUME Shard, ListsInv, NEW s \in Services, Connect(s)
  PROVE  ListsInv'
<1> USE DEF Connect, ClientConnect, netVars, nsVars, envVars
<1>0. /\ phase \in [Services -> {"off", "registering", "registered", "running", "dead"}]
      /\ known \in [Services -> SUBSET Listed] /\ dialed \in [Services -> SUBSET Services]
  BY DEF Shard, TypeInv, TypeOK, NetTypeOK, ClientTypeOK
<1>1. OwnStep(s) /\ Tells(s)
  BY <1>0 DEF OwnStep, Same, Tells
<1>2. AskedStays /\ (Asks(s)' => Asks(s))
  BY <1>1, TellsAsked
<1>3. /\ phase[s] = "registered" /\ phase'[s] = "running" /\ Alive(s) /\ Alive(s)'
      /\ dialed'[s] = {e.svc : e \in {f \in ListedBefore(s) : Alive(f.svc)}}
  BY <1>0 DEF Alive
<1>4. Live' = Live /\ killed' = killed
  BY DEF Live, AsListed
<1>5. StartOK(s) /\ EnrolledOK(s) /\ ListOK(s) /\ MentionsOK(s) /\ DialOK(s)
  BY DEF ListsInv
<1>6. NoneRises
  <2>1. \A x \in Live : x.svc \in Services
    BY RegistryFacts DEF Listed
  <2> QED
    BY <1>0, <1>3, <2>1 DEF NoneRises, Alive
<1>7. StartOK(s)'
  <2>1. ~Asks(s)'
    BY <1>2, <1>3, <1>5 DEF StartOK
  <2> QED
    BY <1>3, <1>5, <2>1 DEF StartOK
<1>8. EnrolledOK(s)'
  BY <1>3, <1>4, <1>5 DEF EnrolledOK, HasEntry
<1>9. ListOK(s)'
  <2>1. Current(s)' = Current(s) /\ HasEntry(s)' = HasEntry(s)
    BY <1>4 DEF Current, HasEntry, SameNet
  <2> QED
    BY <1>3, <1>5, <2>1 DEF ListOK
<1>10. \A x \in Listed : Mentions(s, x)' => Mentions(s, x)
  BY DEF Mentions
<1>11. ASSUME NEW x \in known[s]
       PROVE  x \in Listed /\ Asked(x.svc) /\ \A y \in Present : y.svc = x.svc => y = x
  BY <1>0, <1>5 DEF MentionsOK, Mentions, Genuine
<1>12. \A u \in dialed'[s] : u \in Services /\ Asked(u)
  BY <1>3, <1>11 DEF ListedBefore, Listed
<1>13. DialOK(s)'
  <2> SUFFICES ASSUME NEW x \in Live, NEW y \in Live, y.svc = s, SameNet(s, x.svc),
                      Alive(x.svc), x # y
               PROVE  x.svc \in dialed'[s] <=> x.pos < y.pos
    <3>1. \A u : SameNet(s, u)' = SameNet(s, u)
      BY DEF SameNet
    <3> QED
      BY <1>3, <1>4, <1>6, <3>1 DEF DialOK, NoneRises
  <2>1. /\ x \in Present /\ y \in Present /\ x.pos \in Nat /\ y.pos \in Nat
    BY RegistryFacts DEF Listed
  <2>2. SameNet(s, s)
    BY DEF SameNet
  <2>3. \A z \in Live : SameNet(s, z.svc) => (z \in known[s] <=> z.pos <= y.pos)
    BY <1>3, <1>5 DEF DialOK, Offered
  <2>4. y \in known[s]
    BY <2>1, <2>2, <2>3
  <2>5. mySId[s] = y.sid
    BY <1>3, <1>5 DEF EnrolledOK
  <2>6. OneEach(known[s])
    BY <1>3, <1>5 DEF ListOK, Fits
  <2>7. ASSUME x.svc \in dialed'[s] PROVE x.pos < y.pos
    <3>1. PICK e \in ListedBefore(s) : e.svc = x.svc
      BY <1>3, <2>7
    <3>2. e \in known[s] /\ \A f \in known[s] : f.sid = mySId[s] => e.pos < f.pos
      BY DEF ListedBefore
    <3>3. e = x
      BY <1>11, <2>1, <3>1, <3>2
    <3> QED
      BY <2>4, <2>5, <3>2, <3>3
  <2>8. ASSUME x.pos < y.pos PROVE x.svc \in dialed'[s]
    <3>1. x \in known[s]
      BY <2>1, <2>3, <2>8
    <3>2. \A f \in known[s] : f.sid = mySId[s] => f = y
      BY <2>4, <2>5, <2>6 DEF OneEach
    <3>3. x \in ListedBefore(s)
      BY <2>8, <3>1, <3>2 DEF ListedBefore
    <3> QED
      BY <1>3, <3>3
  <2> QED
    BY <2>7, <2>8
<1> QED
  BY <1>1, <1>2, <1>6, <1>7, <1>8, <1>9, <1>10, <1>12, <1>13, OwnKeeps

-----------------------------------------------------------------------------
(* Steps of the NS.                                                        *)

(* The services do nothing, and the NS reads some of what they sent.       *)
NSOnly ==
  /\ phase' = phase /\ known' = known /\ mySId' = mySId /\ dialed' = dialed
  /\ \A t \in Services : \A n \in 1 .. Len(toNS'[t]) :
       \E k \in 1 .. Len(toNS[t]) : toNS'[t][n] = toNS[t][k]

LEMMA HeadsOnly ==
  ASSUME Shard, HeadsTaken,
         phase' = phase, known' = known, mySId' = mySId, dialed' = dialed
  PROVE  NSOnly
<1> SUFFICES ASSUME NEW t \in Services, NEW n \in 1 .. Len(toNS'[t])
             PROVE  \E k \in 1 .. Len(toNS[t]) : toNS'[t][n] = toNS[t][k]
  BY DEF NSOnly
<1>1. toNS[t] \in Seq(NSMessages)
  BY DEF Shard, TypeInv, TypeOK, NetTypeOK
<1>2. CASE toNS'[t] = toNS[t]
  BY <1>2
<1>3. CASE toNS[t] # <<>> /\ toNS'[t] = Tail(toNS[t])
  BY <1>1, <1>3, TailAt
<1> QED
  BY <1>2, <1>3 DEF HeadsTaken

LEMMA NSAsked ==
  ASSUME NSOnly
  PROVE  /\ \A t \in Services : Asks(t)' => Asks(t)
         /\ AskedStays /\ NoneRises
<1>1. \A t \in Services : Asks(t)' => Asks(t)
  BY DEF NSOnly, Asks
<1>2. AskedStays
  BY <1>1 DEF AskedStays, Asked, NSOnly
<1>3. NoneRises
  BY DEF NoneRises, NSOnly, Alive
<1> QED
  BY <1>1, <1>2, <1>3

LEMMA NSStart ==
  ASSUME NSOnly, NEW t \in Services, StartOK(t), Asks(t)' => toSvc'[t] = toSvc[t]
  PROVE  StartOK(t)'
<1>1. Asks(t)' => Asks(t)
  BY NSAsked
<1>2. Alive(t)' = Alive(t) /\ phase'[t] = phase[t] /\ known'[t] = known[t]
  BY DEF NSOnly, Alive
<1>3. Alive(t) => \A n \in 1 .. Len(toNS'[t]) : toNS'[t][n].type # "DISC"
  BY DEF NSOnly, StartOK
<1> QED
  BY <1>1, <1>2, <1>3 DEF StartOK

(* Steps that send nothing and only tidy the entries that wait.            *)
LEMMA TidyKeeps ==
  ASSUME Shard, ListsInv, NSOnly, Tidied, toSvc' = toSvc, nextPos' = nextPos,
         online' = online, killed' = killed
  PROVE  ListsInv'
<1>1. Live' = Live /\ Present' \subseteq Present
  BY TidyRegistry
<1>2. AskedStays /\ NoneRises
  BY NSAsked
<1>3. RegistryOK'
  BY <1>1, <1>2, RegistryStays DEF ListsInv
<1>4. \A x \in Listed : Genuine(x) => Genuine(x)'
  BY <1>1, <1>2, GenuineStays
<1>5. ASSUME NEW t \in Services
      PROVE  StartOK(t)' /\ EnrolledOK(t)' /\ ListOK(t)' /\ MentionsOK(t)' /\ DialOK(t)'
  <2>1. StartOK(t) /\ EnrolledOK(t) /\ ListOK(t) /\ MentionsOK(t) /\ DialOK(t)
    BY DEF ListsInv
  <2>2. Same(t)
    BY DEF NSOnly, Same
  <2>3. StartOK(t)'
    BY <2>1, NSStart
  <2>4. MentionsOK(t)'
    <3>1. \A x \in Listed : Mentions(t, x)' => Mentions(t, x)
      BY <2>2, SameMention
    <3>2. dialed'[t] = dialed[t]
      BY <2>2 DEF Same
    <3> QED
      BY <1>2, <1>4, <2>1, <3>1, <3>2, SameMentions
  <2> QED
    BY <1>1, <1>2, <2>1, <2>2, <2>3, <2>4, SameEnrolled, SameList, SameDial
<1> QED
  BY <1>3, <1>5 DEF ListsInv

(* A service whose queue gets at most one more message.                    *)
Gets(t, m) == NSOnly /\ toSvc'[t] \in {toSvc[t], Append(toSvc[t], m)}

LEMMA GetsMentions ==
  ASSUME Shard, NEW t \in Services, NEW m, Gets(t, m), NEW x, Mentions(t, x)'
  PROVE  Mentions(t, x) \/ Adds(m, x)
<1>1. toSvc[t] \in Seq(SvcMessages)
  BY DEF Shard, TypeInv, TypeOK, NetTypeOK
<1>2. \A n \in 1 .. Len(toSvc'[t]) :
        \/ n \in 1 .. Len(toSvc[t]) /\ toSvc'[t][n] = toSvc[t][n]
        \/ toSvc'[t][n] = m
  <2>1. CASE toSvc'[t] = toSvc[t]
    BY <2>1
  <2>2. CASE toSvc'[t] = Append(toSvc[t], m)
    BY <1>1, <2>2
  <2> QED
    BY <2>1, <2>2 DEF Gets
<1>3. known'[t] = known[t]
  BY DEF Gets, NSOnly
<1> QED
  BY <1>2, <1>3 DEF Mentions

(* A broadcast is no answer.                                               *)
LEMMA GetsNoAnswer ==
  ASSUME Shard, NEW t \in Services, NEW m, Gets(t, m), m.type # "RG"
  PROVE  /\ Answered(t)' <=> Answered(t)
         /\ \A n \in 1 .. Len(toSvc'[t]) : toSvc'[t][n].type = "RG" =>
              n \in 1 .. Len(toSvc[t]) /\ toSvc'[t][n] = toSvc[t][n]
         /\ \A x : Offered(t, x)' <=> Offered(t, x)
<1>1. toSvc[t] \in Seq(SvcMessages)
  BY DEF Shard, TypeInv, TypeOK, NetTypeOK
<1>2. /\ \A n \in 1 .. Len(toSvc'[t]) :
           \/ n \in 1 .. Len(toSvc[t]) /\ toSvc'[t][n] = toSvc[t][n]
           \/ toSvc'[t][n] = m
      /\ \A n \in 1 .. Len(toSvc[t]) :
           n \in 1 .. Len(toSvc'[t]) /\ toSvc'[t][n] = toSvc[t][n]
  <2>1. CASE toSvc'[t] = toSvc[t]
    BY <2>1
  <2>2. CASE toSvc'[t] = Append(toSvc[t], m)
    BY <1>1, <2>2
  <2> QED
    BY <2>1, <2>2 DEF Gets
<1>3. known'[t] = known[t] /\ phase'[t] = phase[t]
  BY DEF Gets, NSOnly
<1>4. Answered(t)' <=> Answered(t)
  BY <1>2 DEF Answered
<1>5. \A x : Offered(t, x)' <=> Offered(t, x)
  BY <1>2, <1>3 DEF Offered
<1> QED
  BY <1>2, <1>4, <1>5

(* What it will list.                                                      *)
LEMMA GetsList ==
  ASSUME Shard, NEW t \in Services, NEW m, NSOnly, toSvc'[t] = Append(toSvc[t], m), NEW x
  PROVE  Lists(known'[t], toSvc'[t], Len(toSvc'[t]), x)
           <=> Adds(m, x) \/ (Lists(known[t], toSvc[t], Len(toSvc[t]), x) /\ ~Drops(m, x))
<1>1. toSvc[t] \in Seq(SvcMessages)
  BY DEF Shard, TypeInv, TypeOK, NetTypeOK
<1>2. known'[t] = known[t]
  BY DEF NSOnly
<1>3. Len(Append(toSvc[t], m)) = Len(toSvc[t]) + 1
  BY <1>1
<1>4. Lists(known[t], Append(toSvc[t], m), Len(toSvc[t]) + 1, x)
        <=> Adds(m, x) \/ (Lists(known[t], toSvc[t], Len(toSvc[t]), x) /\ ~Drops(m, x))
  BY <1>1, ListsAppend
<1> QED
  BY <1>2, <1>3, <1>4

(* The services that the NS would tell of another.                         *)
LEMMA SameNetSymmetric == \A s, t : SameNet(s, t) <=> SameNet(t, s)
  BY DEF SameNet

LEMMA ToldAre ==
  ASSUME Shard, NEW e \in registered, NEW t \in Services
  PROVE  t \in Told(e) <=> HasEntry(t) /\ SameNet(e.svc, t)
<1>1. HasEntry(t) <=> \E g \in registered : ~g.waiting /\ g.svc = t
  BY EntryFacts DEF HasEntry, Live
<1> QED
  BY <1>1 DEF Told, canAccess

(* A service that still asks is told nothing.                              *)
LEMMA AskersAreUnknown ==
  ASSUME Shard, NEW t \in Services, Asks(t)
  PROVE  \A x \in Present : x.svc # t
  BY RegistryFacts DEF Asks, Shard, ConnInv, RequestIsFirst

(* A removal: those that list the service are told that it is down.        *)
LEMMA RemovalKeeps ==
  ASSUME Shard, ListsInv, NEW e \in registered, doRemove(e), NSOnly,
         toSvc' = Broadcast(Told(e), DownMsg(e.sid, e.svc)),
         nextPos' = nextPos, online' = online,
         killed \subseteq killed', e.svc \in killed' \/ ~Alive(e.svc)
  PROVE  ListsInv'
<1> DEFINE z == AsListed(e)
           m == DownMsg(e.sid, e.svc)
<1>1. /\ z \in Present /\ z \in Listed /\ z.sid = e.sid /\ z.svc = e.svc
      /\ e.sid \in SIds /\ e.svc \in Services
  BY EntryFacts DEF CServiceEntry
<1>2. /\ m.type = "UNB" /\ m.sid = e.sid /\ m.svc = e.svc /\ m \in SvcMessages
      /\ \A x : ~Adds(m, x) /\ (Drops(m, x) <=> x.sid = e.sid)
  BY <1>1 DEF DownMsg, SvcMessages, Adds, Drops
<1>3. Live' = Live \ {z} /\ Present' \subseteq Present
  BY RemoveRegistry
<1>4. \A t \in Services :
        toSvc'[t] = IF HasEntry(t) /\ SameNet(e.svc, t) /\ conn[t] /\ sock[t]
                    THEN Append(toSvc[t], m) ELSE toSvc[t]
  BY ToldAre DEF Broadcast
<1> HIDE DEF z, m
<1>5. AskedStays /\ NoneRises
  BY NSAsked
<1>6. RegistryOK'
  BY <1>3, <1>5, RegistryStays DEF ListsInv
<1>7. \A x \in Listed : Genuine(x) => Genuine(x)'
  BY <1>3, <1>5, GenuineStays
<1>8. /\ Live \subseteq Present /\ Present \subseteq Listed
      /\ \A x, y \in Present : x.sid = y.sid \/ x.svc = y.svc => x = y
      /\ \A x \in Live : sock[x.svc]
  BY RegistryFacts
<1>9. ASSUME NEW t \in Services
      PROVE  StartOK(t)' /\ EnrolledOK(t)' /\ ListOK(t)' /\ MentionsOK(t)' /\ DialOK(t)'
  <2>1. StartOK(t) /\ EnrolledOK(t) /\ ListOK(t) /\ MentionsOK(t) /\ DialOK(t)
    BY DEF ListsInv
  <2>2. Gets(t, m)
    BY <1>4 DEF Gets
  <2>3. /\ Alive(t)' = Alive(t) /\ phase'[t] = phase[t] /\ known'[t] = known[t]
        /\ mySId'[t] = mySId[t] /\ dialed'[t] = dialed[t]
        /\ \A u : SameNet(t, u)' = SameNet(t, u)
        /\ \A u : Alive(u)' = Alive(u)
    BY DEF NSOnly, Alive, SameNet
  <2>4. /\ Answered(t)' <=> Answered(t)
        /\ \A n \in 1 .. Len(toSvc'[t]) : toSvc'[t][n].type = "RG" =>
             n \in 1 .. Len(toSvc[t]) /\ toSvc'[t][n] = toSvc[t][n]
        /\ \A x : Offered(t, x)' <=> Offered(t, x)
    BY <1>2, <2>2, GetsNoAnswer
  <2>5. StartOK(t)'
    <3>1. Asks(t)' => ~HasEntry(t)
      BY <1>8, AskersAreUnknown, NSAsked DEF HasEntry
    <3>2. Asks(t)' => toSvc'[t] = toSvc[t]
      BY <1>4, <3>1
    <3> QED
      BY <2>1, <3>2, NSStart
  <2>6. EnrolledOK(t)'
    <3>1. Alive(t) /\ t \notin killed' /\ HasEntry(t) => HasEntry(t)'
      BY <1>1, <1>3 DEF HasEntry
    <3>2. Alive(t)' /\ t \notin killed' /\ (phase'[t] # "registering" \/ Answered(t)')
            => HasEntry(t)'
      BY <2>1, <2>3, <2>4, <3>1 DEF EnrolledOK
    <3>3. ASSUME Alive(t), NEW x \in Live', x.svc = t
          PROVE  /\ phase[t] # "registering" => mySId[t] = x.sid
                 /\ \A n \in 1 .. Len(toSvc[t]) :
                      toSvc[t][n].type = "RG" => toSvc[t][n].ok /\ toSvc[t][n].sid = x.sid
      BY <1>3, <2>1, <3>3 DEF EnrolledOK
    <3> QED
      BY <2>3, <2>4, <3>2, <3>3 DEF EnrolledOK
  <2>7. ASSUME Alive(t) PROVE ListOK(t)'
    <3>1. Fits(known[t], toSvc[t])
      BY <2>1, <2>7 DEF ListOK
    <3>2. conn[t]
      BY <2>7 DEF Shard, SIdInv, AliveIsConnected
    <3>3. HasEntry(t)' => HasEntry(t)
      BY <1>3 DEF HasEntry
    <3>4. Current(t)' = {x \in Live' : SameNet(t, x.svc)}
      BY <2>3 DEF Current
    <3>5. CASE HasEntry(t) /\ SameNet(e.svc, t)
      <4>1. sock[t]
        BY <1>8, <3>5 DEF HasEntry
      <4>2. toSvc'[t] = Append(toSvc[t], m)
        BY <1>4, <3>2, <3>5, <4>1
      <4>3. \A x \in Listed : Lists(known[t], toSvc[t], Len(toSvc[t]), x) <=> x \in Current(t)
        BY <2>1, <2>7, <3>5 DEF ListOK
      <4>4. \A x \in Current(t) : x.sid = e.sid <=> x = z
        BY <1>1, <1>8 DEF Current
      <4>5. toSvc[t] \in Seq(SvcMessages)
        BY DEF Shard, TypeInv, TypeOK, NetTypeOK
      <4>6. Fits(known'[t], toSvc'[t])
        <5>1. \A x \in Listed :
                Lists(known[t], toSvc[t], Len(toSvc[t]), x) /\ x.sid = m.sid => x.svc = m.svc
          BY <1>1, <1>2, <4>3, <4>4
        <5>2. Fits(known[t], Append(toSvc[t], m))
          BY <1>2, <3>1, <4>5, <5>1, FitsAppend
        <5> QED
          BY <2>3, <4>2, <5>2
      <4>7. \A x \in Listed :
              Lists(known'[t], toSvc'[t], Len(toSvc'[t]), x) <=> x \in Current(t)'
        <5> TAKE x \in Listed
        <5>1. Lists(known'[t], toSvc'[t], Len(toSvc'[t]), x) <=> x \in Current(t) /\ x.sid # e.sid
          BY <1>2, <4>2, <4>3, GetsList
        <5>2. x \in Current(t)' <=> x \in Current(t) /\ x # z
          BY <1>3, <3>4 DEF Current
        <5> QED
          BY <4>4, <5>1, <5>2
      <4> QED
        BY <4>6, <4>7 DEF ListOK
    <3>6. CASE ~(HasEntry(t) /\ SameNet(e.svc, t))
      <4>1. toSvc'[t] = toSvc[t]
        BY <1>4, <3>6
      <4>2. Fits(known'[t], toSvc'[t])
        BY <2>3, <3>1, <4>1
      <4>3. HasEntry(t) => Current(t)' = Current(t)
        BY <1>1, <1>3, <3>4, <3>6, SameNetSymmetric DEF Current
      <4>4. HasEntry(t)' => \A x \in Listed :
              Lists(known'[t], toSvc'[t], Len(toSvc'[t]), x) <=> x \in Current(t)'
        BY <2>1, <2>3, <2>7, <3>3, <4>1, <4>3 DEF ListOK
      <4> QED
        BY <4>2, <4>4 DEF ListOK
    <3> QED
      BY <3>5, <3>6
  <2>8. ListOK(t)'
    BY <2>3, <2>7 DEF ListOK
  <2>9. MentionsOK(t)'
    <3>1. \A x \in Listed : Mentions(t, x)' => Mentions(t, x)
      BY <1>2, <2>2, GetsMentions
    <3> QED
      BY <1>5, <1>7, <2>1, <2>3, <3>1, SameMentions
  <2>10. DialOK(t)'
    BY <1>3, <2>1, <2>3, <2>4 DEF DialOK
  <2> QED
    BY <2>5, <2>6, <2>8, <2>9, <2>10
<1> QED
  BY <1>6, <1>9 DEF ListsInv

(* The NS reads a request: nothing is left of it, and its sender has no    *)
(* entry, was told nothing and, when it is alive, waits.                   *)
LEMMA RequestRead ==
  ASSUME Shard, ListsInv, NEW s \in Services, NSReads(s, "RG"),
         toNS' = [toNS EXCEPT ![s] = Tail(@)],
         phase' = phase, known' = known, mySId' = mySId, dialed' = dialed
  PROVE  /\ NSOnly /\ Asks(s) /\ ~Asks(s)' /\ Asked(s)' /\ ~Asked(s) /\ sock[s]
         /\ \A x \in Present : x.svc # s
         /\ Alive(s) => phase[s] = "registering" /\ toSvc[s] = <<>> /\ known[s] = {} /\ conn[s]
<1>0. toNS \in [Services -> Seq(NSMessages)]
  BY DEF Shard, TypeInv, TypeOK, NetTypeOK
<1>1. toNS[s] # <<>> /\ 1 \in 1 .. Len(toNS[s]) /\ toNS[s][1].type = "RG" /\ toNS'[s] = Tail(toNS[s])
  BY <1>0, HeadAt DEF NSReads
<1>2. Asks(s)
  BY <1>1 DEF Asks
<1>3. ~Asks(s)'
  <2>1. ASSUME NEW n \in 1 .. Len(toNS'[s]), toNS'[s][n].type = "RG" PROVE FALSE
    <3>1. n + 1 \in 1 .. Len(toNS[s]) /\ toNS'[s][n] = toNS[s][n + 1]
      BY <1>0, <1>1, TailAt
    <3>2. n + 1 = 1
      BY <2>1, <3>1 DEF Shard, ConnInv, RequestIsFirst
    <3> QED
      BY <3>2
  <2> QED
    BY <2>1 DEF Asks
<1>4. NSOnly
  <2>1. HeadsTaken
    BY <1>0, <1>1 DEF HeadsTaken
  <2> QED
    BY <2>1, HeadsOnly
<1>5. sock[s]
  BY <1>1 DEF Shard, ConnInv, UnreadIsOpen
<1>6. phase[s] # "off"
  BY <1>5 DEF Shard, ConnInv, OffIsUnknown
<1>7. Alive(s) => phase[s] = "registering" /\ toSvc[s] = <<>> /\ known[s] = {} /\ conn[s]
  BY <1>2 DEF ListsInv, StartOK, Shard, SIdInv, AliveIsConnected
<1>8. \A x \in Present : x.svc # s
  BY <1>2, AskersAreUnknown
<1> QED
  BY <1>2, <1>3, <1>4, <1>5, <1>6, <1>7, <1>8 DEF Asked

(* A denial: the service that asked is told, nobody else.                  *)
LEMMA DenialKeeps ==
  ASSUME Shard, ListsInv, NEW s \in Services, NSReads(s, "RG"),
         toNS' = [toNS EXCEPT ![s] = Tail(@)], toSvc' = AfterDenial(s),
         phase' = phase, known' = known, mySId' = mySId, dialed' = dialed,
         registered' = registered, nextPos' = nextPos, online' = online, killed' = killed
  PROVE  ListsInv'
<1>1. /\ NSOnly /\ Asks(s) /\ ~Asks(s)' /\ \A x \in Present : x.svc # s
      /\ Alive(s) => phase[s] = "registering" /\ toSvc[s] = <<>> /\ known[s] = {}
  BY RequestRead
<1>2. Live' = Live /\ Present' = Present
  BY DEF Live, Present, AsListed
<1>3. /\ DenyMsg.type = "RG" /\ ~DenyMsg.ok /\ DenyMsg \in SvcMessages
      /\ \A x : ~Adds(DenyMsg, x)
  BY DEF DenyMsg, SvcMessages, Adds
<1>4. AskedStays /\ NoneRises
  BY <1>1, NSAsked
<1>5. RegistryOK' /\ \A x \in Listed : Genuine(x) => Genuine(x)'
  BY <1>2, <1>4, RegistryStays, GenuineStays DEF ListsInv
<1>6. /\ \A t \in Services : t # s => toSvc'[t] = toSvc[t]
      /\ toSvc'[s] \in {toSvc[s], Append(toSvc[s], DenyMsg)}
  BY DEF AfterDenial, Broadcast
<1>7. ~HasEntry(s)' /\ \A x \in Live : x.svc # s
  BY <1>1, <1>2, RegistryFacts DEF HasEntry
<1>8. \A t \in Services : Gets(t, DenyMsg)
  BY <1>1, <1>6 DEF Gets
<1>9. ASSUME NEW t \in Services
      PROVE  MentionsOK(t)' /\ StartOK(t)'
  <2>1. MentionsOK(t) /\ StartOK(t) /\ dialed'[t] = dialed[t]
    BY DEF ListsInv
  <2>2. \A x \in Listed : Mentions(t, x)' => Mentions(t, x)
    BY <1>3, <1>8, GetsMentions
  <2>3. MentionsOK(t)'
    BY <1>4, <1>5, <2>1, <2>2, SameMentions
  <2>4. Asks(t)' => toSvc'[t] = toSvc[t]
    BY <1>1, <1>6
  <2> QED
    BY <1>1, <2>1, <2>3, <2>4, NSStart
<1>10. ASSUME NEW t \in Services, t # s
       PROVE  EnrolledOK(t)' /\ ListOK(t)' /\ DialOK(t)'
  <2>1. EnrolledOK(t) /\ ListOK(t) /\ DialOK(t)
    BY DEF ListsInv
  <2>2. Same(t)
    BY <1>6, <1>10 DEF Same
  <2> QED
    BY <1>2, <1>4, <2>1, <2>2, SameEnrolled, SameList, SameDial
<1>11. DialOK(s)'
  BY <1>2, <1>7 DEF DialOK
<1>12. ASSUME Alive(s)' PROVE EnrolledOK(s)' /\ ListOK(s)'
  <2>1. phase'[s] = "registering" /\ toSvc[s] = <<>> /\ known[s] = {} /\ known'[s] = {}
    BY <1>1, <1>12 DEF Alive
  <2>2. \A n \in 1 .. Len(toSvc'[s]) : ~toSvc'[s][n].ok
    BY <1>3, <1>6, <2>1
  <2>3. EnrolledOK(s)'
    <3>1. ~Answered(s)'
      BY <2>2 DEF Answered
    <3> QED
      BY <1>2, <1>7, <2>1, <3>1 DEF EnrolledOK
  <2>4. Fits(known'[s], toSvc'[s])
    <3>1. Fits({}, <<>>)
      BY DEF Fits, OneEach
    <3>2. <<>> \in Seq(SvcMessages)
      OBVIOUS
    <3>3. Fits({}, Append(<<>>, DenyMsg))
      BY <1>3, <3>1, <3>2, FitsAppend
    <3> QED
      BY <1>6, <2>1, <3>1, <3>3
  <2> QED
    BY <1>7, <2>3, <2>4 DEF ListOK
<1>13. EnrolledOK(s)' /\ ListOK(s)'
  BY <1>12 DEF EnrolledOK, ListOK
<1> QED
  BY <1>5, <1>9, <1>10, <1>11, <1>13 DEF ListsInv

(* What the NS sends after a grant, in terms of its list.                  *)
Reachable(s, L) == {x \in L : SameNet(s, x.svc)}

LEMMA GrantSends ==
  ASSUME Shard, NEW s \in Services, NEW i \in SIds, i \notin UsedSIds,
         \A x \in Present : x.svc # s
  PROVE  /\ \A t \in Services : t # s =>
              AfterGrant(s, i)[t] = IF HasEntry(t) /\ SameNet(s, t) /\ conn[t] /\ sock[t]
                                    THEN Append(toSvc[t], UpMsg(Newcomer(s, i)))
                                    ELSE toSvc[t]
         /\ conn[s] /\ sock[s] =>
              AfterGrant(s, i)[s] =
                Append(toSvc[s], GrantMsg(i, Reachable(s, Live \cup {Newcomer(s, i)})))
         /\ ~(conn[s] /\ sock[s]) => AfterGrant(s, i)[s] = toSvc[s]
<1> DEFINE e == NewEntry(s, i)
           others == {f.svc : f \in {g \in registered : g.sid # i /\ canAccess(s, g)}}
           list == {AsListed(f) : f \in {g \in registered \cup {e} : canAccess(s, g)}}
           told == Broadcast(others, UpMsg(AsListed(e)))
<1>1. AfterGrant(s, i) = IF conn[s] /\ sock[s]
                         THEN [told EXCEPT ![s] = Append(@, GrantMsg(i, list))]
                         ELSE told
  BY DEF AfterGrant
<1>2. \A t \in Services : t \in others <=> HasEntry(t) /\ SameNet(s, t)
  <2> TAKE t \in Services
  <2>1. HasEntry(t) <=> \E g \in registered : ~g.waiting /\ g.svc = t
    BY EntryFacts DEF HasEntry, Live
  <2>2. \A g \in registered : g.sid # i
    BY DEF UsedSIds
  <2> QED
    BY <2>1, <2>2 DEF canAccess
<1>3. s \notin others
  BY RegistryFacts, <1>2 DEF HasEntry
<1>4. ~e.waiting /\ e.svc = s /\ AsListed(e) = Newcomer(s, i)
  BY DEF NewEntry, Newcomer
<1>5. list = Reachable(s, Live \cup {Newcomer(s, i)})
  <2>1. \A f \in registered : canAccess(s, f) <=> ~f.waiting /\ SameNet(s, AsListed(f).svc)
    BY EntryFacts DEF canAccess
  <2>2. canAccess(s, e) <=> SameNet(s, Newcomer(s, i).svc)
    BY <1>4 DEF canAccess, AsListed
  <2>3. Live = {AsListed(f) : f \in {g \in registered : ~g.waiting}}
    BY DEF Live
  <2> HIDE DEF e
  <2> QED
    BY <1>4, <2>1, <2>2, <2>3 DEF Reachable
<1>6. told \in [Services -> Seq(SvcMessages)]
  <2>1. UpMsg(AsListed(e)) \in SvcMessages
    BY NewEntryType, ListedType DEF UpMsg, SvcMessages, Shard
  <2> HIDE DEF others, e
  <2> QED
    BY <2>1, Broadcasting DEF Shard, TypeInv, TypeOK, NetTypeOK
<1>7. \A t \in Services :
        told[t] = IF t \in others /\ conn[t] /\ sock[t]
                  THEN Append(toSvc[t], UpMsg(Newcomer(s, i))) ELSE toSvc[t]
  BY <1>4 DEF Broadcast
<1> HIDE DEF told, others, list, e
<1>8. \A t \in Services : t # s => AfterGrant(s, i)[t] = told[t]
  BY <1>1, <1>6
<1>9. /\ conn[s] /\ sock[s] => AfterGrant(s, i)[s] = Append(told[s], GrantMsg(i, list))
      /\ ~(conn[s] /\ sock[s]) => AfterGrant(s, i)[s] = told[s]
  BY <1>1, <1>6
<1>10. told[s] = toSvc[s]
  BY <1>3, <1>7
<1> QED
  BY <1>2, <1>5, <1>7, <1>8, <1>9, <1>10

(* queryStartService compares with every entry.                            *)
LEMMA StartsRestricted ==
  ASSUME Shard, RegistryOK, NEW s \in Services, MayStart(s), NEW x \in Present
  PROVE  Restricted(x.svc, s) /\ Restricted(s, x.svc)
<1>1. PICK e \in registered : x = AsListed(e)
  BY DEF Present
<1>2. e.sid \in online /\ x.svc = e.svc
  BY <1>1, EntryFacts DEF RegistryOK
<1>3. IsFirst(e, e.sid)
  <2>1. \A f \in registered : f.sid = e.sid => f = e
    BY DEF Shard, SIdInv, EntriesHaveDistinctSIds
  <2>2. e.pos \in Nat
    BY EntryFacts DEF CServiceEntry
  <2> QED
    BY <2>1, <2>2 DEF IsFirst
<1>4. NameOf[e.svc] = NameOf[s]
        => /\ NameOf[s] \notin ShardUnique
           /\ NameOf[s] \in MachineUnique => MachineOf[e.svc] # MachineOf[s]
  BY <1>2, <1>3 DEF MayStart
<1> QED
  BY <1>2, <1>4 DEF Restricted

(* A grant: the newcomer is the last of the list, the others are told.     *)
Granting(s, i) ==
  /\ NSReads(s, "RG") /\ toNS' = [toNS EXCEPT ![s] = Tail(@)]
  /\ i \notin UsedSIds /\ MayStart(s) /\ Grant(s, i) /\ toSvc' = AfterGrant(s, i)
  /\ phase' = phase /\ known' = known /\ mySId' = mySId /\ dialed' = dialed
  /\ killed' = killed

(* The state of the list before and after, z being the newcomer.           *)
Joins(s, z) ==
  /\ z \in Listed /\ z.svc = s /\ z.pos = nextPos /\ nextPos \in Nat /\ nextPos' = nextPos + 1
  /\ Live' = Live \cup {z} /\ Present' = Present \cup {z}
  /\ \A x \in Present : x.svc # s /\ x.sid # z.sid
  /\ z.sid \in SIds /\ online' = online \cup {z.sid}

LEMMA GrantingJoins ==
  ASSUME Shard, ListsInv, NEW s \in Services, NEW i \in SIds, Granting(s, i)
  PROVE  Joins(s, Newcomer(s, i)) /\ Newcomer(s, i).sid = i
<1>1. \A x \in Present : x.svc # s
  BY RequestRead DEF Granting
<1>2. \A x \in Present : x.sid # i
  BY EntryFacts DEF Present, UsedSIds, Granting
<1>3. nextPos \in Nat
  BY DEF Shard, TypeInv, TypeOK, NSTypeOK
<1>4. Grant(s, i)
  BY DEF Granting
<1>5. nextPos' = nextPos + 1 /\ online' = online \cup {i}
  BY <1>4 DEF Grant
<1> QED
  BY <1>1, <1>2, <1>3, <1>4, <1>5, GrantRegistry DEF Joins

LEMMA JoiningRegistry ==
  ASSUME Shard, ListsInv, NEW s \in Services, NEW z, Joins(s, z), MayStart(s), AskedStays,
         Asked(s)', ~Asked(s)
  PROVE  /\ RegistryOK'
         /\ \A x \in Listed : Genuine(x) => Genuine(x)'
         /\ \A x \in Present' : Genuine(x)'
<1>1. \A x \in Present : x.svc \in Services /\ x.pos \in Nat
  BY RegistryFacts DEF Listed
<1>2. RegistryOK
  BY DEF ListsInv
<1>3. \A x \in Present' : x.pos < nextPos' /\ Asked(x.svc)' /\ x.sid \in online'
  BY <1>1, <1>2 DEF RegistryOK, Joins, AskedStays
<1>4. \A x, y \in Present' : x.pos = y.pos => x = y
  BY <1>1, <1>2 DEF RegistryOK, Joins
<1>5. \A x, y \in Present' : x # y => Restricted(x.svc, y.svc)
  BY <1>2, StartsRestricted DEF RegistryOK, Joins
<1>6. \A x, y \in Present' : x # y => Restricted(x.svc, y.svc)'
  BY <1>5 DEF Restricted
<1>7. RegistryOK'
  BY <1>3, <1>4, <1>6 DEF RegistryOK
<1>8. \A x \in Listed : Genuine(x) => Genuine(x)'
  <2> SUFFICES ASSUME NEW x \in Listed, Genuine(x) PROVE Genuine(x)'
    OBVIOUS
  <2>1. x.svc \in Services /\ x.pos \in Nat /\ Asked(x.svc) /\ x.pos < nextPos
    BY DEF Genuine, Listed
  <2>2. x.svc # s
    BY <2>1
  <2>3. x.pos < nextPos' /\ Asked(x.svc)'
    BY <2>1 DEF Joins, AskedStays
  <2>4. \A y \in Present' : y.svc = x.svc => y = x
    BY <2>2 DEF Genuine, Joins
  <2> QED
    BY <2>3, <2>4 DEF Genuine
<1>9. \A x \in Present' : Genuine(x)'
  <2>1. \A x, y \in Present' : x.svc = y.svc => x = y
    BY RegistryFacts DEF Joins
  <2> QED
    BY <1>3, <2>1 DEF Genuine
<1> QED
  BY <1>7, <1>8, <1>9

(* A service other than the newcomer.                                      *)
LEMMA JoiningOthers ==
  ASSUME Shard, ListsInv, NEW s \in Services, NEW z, Joins(s, z), NSOnly, killed' = killed,
         NEW t \in Services, t # s, ~Asked(s), AskedStays,
         toSvc'[t] = IF HasEntry(t) /\ SameNet(s, t) /\ conn[t] /\ sock[t]
                     THEN Append(toSvc[t], UpMsg(z)) ELSE toSvc[t],
         \A x \in Listed : Genuine(x) => Genuine(x)',
         \A x \in Present' : Genuine(x)'
  PROVE  StartOK(t)' /\ EnrolledOK(t)' /\ ListOK(t)' /\ MentionsOK(t)' /\ DialOK(t)'
<1> DEFINE m == UpMsg(z)
<1>1. /\ m.type = "RGB" /\ m.entry = z /\ m \in SvcMessages
      /\ \A x : ~Drops(m, x) /\ (Adds(m, x) <=> x = z)
  BY DEF UpMsg, SvcMessages, Adds, Drops, Joins
<1>2. Gets(t, m)
  BY DEF Gets
<1> HIDE DEF m
<1>3. StartOK(t) /\ EnrolledOK(t) /\ ListOK(t) /\ MentionsOK(t) /\ DialOK(t)
  BY DEF ListsInv
<1>4. /\ Live \subseteq Present /\ Present \subseteq Listed
      /\ \A x \in Live : sock[x.svc]
  BY RegistryFacts
<1>5. /\ Alive(t)' = Alive(t) /\ phase'[t] = phase[t] /\ known'[t] = known[t]
      /\ mySId'[t] = mySId[t] /\ dialed'[t] = dialed[t]
      /\ \A u : SameNet(t, u)' = SameNet(t, u)
      /\ \A u : Alive(u)' = Alive(u)
  BY DEF NSOnly, Alive, SameNet
<1>6. /\ Answered(t)' <=> Answered(t)
      /\ \A n \in 1 .. Len(toSvc'[t]) : toSvc'[t][n].type = "RG" =>
           n \in 1 .. Len(toSvc[t]) /\ toSvc'[t][n] = toSvc[t][n]
      /\ \A x : Offered(t, x)' <=> Offered(t, x)
  BY <1>1, <1>2, GetsNoAnswer
<1>7. HasEntry(t)' <=> HasEntry(t)
  BY DEF HasEntry, Joins
<1>8. StartOK(t)'
  <2>1. Asks(t)' => ~HasEntry(t)
    BY <1>4, AskersAreUnknown, NSAsked DEF HasEntry
  <2>2. Asks(t)' => toSvc'[t] = toSvc[t]
    BY <2>1
  <2> QED
    BY <1>3, <2>2, NSStart
<1>9. EnrolledOK(t)'
  <2>1. Alive(t)' /\ t \notin killed' /\ (phase'[t] # "registering" \/ Answered(t)')
          => HasEntry(t)'
    BY <1>3, <1>5, <1>6, <1>7 DEF EnrolledOK
  <2>2. ASSUME Alive(t), NEW x \in Live', x.svc = t
        PROVE  /\ phase[t] # "registering" => mySId[t] = x.sid
               /\ \A n \in 1 .. Len(toSvc[t]) :
                    toSvc[t][n].type = "RG" => toSvc[t][n].ok /\ toSvc[t][n].sid = x.sid
    BY <1>3, <2>2 DEF EnrolledOK, Joins
  <2> QED
    BY <1>5, <1>6, <2>1, <2>2 DEF EnrolledOK
<1>10. ASSUME Alive(t) PROVE ListOK(t)'
  <2>1. Fits(known[t], toSvc[t]) /\ conn[t]
    BY <1>3, <1>10 DEF ListOK, Shard, SIdInv, AliveIsConnected
  <2>2. Current(t)' = {x \in Live \cup {z} : SameNet(t, x.svc)}
    BY <1>5 DEF Current, Joins
  <2>3. CASE HasEntry(t) /\ SameNet(s, t)
    <3>1. toSvc'[t] = Append(toSvc[t], m)
      BY <1>4, <2>1, <2>3 DEF HasEntry, m
    <3>2. \A x \in Listed : Lists(known[t], toSvc[t], Len(toSvc[t]), x) <=> x \in Current(t)
      BY <1>3, <1>10, <2>3 DEF ListOK
    <3>3. toSvc[t] \in Seq(SvcMessages)
      BY DEF Shard, TypeInv, TypeOK, NetTypeOK
    <3>4. Fits(known'[t], toSvc'[t])
      <4>1. \A x \in Listed : Lists(known[t], toSvc[t], Len(toSvc[t]), x) => x.sid # m.entry.sid
        BY <1>1, <1>4, <3>2 DEF Current, Joins
      <4>2. Fits(known[t], Append(toSvc[t], m))
        BY <1>1, <2>1, <3>3, <4>1, FitsAppend
      <4> QED
        BY <1>5, <3>1, <4>2
    <3>5. \A x \in Listed :
            Lists(known'[t], toSvc'[t], Len(toSvc'[t]), x) <=> x \in Current(t)'
      <4> TAKE x \in Listed
      <4>1. Lists(known'[t], toSvc'[t], Len(toSvc'[t]), x) <=> x = z \/ x \in Current(t)
        BY <1>1, <3>1, <3>2, GetsList DEF NSOnly
      <4>2. SameNet(t, z.svc)
        BY <2>3, SameNetSymmetric DEF Joins
      <4> QED
        BY <2>2, <4>1, <4>2 DEF Current
    <3> QED
      BY <3>4, <3>5 DEF ListOK
  <2>4. CASE ~(HasEntry(t) /\ SameNet(s, t))
    <3>1. toSvc'[t] = toSvc[t]
      BY <2>4
    <3>2. HasEntry(t) => Current(t)' = Current(t)
      BY <2>2, <2>4, SameNetSymmetric DEF Current, Joins
    <3>3. Fits(known'[t], toSvc'[t])
      BY <1>5, <2>1, <3>1
    <3>4. HasEntry(t)' => \A x \in Listed :
            Lists(known'[t], toSvc'[t], Len(toSvc'[t]), x) <=> x \in Current(t)'
      BY <1>3, <1>5, <1>7, <1>10, <3>1, <3>2 DEF ListOK
    <3> QED
      BY <3>3, <3>4 DEF ListOK
  <2> QED
    BY <2>3, <2>4
<1>11. ListOK(t)'
  BY <1>5, <1>10 DEF ListOK
<1>12. MentionsOK(t)'
  <2>1. \A x \in Listed : Mentions(t, x)' => Mentions(t, x) \/ Genuine(x)'
    <3>1. Genuine(z)'
      BY DEF Joins
    <3> QED
      BY <1>1, <1>2, <3>1, GetsMentions
  <2> QED
    BY <1>3, <1>5, <2>1, SameMentions
<1>13. DialOK(t)'
  <2> SUFFICES ASSUME Alive(t), NEW x \in Live', NEW y \in Live', y.svc = t, SameNet(t, x.svc)
               PROVE  /\ phase[t] # "running" => (Offered(t, x) <=> x.pos <= y.pos)
                      /\ phase[t] = "running" /\ Alive(x.svc) /\ x # y =>
                           (x.svc \in dialed[t] <=> x.pos < y.pos)
    BY <1>5, <1>6 DEF DialOK
  <2>1. y \in Live
    BY DEF Joins
  <2>2. CASE x \in Live
    BY <1>3, <2>1, <2>2 DEF DialOK
  <2>3. CASE x = z
    <3>1. y.pos < z.pos /\ y.pos \in Nat /\ z.pos \in Nat
      BY <1>4, <2>1 DEF Joins, ListsInv, RegistryOK, Listed
    <3>2. ~Mentions(t, z)
      BY <1>3 DEF MentionsOK, Genuine, Joins
    <3>3. ~Offered(t, z)
      BY <3>2 DEF Offered, Mentions
    <3>4. z.svc \notin dialed[t]
      BY <1>3 DEF MentionsOK, Joins
    <3> QED
      BY <2>3, <3>1, <3>3, <3>4
  <2> QED
    BY <2>2, <2>3 DEF Joins
<1> QED
  BY <1>8, <1>9, <1>11, <1>12, <1>13

(* The newcomer, if it is still alive, waits for the list it is sent.      *)
LEMMA JoiningItself ==
  ASSUME Shard, ListsInv, NEW s \in Services, NEW z, Joins(s, z), NSOnly, killed' = killed,
         ~Asks(s)', AskedStays,
         Alive(s) => phase[s] = "registering" /\ toSvc[s] = <<>> /\ known[s] = {} /\ conn[s],
         sock[s],
         conn[s] /\ sock[s] =>
           toSvc'[s] = Append(toSvc[s], GrantMsg(z.sid, Reachable(s, Live \cup {z}))),
         ~(conn[s] /\ sock[s]) => toSvc'[s] = toSvc[s],
         \A x \in Listed : Genuine(x) => Genuine(x)',
         \A x \in Present' : Genuine(x)'
  PROVE  StartOK(s)' /\ EnrolledOK(s)' /\ ListOK(s)' /\ MentionsOK(s)' /\ DialOK(s)'
<1> DEFINE list == Reachable(s, Live \cup {z})
           m == GrantMsg(z.sid, list)
<1>1. /\ Live \subseteq Present /\ Present \subseteq Listed
      /\ \A x, y \in Present : x.sid = y.sid \/ x.svc = y.svc => x = y
  BY RegistryFacts
<1>2. list \in SUBSET Listed /\ \A x \in list : x \in Present'
  BY <1>1 DEF Reachable, Joins
<1>3. OneEach(list)
  BY <1>1 DEF OneEach, Reachable, Joins
<1>4. /\ m.type = "RG" /\ m.ok /\ m.sid = z.sid /\ m.list = list /\ m \in SvcMessages
      /\ \A x : ~Drops(m, x) /\ (Adds(m, x) <=> x \in list)
  BY <1>2 DEF GrantMsg, SvcMessages, Adds, Drops, Joins
<1>5. \A x : x \in list <=> (x \in Live' /\ SameNet(s, x.svc))
  BY DEF Reachable, Joins
<1>6. Gets(s, m)
  BY DEF Gets
<1> HIDE DEF m, list
<1>7. /\ Alive(s)' = Alive(s) /\ phase'[s] = phase[s] /\ known'[s] = known[s]
      /\ mySId'[s] = mySId[s] /\ dialed'[s] = dialed[s]
      /\ \A u : SameNet(s, u)' = SameNet(s, u)
  BY DEF NSOnly, Alive, SameNet
<1>8. StartOK(s)'
  BY NSStart DEF ListsInv
<1>9. MentionsOK(s)'
  <2>1. MentionsOK(s)
    BY DEF ListsInv
  <2>2. \A x \in Listed : Mentions(s, x)' => Mentions(s, x) \/ Genuine(x)'
    BY <1>2, <1>4, <1>6, GetsMentions
  <2> QED
    BY <1>7, <2>1, <2>2, SameMentions
<1>10. \A y \in Live' : y.svc = s => y = z
  BY <1>1 DEF Joins
<1>11. ASSUME Alive(s) PROVE EnrolledOK(s)' /\ ListOK(s)' /\ DialOK(s)'
  <2>1. /\ phase'[s] = "registering" /\ known'[s] = {} /\ toSvc'[s] = Append(<<>>, m)
        /\ Len(toSvc'[s]) = 1 /\ toSvc'[s][1] = m
    <3>1. toSvc'[s] = Append(toSvc[s], m)
      BY <1>11 DEF m, list
    <3>2. toSvc'[s] = Append(<<>>, m)
      BY <1>11, <3>1
    <3>3. Len(Append(<<>>, m)) = 1 /\ Append(<<>>, m)[1] = m
      OBVIOUS
    <3> QED
      BY <1>7, <1>11, <3>2, <3>3
  <2>2. HasEntry(s)'
    BY DEF HasEntry, Joins
  <2>3. EnrolledOK(s)'
    <3>1. \A n \in 1 .. Len(toSvc'[s]) : toSvc'[s][n].ok /\ toSvc'[s][n].sid = z.sid
      BY <1>4, <2>1
    <3> QED
      BY <1>10, <2>1, <2>2, <3>1 DEF EnrolledOK
  <2>4. Fits({}, <<>>) /\ <<>> \in Seq(SvcMessages)
    BY DEF Fits, OneEach
  <2>5. Fits(known'[s], toSvc'[s])
    <3>1. Fits({}, Append(<<>>, m))
      BY <1>3, <1>4, <2>4, FitsAppend
    <3> QED
      BY <2>1, <3>1
  <2>6. \A x \in Listed : Lists(known'[s], toSvc'[s], Len(toSvc'[s]), x) <=> x \in Current(s)'
    <3> TAKE x \in Listed
    <3>1. Len(<<>>) + 1 = 1
      OBVIOUS
    <3>2. Lists({}, Append(<<>>, m), Len(<<>>) + 1, x)
            <=> Adds(m, x) \/ (Lists({}, <<>>, Len(<<>>), x) /\ ~Drops(m, x))
      BY <2>4, ListsAppend
    <3>3. ~Lists({}, <<>>, Len(<<>>), x)
      BY ListsNow
    <3>4. x \in Current(s)' <=> x \in list
      BY <1>5, <1>7 DEF Current
    <3> QED
      BY <1>4, <2>1, <3>1, <3>2, <3>3, <3>4
  <2>7. DialOK(s)'
    <3>1. \A x : Offered(s, x)' <=> x \in list
      BY <1>4, <2>1 DEF Offered
    <3>2. \A x \in Live' : x.pos <= z.pos
      <4>1. \A x \in Live : x.pos < nextPos /\ x.pos \in Nat
        BY <1>1 DEF ListsInv, RegistryOK, Listed
      <4> QED
        BY <4>1 DEF Joins
    <3> QED
      BY <1>5, <1>7, <1>10, <2>1, <3>1, <3>2 DEF DialOK
  <2> QED
    BY <2>2, <2>3, <2>5, <2>6, <2>7 DEF ListOK
<1>12. EnrolledOK(s)' /\ ListOK(s)' /\ DialOK(s)'
  BY <1>7, <1>11 DEF EnrolledOK, ListOK, DialOK
<1> QED
  BY <1>8, <1>9, <1>12

LEMMA GrantKeeps ==
  ASSUME Shard, ListsInv, NEW s \in Services, NEW i \in SIds, Granting(s, i)
  PROVE  ListsInv'
<1>1. /\ NSOnly /\ ~Asks(s)' /\ Asked(s)' /\ ~Asked(s) /\ sock[s]
      /\ \A x \in Present : x.svc # s
      /\ Alive(s) => phase[s] = "registering" /\ toSvc[s] = <<>> /\ known[s] = {} /\ conn[s]
  BY RequestRead DEF Granting
<1>2. PICK z : z = Newcomer(s, i)
  OBVIOUS
<1>3. Joins(s, z) /\ z.sid = i /\ MayStart(s) /\ killed' = killed
  BY <1>2, GrantingJoins DEF Granting
<1>4. AskedStays
  BY <1>1, NSAsked
<1>5. /\ RegistryOK'
      /\ \A x \in Listed : Genuine(x) => Genuine(x)'
      /\ \A x \in Present' : Genuine(x)'
  BY <1>1, <1>3, <1>4, JoiningRegistry
<1>6. /\ \A t \in Services : t # s =>
           toSvc'[t] = IF HasEntry(t) /\ SameNet(s, t) /\ conn[t] /\ sock[t]
                       THEN Append(toSvc[t], UpMsg(z)) ELSE toSvc[t]
      /\ conn[s] /\ sock[s] =>
           toSvc'[s] = Append(toSvc[s], GrantMsg(z.sid, Reachable(s, Live \cup {z})))
      /\ ~(conn[s] /\ sock[s]) => toSvc'[s] = toSvc[s]
  <2>1. i \notin UsedSIds /\ toSvc' = AfterGrant(s, i)
    BY DEF Granting
  <2>2. /\ \A t \in Services : t # s =>
             AfterGrant(s, i)[t] = IF HasEntry(t) /\ SameNet(s, t) /\ conn[t] /\ sock[t]
                                   THEN Append(toSvc[t], UpMsg(z)) ELSE toSvc[t]
        /\ conn[s] /\ sock[s] =>
             AfterGrant(s, i)[s] = Append(toSvc[s], GrantMsg(i, Reachable(s, Live \cup {z})))
        /\ ~(conn[s] /\ sock[s]) => AfterGrant(s, i)[s] = toSvc[s]
    BY <1>1, <1>2, <2>1, GrantSends
  <2> QED
    BY <1>3, <2>1, <2>2
<1>7. ASSUME NEW t \in Services, t # s
      PROVE  StartOK(t)' /\ EnrolledOK(t)' /\ ListOK(t)' /\ MentionsOK(t)' /\ DialOK(t)'
  BY <1>1, <1>3, <1>4, <1>5, <1>6, <1>7, JoiningOthers
<1>8. StartOK(s)' /\ EnrolledOK(s)' /\ ListOK(s)' /\ MentionsOK(s)' /\ DialOK(s)'
  BY <1>1, <1>3, <1>4, <1>5, <1>6, JoiningItself
<1> QED
  BY <1>5, <1>7, <1>8 DEF ListsInv

(* What an acknowledgement does to the entries.                            *)
LEMMA AckTidies ==
  ASSUME Shard, NEW s \in Services, NSAck(s)
  PROVE  Tidied
<1> USE DEF NSAck
<1>1. CASE registered' = registered
  BY <1>1 DEF Tidied
<1>2. ASSUME NEW e \in registered, Awaits(e, s),
             registered' = CheckWaiting((registered \ {e})
                             \cup {[e EXCEPT !.acks[appId[s]] = @ - 1]})
      PROVE  Tidied
  <2> DEFINE d == [e EXCEPT !.acks[appId[s]] = @ - 1]
  <2>1. e \in CServiceEntry /\ e.waiting
    BY <1>2 DEF Awaits, Shard, TypeInv, TypeOK, NSTypeOK
  <2>2. d.waiting /\ AsListed(d) = AsListed(e)
    BY <2>1 DEF CServiceEntry, AsListed
  <2> HIDE DEF d
  <2>3. registered' = CheckWaiting((registered \ {e}) \cup {d})
    BY <1>2 DEF d
  <2> QED
    BY <2>1, <2>2, <2>3 DEF Tidied, CheckWaiting, Removable
<1> QED
  BY <1>1, <1>2

-----------------------------------------------------------------------------
(* Every step.                                                             *)
LEMMA ListsStep ==
  MaxNSCrashes = 0 /\ Shard /\ ListsInv /\ [Next]_vars => ListsInv'
<1> SUFFICES ASSUME MaxNSCrashes = 0, Shard, ListsInv, [Next]_vars PROVE ListsInv'
  OBVIOUS
<1>0. /\ toNS \in [Services -> Seq(NSMessages)] /\ toSvc \in [Services -> Seq(SvcMessages)]
      /\ phase \in [Services -> {"off", "registering", "registered", "running", "dead"}]
      /\ TypeInv /\ SIdInv /\ AliveIsConnected /\ NoLossRead /\ RequestIsOpen
  BY DEF Shard, SIdInv, TypeInv, TypeOK, NetTypeOK, ClientTypeOK
<1>1. ASSUME NEW s \in Services, Start(s) PROVE ListsInv'
  BY <1>1, StartKeeps
<1>2. ASSUME NEW s \in Services, Reconnect(s) PROVE ListsInv'
  BY <1>0, <1>2 DEF Reconnect, ClientReconnect, AliveIsConnected, Alive
<1>3. ASSUME NEW s \in Services, Register(s) PROVE ListsInv'
  <2> USE <1>3 DEF Register, NSRegister, clientVars, envVars
  <2>1. Head(toNS[s]).sid = NoSId
    BY <1>0, HeadAt DEF NSReads, RequestIsOpen
  <2>2. ASSUME NEW i \in SIds, Granted(s, NoSId, i), Grant(s, i), toSvc' = AfterGrant(s, i)
        PROVE  ListsInv'
    <3>1. i \notin UsedSIds /\ MayStart(s)
      BY <2>2 DEF Granted, ChosenSId
    <3>2. Granting(s, i)
      BY <2>2, <3>1 DEF Granting
    <3> QED
      BY <3>2, GrantKeeps
  <2>3. CASE toSvc' = AfterDenial(s) /\ UNCHANGED <<online, registered, nextPos, appId>>
    BY <2>3, DenialKeeps
  <2> QED
    BY <2>1, <2>2, <2>3
<1>4. ASSUME NEW s \in Services, Reregister(s) PROVE ListsInv'
  BY <1>0, <1>4, HeadAt DEF Reregister, NSReregister, NSReads, RequestIsOpen
<1>5. ASSUME NEW s \in Services, Disconnect(s) PROVE ListsInv'
  <2> USE <1>5 DEF Disconnect, NSDisconnect, clientVars, envVars
  <2>1. NSOnly
    <3>1. \A t \in Services : toNS'[t] \in {toNS[t], <<>>}
      BY <1>0
    <3> QED
      BY <3>1 DEF NSOnly
  <2>2. ~Alive(s)
    <3>1. /\ 1 \in 1 .. Len(toNS[s]) /\ toNS[s][1].type = "DISC"
      BY <1>0, HeadAt DEF NSReads
    <3> QED
      BY <3>1 DEF ListsInv, StartOK
  <2>3. ASSUME NEW e \in registered, e.svc = s, doRemove(e),
               toSvc' = Broadcast(Told(e), DownMsg(e.sid, s))
        PROVE  ListsInv'
    BY <2>1, <2>2, <2>3, RemovalKeeps
  <2>4. CASE UNCHANGED <<registered, toSvc>>
    <3>1. Tidied
      BY <2>4 DEF Tidied
    <3> QED
      BY <2>1, <2>4, <3>1, TidyKeeps
  <2> QED
    BY <2>3, <2>4
<1>6. ASSUME NEW s \in Services, Ack(s) PROVE ListsInv'
  <2> USE <1>6 DEF Ack, NSAck, clientVars, envVars
  <2>1. HeadsTaken
    BY <1>0 DEF HeadsTaken, NSReads
  <2>2. NSOnly
    BY <2>1, HeadsOnly
  <2>3. Tidied
    BY AckTidies
  <2> QED
    BY <2>2, <2>3, TidyKeeps
<1>7. CASE Update
  <2> USE <1>7 DEF Update, NSUpdate, netVars, clientVars, envVars
  <2>1. NSOnly
    BY HeadsOnly DEF HeadsTaken
  <2>2. Tidied
    BY DEF Tidied, CheckWaiting, Removable
  <2> QED
    BY <2>1, <2>2, TidyKeeps
<1>8. CASE Timeout
  <2> USE <1>8 DEF Timeout, netVars, clientVars, envVars
  <2>1. PICK e \in registered : NSTimeout(e)
    OBVIOUS
  <2>2. toNS' = toNS /\ toSvc' = toSvc /\ nextPos' = nextPos /\ online' = online
    BY <2>1 DEF NSTimeout
  <2>3. NSOnly
    BY <2>2, HeadsOnly DEF HeadsTaken
  <2>4. Tidied
    <3> DEFINE d == [e EXCEPT !.late = TRUE]
    <3>1. e \in CServiceEntry /\ e.waiting
      BY <1>0, <2>1 DEF NSTimeout, TypeInv, TypeOK, NSTypeOK
    <3>2. d.waiting /\ AsListed(d) = AsListed(e)
      BY <3>1 DEF CServiceEntry, AsListed
    <3> HIDE DEF d
    <3>3. registered' = (registered \ {e}) \cup {d}
      BY <2>1 DEF NSTimeout, d
    <3> QED
      BY <3>1, <3>2, <3>3 DEF Tidied
  <2> QED
    BY <2>2, <2>3, <2>4, TidyKeeps
<1>9. CASE Kill
  <2> USE <1>9 DEF Kill, clientVars
  <2>1. PICK e \in registered : NSKill(e) /\ killed' = killed \cup {e.svc}
    OBVIOUS
  <2>2. NSOnly
    BY <2>1, HeadsOnly DEF NSKill, HeadsTaken
  <2> QED
    BY <2>1, <2>2, RemovalKeeps DEF NSKill
<1>10. CASE LoseNS
  BY <1>0, <1>10 DEF LoseNS, SIdInv
<1>11. CASE RestartNS
  <2> USE <1>11 DEF RestartNS, NSRestart, netVars, clientVars, envVars
  <2>1. NSOnly
    BY HeadsOnly DEF HeadsTaken
  <2>2. Tidied
    BY DEF Tidied
  <2> QED
    BY <2>1, <2>2, TidyKeeps
<1>12. ASSUME NEW s \in Services, Registered(s) PROVE ListsInv'
  BY <1>12, RegisteredKeeps
<1>13. ASSUME NEW s \in Services, Connect(s) PROVE ListsInv'
  BY <1>13, ConnectKeeps
<1>14. ASSUME NEW s \in Services, ServiceUp(s) PROVE ListsInv'
  BY <1>14, ServiceUpKeeps
<1>15. ASSUME NEW s \in Services, ServiceDown(s) PROVE ListsInv'
  BY <1>15, ServiceDownKeeps
<1>16. ASSUME NEW s \in Services, LosesNS(s) PROVE ListsInv'
  BY <1>0, <1>16, HeadAt DEF LosesNS, ClientLosesNS, SvcReads, NoLossRead
<1>17. ASSUME NEW s \in Services, Alive(s), Dies(s), registered' = registered,
              online' = online, nextPos' = nextPos, killed' = killed, known' = known,
              mySId' = mySId, dialed' = dialed
       PROVE  ListsInv'
  <2>1. OwnStep(s)
    BY <1>0, <1>17 DEF Dies, OwnStep, Same
  <2>2. Tells(s)
    BY <1>0, <1>17 DEF Dies, Tells, Sent, DiscMsg, Alive
  <2>3. phase'[s] = "dead" /\ toSvc'[s] = <<>> /\ known'[s] = known[s] /\ dialed'[s] = dialed[s]
    BY <1>0, <1>17 DEF Dies
  <2> QED
    BY <2>1, <2>2, <2>3, DyingKeeps
<1>18. ASSUME NEW s \in Services, Exit(s) \/ Crash(s) PROVE ListsInv'
  BY <1>17, <1>18 DEF Exit, ClientExit, Crash, ClientCrash, Alive, nsVars, envVars
<1>19. CASE UNCHANGED vars
  <2> USE <1>19 DEF vars, nsVars, netVars, clientVars, envVars
  <2>1. NSOnly
    BY HeadsOnly DEF HeadsTaken
  <2>2. Tidied
    BY DEF Tidied
  <2> QED
    BY <2>1, <2>2, TidyKeeps
<1> QED
  BY <1>1, <1>2, <1>3, <1>4, <1>5, <1>6, <1>7, <1>8, <1>9, <1>10, <1>11, <1>12, <1>13, <1>14,
     <1>15, <1>16, <1>18, <1>19 DEF Next, ServiceStep, NSStep

LEMMA ListsInvariant ==
  ASSUME MaxNSCrashes = 0, DynamicSIds
  PROVE  Spec => [](Shard /\ ListsInv)
<1>1. Init => Shard /\ ListsInv
  BY TypeInit, ConnInit, SIdInit, ListsInit, NetAssumption DEF Shard
<1>2. Shard /\ ListsInv /\ [Next]_vars => (Shard /\ ListsInv)'
  BY TypeStep, ConnStep, SIdStep, ListsStep, NetAssumption DEF Shard
<1> QED
  BY <1>1, <1>2, PTL DEF Spec

-----------------------------------------------------------------------------
(* The owner of an SId has an entry that does not wait.                    *)
LEMMA OwnersHaveEntries ==
  ASSUME Shard, ListsInv, NEW s \in Services, Owner(s)
  PROVE  Alive(s) /\ HasEntry(s)
<1>1. Alive(s) /\ s \notin killed /\ phase[s] # "registering"
  BY DEF Owner, Alive
<1> QED
  BY <1>1 DEF ListsInv, EnrolledOK

(* What fits a list agrees with it when it is read.                         *)
LEMMA ListsMatch == Shard /\ ListsInv => BroadcastsMatchList
<1> SUFFICES ASSUME Shard, ListsInv, NEW s \in Services, phase[s] = "running",
                    NEW e \in known[s]
             PROVE  /\ SvcReads(s, "UNB") /\ Head(toSvc[s]).sid = e.sid
                         => Head(toSvc[s]).svc = e.svc
                    /\ SvcReads(s, "RGB") => Head(toSvc[s]).entry.sid # e.sid
  BY DEF BroadcastsMatchList
<1>1. toSvc[s] \in Seq(SvcMessages) /\ e \in Listed
  BY DEF Shard, TypeInv, TypeOK, NetTypeOK, ClientTypeOK
<1>2. Fits(known[s], toSvc[s])
  BY DEF ListsInv, ListOK, Alive
<1>3. ASSUME toSvc[s] # <<>>
      PROVE  Fitting(known[s], toSvc[s], 1) /\ Head(toSvc[s]) = toSvc[s][1]
  BY <1>1, <1>2, <1>3, HeadAt DEF Fits
<1>4. Lists(known[s], toSvc[s], 1 - 1, e)
  BY ListsNow
<1> QED
  BY <1>1, <1>3, <1>4 DEF SvcReads, Fitting

(* A broadcast at the head of a client's queue agrees with its list, for   *)
(* any services, subnets, kills and crashes: the nlassertex of             *)
(* cbUnregisterBroadcast holds and cbRegisterBroadcast overwrites no       *)
(* entry, when the NS does not restart and no config file names an SId.    *)
THEOREM BroadcastsMatchListCorrect ==
  ASSUME MaxNSCrashes = 0, DynamicSIds
  PROVE  Spec => []BroadcastsMatchList
  BY ListsMatch, ListsInvariant, PTL

(* When nothing is in flight a running service lists exactly the services  *)
(* that the NS has as registered and accessible to it, whatever was        *)
(* registered, killed, crashed and timed out before.                       *)
THEOREM QuietListsAgreeCorrect ==
  ASSUME MaxNSCrashes = 0, DynamicSIds
  PROVE  Spec => []QuietListsAgree
<1>1. Shard /\ ListsInv => QuietListsAgree
  <2> SUFFICES ASSUME Shard, ListsInv, Quiet, NEW s \in Services, Owner(s)
               PROVE  {e.svc : e \in known[s]} =
                        {e.svc : e \in {f \in registered : ~f.waiting /\ Reach(s, f.svc)}}
    BY DEF QuietListsAgree
  <2>1. toSvc[s] = <<>> /\ Len(<<>>) = 0
    BY DEF Quiet
  <2>2. \A x \in Listed : x \in known[s] <=> x \in Current(s)
    BY <2>1, OwnersHaveEntries, ListsNow DEF ListsInv, ListOK
  <2>3. known[s] \subseteq Listed /\ Current(s) \subseteq Listed
    BY RegistryFacts DEF Current, Shard, TypeInv, TypeOK, ClientTypeOK
  <2>4. known[s] = Current(s)
    BY <2>2, <2>3
  <2>5. {e.svc : e \in Current(s)} =
          {e.svc : e \in {f \in registered : ~f.waiting /\ Reach(s, f.svc)}}
    <3>1. \A f \in registered : AsListed(f).svc = f.svc
      BY DEF AsListed
    <3>2. Current(s) = {AsListed(f) : f \in {g \in registered : ~g.waiting /\ Reach(s, g.svc)}}
      BY <3>1 DEF Current, Live, SameNet, Reach
    <3> QED
      BY <3>1, <3>2
  <2> QED
    BY <2>4, <2>5
<1> QED
  BY <1>1, ListsInvariant, PTL

(* At most one live service of a name that must be unique on the shard, or *)
(* on its machine, whatever their number and the order of their starts,    *)
(* kills and crashes.                                                      *)
THEOREM RestrictedNamesCorrect ==
  ASSUME MaxNSCrashes = 0, DynamicSIds
  PROVE  Spec => []RestrictedNamesAreUnique
<1>1. Shard /\ ListsInv => RestrictedNamesAreUnique
  <2> SUFFICES ASSUME Shard, ListsInv, NEW s \in Services, NEW t \in Services, s # t,
                      Owner(s), Owner(t), NameOf[s] = NameOf[t]
               PROVE  /\ NameOf[s] \notin ShardUnique
                      /\ NameOf[s] \in MachineUnique => MachineOf[s] # MachineOf[t]
    BY DEF RestrictedNamesAreUnique
  <2>1. PICK x \in Live : x.svc = s
    BY OwnersHaveEntries DEF HasEntry
  <2>2. PICK y \in Live : y.svc = t
    BY OwnersHaveEntries DEF HasEntry
  <2>3. Restricted(s, t)
    BY <2>1, <2>2, RegistryFacts DEF ListsInv, RegistryOK
  <2> QED
    BY <2>3 DEF Restricted
<1> QED
  BY <1>1, ListsInvariant, PTL

(* Of two live services that can reach each other exactly one has opened   *)
(* the connection between them, for any number of services and of subnets  *)
(* each of them has.                                                       *)
THEOREM OneOfTwoDialsCorrect ==
  ASSUME MaxNSCrashes = 0, DynamicSIds
  PROVE  Spec => []OneOfTwoDials
<1>1. Shard /\ ListsInv => OneOfTwoDials
  <2> SUFFICES ASSUME Shard, ListsInv, NEW s \in Services, NEW t \in Services, s # t,
                      Reach(s, t), Owner(s), Owner(t),
                      phase[s] = "running", phase[t] = "running"
               PROVE  (s \in dialed[t]) # (t \in dialed[s])
    BY DEF OneOfTwoDials
  <2>1. PICK x \in Live : x.svc = s
    BY OwnersHaveEntries DEF HasEntry
  <2>2. PICK y \in Live : y.svc = t
    BY OwnersHaveEntries DEF HasEntry
  <2>3. SameNet(s, t) /\ SameNet(t, s) /\ Alive(s) /\ Alive(t)
    BY DEF Reach, SameNet, Alive
  <2>4. x # y /\ x.pos \in Nat /\ y.pos \in Nat /\ x.pos # y.pos
    BY <2>1, <2>2, RegistryFacts DEF ListsInv, RegistryOK, Listed
  <2>5. s \in dialed[t] <=> x.pos < y.pos
    BY <2>1, <2>2, <2>3, <2>4 DEF ListsInv, DialOK
  <2>6. t \in dialed[s] <=> y.pos < x.pos
    BY <2>1, <2>2, <2>3, <2>4 DEF ListsInv, DialOK
  <2>7. (s \in dialed[t]) \in BOOLEAN /\ (t \in dialed[s]) \in BOOLEAN
    OBVIOUS
  <2>8. (s \in dialed[t]) <=> ~(t \in dialed[s])
    BY <2>4, <2>5, <2>6
  <2> QED
    BY <2>8
<1> QED
  BY <1>1, ListsInvariant, PTL

-----------------------------------------------------------------------------
(* Acknowledgements.  While nothing is killed and acknowledgements come in *)
(* time, a notice that a service is down, and the acknowledgement of it,   *)
(* stand for one entry that awaits the acknowledgement.                    *)
About(q, type, i) == {n \in 1 .. Len(q) : q[n].type = type /\ q[n].sid = i}
AtMostOne(S) == \A n, k \in S : n = k

Owes(t, e) == HasEntry(t) /\ Awaits(e, t)

NoticesOK(t) ==
  \A n \in 1 .. Len(toSvc[t]) : toSvc[t][n].type = "UNB" =>
    \E e \in registered : Owes(t, e) /\ e.sid = toSvc[t][n].sid /\ e.svc = toSvc[t][n].svc
ReceiptsOK(t) ==
  \A n \in 1 .. Len(toNS[t]) : toNS[t][n].type = "ACK_UNI" =>
    \E e \in registered : Owes(t, e) /\ e.sid = toNS[t][n].sid
OnceEach(t) ==
  \A i \in SIds :
    /\ AtMostOne(About(toSvc[t], "UNB", i)) /\ AtMostOne(About(toNS[t], "ACK_UNI", i))
    /\ About(toSvc[t], "UNB", i) = {} \/ About(toNS[t], "ACK_UNI", i) = {}
AcksOK(t) == NoticesOK(t) /\ ReceiptsOK(t) /\ OnceEach(t)

AcksInv ==
  /\ killed = {}
  /\ \A e \in registered : ~e.late
  /\ \A t \in Services : AcksOK(t)

(* A process that has died has closed its connection.                      *)
DeadAreClosed == \A t \in Services : phase[t] = "dead" => ~conn[t]

LEMMA AcksInit == Init => AcksInv
  BY DEF Init, NetInit, NSInit, ClientInit, AcksInv, AcksOK, NoticesOK, ReceiptsOK, OnceEach,
     About, AtMostOne

(* A queue that has no more of a type of messages than another.            *)
Fewer(r, q, type) ==
  /\ \A n \in 1 .. Len(r) : r[n].type = type => \E k \in 1 .. Len(q) : q[k] = r[n]
  /\ \A i : AtMostOne(About(q, type, i)) => AtMostOne(About(r, type, i))

LEMMA FewerTail ==
  ASSUME NEW M, NEW q \in Seq(M), q # <<>>, NEW type
  PROVE  /\ Fewer(Tail(q), q, type)
         /\ \A i : q[1].type = type /\ q[1].sid = i /\ AtMostOne(About(q, type, i))
                     => About(Tail(q), type, i) = {}
<1> DEFINE r == Tail(q)
<1>1. /\ \A n \in 1 .. Len(r) : n \in Nat /\ n + 1 \in 1 .. Len(q) /\ r[n] = q[n + 1] /\ n + 1 # 1
      /\ 1 \in 1 .. Len(q)
  BY TailAt, HeadAt
<1> HIDE DEF r
<1>2. \A i : \A n \in About(r, type, i) : n \in Nat /\ n + 1 \in About(q, type, i) /\ n + 1 # 1
  BY <1>1 DEF About
<1>3. \A i : AtMostOne(About(q, type, i)) => AtMostOne(About(r, type, i))
  <2> SUFFICES ASSUME NEW i, AtMostOne(About(q, type, i)), NEW n \in About(r, type, i),
                      NEW k \in About(r, type, i)
               PROVE  n = k
    BY DEF AtMostOne
  <2>1. n + 1 = k + 1 /\ n \in Nat /\ k \in Nat
    BY <1>2 DEF AtMostOne
  <2> QED
    BY <2>1
<1>4. ASSUME NEW i, q[1].type = type, q[1].sid = i, AtMostOne(About(q, type, i))
      PROVE  About(r, type, i) = {}
  <2>1. 1 \in About(q, type, i)
    BY <1>1, <1>4 DEF About
  <2> QED
    BY <1>2, <1>4, <2>1 DEF AtMostOne
<1>5. \A n \in 1 .. Len(r) : r[n].type = type => \E k \in 1 .. Len(q) : q[k] = r[n]
  BY <1>1
<1> QED
  BY <1>3, <1>4, <1>5 DEF Fewer, r

LEMMA FewerNone ==
  ASSUME NEW q, NEW type
  PROVE  Fewer(q, q, type) /\ Fewer(<<>>, q, type)
<1>1. Len(<<>>) = 0
  OBVIOUS
<1> QED
  BY <1>1 DEF Fewer, About, AtMostOne

LEMMA FewerEmpty ==
  ASSUME NEW r, NEW q, NEW type, NEW i, Fewer(r, q, type), About(q, type, i) = {}
  PROVE  About(r, type, i) = {}
<1> SUFFICES ASSUME NEW n \in About(r, type, i) PROVE FALSE
  OBVIOUS
<1>1. n \in 1 .. Len(r) /\ r[n].type = type /\ r[n].sid = i
  BY DEF About
<1>2. PICK k \in 1 .. Len(q) : q[k] = r[n]
  BY <1>1 DEF Fewer
<1>3. k \in About(q, type, i)
  BY <1>1, <1>2 DEF About
<1> QED
  BY <1>3

LEMMA AboutAppend ==
  ASSUME NEW M, NEW q \in Seq(M), NEW m, NEW type, NEW i
  PROVE  /\ About(q, type, i) = {} => AtMostOne(About(Append(q, m), type, i))
         /\ ~(m.type = type /\ m.sid = i) => About(Append(q, m), type, i) = About(q, type, i)
<1> DEFINE r == Append(q, m)
<1>1. /\ \A n \in 1 .. Len(q) : n \in 1 .. Len(r) /\ r[n] = q[n]
      /\ \A n \in 1 .. Len(r) : n \in 1 .. Len(q) \/ (n = Len(q) + 1 /\ r[n] = m)
  OBVIOUS
<1> HIDE DEF r
<1>2. \A n \in About(r, type, i) : n \in About(q, type, i) \/ n = Len(q) + 1
  BY <1>1 DEF About
<1>3. About(q, type, i) = {} => AtMostOne(About(r, type, i))
  BY <1>2 DEF AtMostOne
<1>4. ASSUME ~(m.type = type /\ m.sid = i) PROVE About(r, type, i) = About(q, type, i)
  BY <1>1, <1>4 DEF About
<1> QED
  BY <1>3, <1>4 DEF r

LEMMA FewerAppend ==
  ASSUME NEW M, NEW q \in Seq(M), NEW m, NEW type, m.type # type
  PROVE  Fewer(Append(q, m), q, type)
<1>1. \A i : About(Append(q, m), type, i) = About(q, type, i)
  BY AboutAppend
<1>2. \A n \in 1 .. Len(Append(q, m)) :
        \/ n \in 1 .. Len(q) /\ Append(q, m)[n] = q[n]
        \/ Append(q, m)[n] = m
  OBVIOUS
<1> QED
  BY <1>1, <1>2 DEF Fewer

(* A service that gets no notice and gives no acknowledgement still has    *)
(* one entry for each, when the entries that remain mentioned remain.      *)
LEMMA OwedKeeps ==
  ASSUME NEW t \in Services, AcksOK(t),
         Fewer(toSvc'[t], toSvc[t], "UNB"), Fewer(toNS'[t], toNS[t], "ACK_UNI"),
         \A e \in registered :
           Owes(t, e) /\ (\/ About(toSvc'[t], "UNB", e.sid) # {}
                          \/ About(toNS'[t], "ACK_UNI", e.sid) # {})
             => \E f \in registered' : Owes(t, f)' /\ f.sid = e.sid /\ f.svc = e.svc
  PROVE  AcksOK(t)'
<1>1. NoticesOK(t)'
  <2> SUFFICES ASSUME NEW n \in 1 .. Len(toSvc'[t]), toSvc'[t][n].type = "UNB"
               PROVE  \E e \in registered' : Owes(t, e)' /\ e.sid = toSvc'[t][n].sid
                                                         /\ e.svc = toSvc'[t][n].svc
    BY DEF NoticesOK
  <2>1. PICK k \in 1 .. Len(toSvc[t]) : toSvc[t][k] = toSvc'[t][n]
    BY DEF Fewer
  <2>2. PICK e \in registered : Owes(t, e) /\ e.sid = toSvc'[t][n].sid
                                           /\ e.svc = toSvc'[t][n].svc
    BY <2>1 DEF AcksOK, NoticesOK
  <2>3. About(toSvc'[t], "UNB", e.sid) # {}
    BY <2>2 DEF About
  <2> QED
    BY <2>2, <2>3
<1>2. ReceiptsOK(t)'
  <2> SUFFICES ASSUME NEW n \in 1 .. Len(toNS'[t]), toNS'[t][n].type = "ACK_UNI"
               PROVE  \E e \in registered' : Owes(t, e)' /\ e.sid = toNS'[t][n].sid
    BY DEF ReceiptsOK
  <2>1. PICK k \in 1 .. Len(toNS[t]) : toNS[t][k] = toNS'[t][n]
    BY DEF Fewer
  <2>2. PICK e \in registered : Owes(t, e) /\ e.sid = toNS'[t][n].sid
    BY <2>1 DEF AcksOK, ReceiptsOK
  <2>3. About(toNS'[t], "ACK_UNI", e.sid) # {}
    BY <2>2 DEF About
  <2> QED
    BY <2>2, <2>3
<1>3. OnceEach(t)'
  <2>1. \A i : /\ About(toSvc[t], "UNB", i) = {} => About(toSvc'[t], "UNB", i) = {}
               /\ About(toNS[t], "ACK_UNI", i) = {} => About(toNS'[t], "ACK_UNI", i) = {}
    BY FewerEmpty
  <2> QED
    BY <2>1 DEF AcksOK, OnceEach, Fewer
<1> QED
  BY <1>1, <1>2, <1>3 DEF AcksOK

(* Steps of the services.                                                  *)
LEMMA OwnAcks ==
  ASSUME AcksInv, NEW s \in Services, OwnStep(s),
         \A t \in Services : t # s => appId'[t] = appId[t], AcksOK(s)'
  PROVE  AcksInv'
<1>1. Live' = Live
  BY DEF OwnStep, Live, AsListed
<1>2. ASSUME NEW t \in Services, t # s PROVE AcksOK(t)'
  <2>1. AcksOK(t)
    BY DEF AcksInv
  <2>2. toSvc'[t] = toSvc[t] /\ toNS'[t] = toNS[t]
    BY <1>2 DEF OwnStep, Same
  <2>3. \A e \in registered : Owes(t, e) => e \in registered' /\ Owes(t, e)'
    BY <1>1, <1>2 DEF Owes, HasEntry, Awaits, OwnStep
  <2> QED
    BY <2>1, <2>2, <2>3, FewerNone, OwedKeeps
<1> QED
  BY <1>2 DEF AcksInv, OwnStep

LEMMA OwnFewer ==
  ASSUME AcksInv, NEW s \in Services, OwnStep(s), appId' = appId,
         Fewer(toSvc'[s], toSvc[s], "UNB"), Fewer(toNS'[s], toNS[s], "ACK_UNI")
  PROVE  AcksInv'
<1>1. Live' = Live
  BY DEF OwnStep, Live, AsListed
<1>2. \A e \in registered : Owes(s, e) => e \in registered' /\ Owes(s, e)'
  BY <1>1 DEF Owes, HasEntry, Awaits, OwnStep
<1>3. AcksOK(s)'
  BY <1>2, OwedKeeps DEF AcksInv
<1> QED
  BY <1>3, OwnAcks

LEMMA DyingAcks ==
  ASSUME Shard, AcksInv, NEW s \in Services, Dies(s), registered' = registered,
         online' = online, nextPos' = nextPos, killed' = killed, known' = known,
         mySId' = mySId, dialed' = dialed, appId' = appId
  PROVE  AcksInv'
<1>1. /\ toNS \in [Services -> Seq(NSMessages)] /\ toSvc \in [Services -> Seq(SvcMessages)]
      /\ phase \in [Services -> {"off", "registering", "registered", "running", "dead"}]
  BY DEF Shard, TypeInv, TypeOK, NetTypeOK, ClientTypeOK
<1>2. OwnStep(s)
  BY <1>1 DEF Dies, OwnStep, Same
<1>3. toSvc'[s] = <<>> /\ (toNS'[s] = toNS[s] \/ toNS'[s] = Append(toNS[s], DiscMsg))
  BY <1>1 DEF Dies, Sent
<1>4. DiscMsg.type # "ACK_UNI"
  BY DEF DiscMsg
<1>5. Fewer(toNS'[s], toNS[s], "ACK_UNI")
  BY <1>1, <1>3, <1>4, FewerNone, FewerAppend
<1>6. Fewer(toSvc'[s], toSvc[s], "UNB")
  BY <1>3, FewerNone
<1> QED
  BY <1>2, <1>5, <1>6, OwnFewer

LEMMA StartAcks ==
  ASSUME Shard, AcksInv, NEW s \in Services, Start(s)
  PROVE  AcksInv'
<1> USE DEF Start, NSAccept, ClientStart, envVars
<1>1. /\ toNS \in [Services -> Seq(NSMessages)] /\ appId \in [Services -> SIds \cup {NoSId}]
      /\ phase \in [Services -> {"off", "registering", "registered", "running", "dead"}]
  BY DEF Shard, TypeInv, TypeOK, NetTypeOK, NSTypeOK, ClientTypeOK
<1>2. OwnStep(s)
  BY <1>1 DEF OwnStep, Same
<1>3. \A t \in Services : t # s => appId'[t] = appId[t]
  BY <1>1
<1>4. ~HasEntry(s)
  BY RegistryFacts DEF HasEntry, Shard, ConnInv, OffIsUnknown
<1>5. AcksOK(s)'
  <2>1. toNS'[s] = Append(toNS[s], RegMsg(ReqSId[s])) /\ toSvc'[s] = toSvc[s]
    BY <1>1
  <2>2. RegMsg(ReqSId[s]).type # "ACK_UNI"
    BY DEF RegMsg
  <2>3. Fewer(toNS'[s], toNS[s], "ACK_UNI") /\ Fewer(toSvc'[s], toSvc[s], "UNB")
    BY <1>1, <2>1, <2>2, FewerNone, FewerAppend
  <2> QED
    BY <1>4, <2>3, OwedKeeps DEF AcksInv, Owes
<1> QED
  BY <1>2, <1>3, <1>5, OwnAcks

(* A service reads that another is down and acknowledges it.               *)
LEMMA ServiceDownAcks ==
  ASSUME Shard, AcksInv, NEW s \in Services, ServiceDown(s)
  PROVE  AcksInv'
<1> USE DEF ServiceDown, ClientServiceDown, nsVars, envVars
<1>1. toSvc \in [Services -> Seq(SvcMessages)] /\ toNS \in [Services -> Seq(NSMessages)]
  BY DEF Shard, TypeInv, TypeOK, NetTypeOK
<1> DEFINE m == toSvc[s][1]
           a == AckMsg(m.sid)
<1>2. /\ toSvc[s] # <<>> /\ Head(toSvc[s]) = m /\ m.type = "UNB" /\ m \in SvcMessages
      /\ 1 \in 1 .. Len(toSvc[s])
  BY <1>1, HeadAt DEF SvcReads
<1>3. m.sid \in SIds /\ a.type = "ACK_UNI" /\ a.sid = m.sid
  BY <1>2, SvcMessageFields DEF AckMsg
<1>4. OwnStep(s) /\ appId' = appId
  BY <1>1 DEF OwnStep, Same
<1>5. toSvc'[s] = Tail(toSvc[s]) /\ (toNS'[s] = toNS[s] \/ toNS'[s] = Append(toNS[s], a))
  BY <1>1, <1>2 DEF Sent
<1> HIDE DEF m, a
<1>6. Fewer(toSvc'[s], toSvc[s], "UNB")
  BY <1>1, <1>2, <1>5, FewerTail
<1>7. CASE toNS'[s] = toNS[s]
  BY <1>4, <1>6, <1>7, FewerNone, OwnFewer
<1>8. CASE toNS'[s] = Append(toNS[s], a)
  <2>1. NoticesOK(s) /\ ReceiptsOK(s) /\ OnceEach(s)
    BY DEF AcksInv, AcksOK
  <2>2. Live' = Live
    BY DEF Live, AsListed
  <2>3. \A e \in registered : Owes(s, e) => e \in registered' /\ Owes(s, e)'
    BY <2>2 DEF Owes, HasEntry, Awaits
  <2>4. NoticesOK(s)'
    BY <1>6, <2>1, <2>3 DEF NoticesOK, Fewer
  <2>5. ReceiptsOK(s)'
    <3>1. PICK e \in registered : Owes(s, e) /\ e.sid = m.sid
      BY <1>2, <2>1 DEF NoticesOK, m
    <3>2. \A n \in 1 .. Len(toNS'[s]) :
            \/ n \in 1 .. Len(toNS[s]) /\ toNS'[s][n] = toNS[s][n]
            \/ toNS'[s][n] = a
      BY <1>1, <1>8
    <3> QED
      BY <1>3, <2>1, <2>3, <3>1, <3>2 DEF ReceiptsOK
  <2>6. OnceEach(s)'
    <3> SUFFICES ASSUME NEW i \in SIds
                 PROVE  /\ AtMostOne(About(toSvc'[s], "UNB", i))
                        /\ AtMostOne(About(toNS'[s], "ACK_UNI", i))
                        /\ About(toSvc'[s], "UNB", i) = {} \/ About(toNS'[s], "ACK_UNI", i) = {}
      BY DEF OnceEach
    <3>1. /\ AtMostOne(About(toSvc[s], "UNB", i)) /\ AtMostOne(About(toNS[s], "ACK_UNI", i))
          /\ About(toSvc[s], "UNB", i) = {} \/ About(toNS[s], "ACK_UNI", i) = {}
      BY <2>1 DEF OnceEach
    <3>2. AtMostOne(About(toSvc'[s], "UNB", i))
      BY <1>6, <3>1 DEF Fewer
    <3>3. CASE i = m.sid
      <4>1. About(toSvc'[s], "UNB", i) = {}
        BY <1>1, <1>2, <1>5, <3>1, <3>3, FewerTail DEF m
      <4>2. About(toSvc[s], "UNB", i) # {}
        BY <1>2, <3>3 DEF About, m
      <4>3. AtMostOne(About(toNS'[s], "ACK_UNI", i))
        BY <1>1, <1>8, <3>1, <4>2, AboutAppend
      <4> QED
        BY <3>2, <4>1, <4>3
    <3>4. CASE i # m.sid
      <4>1. About(toNS'[s], "ACK_UNI", i) = About(toNS[s], "ACK_UNI", i)
        <5>1. ~(a.type = "ACK_UNI" /\ a.sid = i) /\ toNS[s] \in Seq(NSMessages)
          BY <1>1, <1>3, <3>4
        <5>2. About(Append(toNS[s], a), "ACK_UNI", i) = About(toNS[s], "ACK_UNI", i)
          BY ONLY <5>1, AboutAppend
        <5> QED
          BY <1>8, <5>2
      <4>2. About(toSvc[s], "UNB", i) = {} => About(toSvc'[s], "UNB", i) = {}
        BY <1>6, FewerEmpty
      <4> QED
        BY <3>1, <3>2, <4>1, <4>2
    <3> QED
      BY <3>3, <3>4
  <2> QED
    BY <1>4, <2>4, <2>5, <2>6, OwnAcks DEF AcksOK
<1> QED
  BY <1>5, <1>7, <1>8

(* Steps of the NS.  An entry that somebody owes an acknowledgement stays. *)
LEMMA CheckedStays ==
  ASSUME Shard, NEW t \in Services, NEW L, NEW f \in L, Awaits(f, t), ~f.late
  PROVE  f \in CheckWaiting(L)
<1>1. appId[t] \in SIds /\ f.acks[appId[t]] > 0
  BY DEF Shard, TypeInv, TypeOK, NSTypeOK, Awaits
<1>2. NoAcks[appId[t]] = 0
  BY <1>1 DEF NoAcks
<1>3. ~Acked(f)
  BY <1>1, <1>2 DEF Acked
<1> QED
  BY <1>3 DEF CheckWaiting, Removable

LEMMA NSAcks ==
  ASSUME AcksInv, killed' = killed, NEW s \in Services, AcksOK(s)',
         \A e \in registered' : ~e.late,
         \A t \in Services : t # s =>
           /\ Fewer(toSvc'[t], toSvc[t], "UNB") /\ Fewer(toNS'[t], toNS[t], "ACK_UNI")
           /\ \A e \in registered : Owes(t, e) =>
                \E f \in registered' : Owes(t, f)' /\ f.sid = e.sid /\ f.svc = e.svc
  PROVE  AcksInv'
<1>1. ASSUME NEW t \in Services, t # s PROVE AcksOK(t)'
  BY <1>1, OwedKeeps DEF AcksInv
<1> QED
  BY <1>1 DEF AcksInv

(* The NS reads a request, and denies or grants it.                        *)
LEMMA ReadFewer ==
  ASSUME Shard, NEW s \in Services, toNS[s] # <<>>, toNS' = [toNS EXCEPT ![s] = Tail(@)],
         NEW t \in Services
  PROVE  Fewer(toNS'[t], toNS[t], "ACK_UNI")
<1>1. toNS \in [Services -> Seq(NSMessages)]
  BY DEF Shard, TypeInv, TypeOK, NetTypeOK
<1>2. toNS'[t] = toNS[t] \/ (t = s /\ toNS'[t] = Tail(toNS[t]))
  BY <1>1
<1>3. Fewer(toNS[t], toNS[t], "ACK_UNI")
  BY FewerNone
<1>4. t = s => Fewer(Tail(toNS[t]), toNS[t], "ACK_UNI")
  BY <1>1, FewerTail
<1> QED
  BY <1>2, <1>3, <1>4

LEMMA TellingFewer ==
  ASSUME Shard, NEW t \in Services, NEW m, m.type # "UNB",
         toSvc'[t] \in {toSvc[t], Append(toSvc[t], m)}
  PROVE  Fewer(toSvc'[t], toSvc[t], "UNB")
<1>1. toSvc[t] \in Seq(SvcMessages)
  BY DEF Shard, TypeInv, TypeOK, NetTypeOK
<1>2. Fewer(toSvc[t], toSvc[t], "UNB") /\ Fewer(Append(toSvc[t], m), toSvc[t], "UNB")
  BY <1>1, FewerNone, FewerAppend
<1> QED
  BY <1>2

LEMMA DenialAcks ==
  ASSUME Shard, AcksInv, NEW s \in Services, NSReads(s, "RG"),
         toNS' = [toNS EXCEPT ![s] = Tail(@)], toSvc' = AfterDenial(s),
         registered' = registered, appId' = appId, killed' = killed
  PROVE  AcksInv'
<1>1. ASSUME NEW t \in Services
      PROVE  /\ Fewer(toSvc'[t], toSvc[t], "UNB") /\ Fewer(toNS'[t], toNS[t], "ACK_UNI")
             /\ \A e \in registered : Owes(t, e) => e \in registered' /\ Owes(t, e)'
  <2>1. Fewer(toNS'[t], toNS[t], "ACK_UNI")
    BY ReadFewer DEF NSReads
  <2>2. DenyMsg.type # "UNB" /\ toSvc'[t] \in {toSvc[t], Append(toSvc[t], DenyMsg)}
    BY DEF AfterDenial, Broadcast, DenyMsg
  <2>3. Fewer(toSvc'[t], toSvc[t], "UNB")
    BY <2>2, TellingFewer
  <2>4. Live' = Live
    BY DEF Live, AsListed
  <2>5. \A e \in registered : Owes(t, e) => e \in registered' /\ Owes(t, e)'
    BY <2>4 DEF Owes, HasEntry, Awaits
  <2> QED
    BY <2>1, <2>3, <2>5
<1>2. AcksOK(s)'
  BY <1>1, OwedKeeps DEF AcksInv
<1> QED
  BY <1>1, <1>2, NSAcks DEF AcksInv

LEMMA GrantAcks ==
  ASSUME Shard, AcksInv, NEW s \in Services, NEW i \in SIds, NSReads(s, "RG"),
         toNS' = [toNS EXCEPT ![s] = Tail(@)], i \notin UsedSIds, Grant(s, i),
         toSvc' = AfterGrant(s, i), killed' = killed
  PROVE  AcksInv'
<1>0. toNS \in [Services -> Seq(NSMessages)] /\ appId \in [Services -> SIds \cup {NoSId}]
  BY DEF Shard, TypeInv, TypeOK, NetTypeOK, NSTypeOK
<1>1. \A x \in Present : x.svc # s
  <2>1. 1 \in 1 .. Len(toNS[s]) /\ toNS[s][1].type = "RG"
    BY <1>0, HeadAt DEF NSReads
  <2> QED
    BY <2>1, AskersAreUnknown DEF Asks
<1>2. ASSUME NEW t \in Services
      PROVE  Fewer(toSvc'[t], toSvc[t], "UNB") /\ Fewer(toNS'[t], toNS[t], "ACK_UNI")
  <2>1. Fewer(toNS'[t], toNS[t], "ACK_UNI")
    BY ReadFewer DEF NSReads
  <2>2. /\ UpMsg(Newcomer(s, i)).type # "UNB"
        /\ GrantMsg(i, Reachable(s, Live \cup {Newcomer(s, i)})).type # "UNB"
    BY DEF UpMsg, GrantMsg
  <2>3. \/ toSvc'[t] \in {toSvc[t], Append(toSvc[t], UpMsg(Newcomer(s, i)))}
        \/ toSvc'[t] \in {toSvc[t], Append(toSvc[t],
                            GrantMsg(i, Reachable(s, Live \cup {Newcomer(s, i)})))}
    BY <1>1, GrantSends
  <2> QED
    BY <2>1, <2>2, <2>3, TellingFewer
<1>3. registered \subseteq registered' /\ Live' = Live \cup {Newcomer(s, i)}
  BY GrantRegistry DEF Grant
<1>4. ~HasEntry(s)
  BY <1>1, RegistryFacts DEF HasEntry
<1>5. ASSUME NEW t \in Services, NEW e \in registered, Owes(t, e)
      PROVE  e \in registered' /\ Owes(t, e)'
  <2>1. t # s
    BY <1>4, <1>5 DEF Owes
  <2>2. appId'[t] = appId[t]
    BY <1>0, <2>1 DEF Grant
  <2> QED
    BY <1>3, <1>5, <2>2 DEF Owes, HasEntry, Awaits
<1>6. AcksOK(s)'
  BY <1>2, <1>5, OwedKeeps DEF AcksInv
<1>7. \A e \in registered' : ~e.late
  BY DEF AcksInv, Grant, NewEntry
<1> QED
  BY <1>2, <1>5, <1>6, <1>7, NSAcks

(* A service is gone: those that were told owe an acknowledgement.         *)
LEMMA RemovalOwes ==
  ASSUME Shard, NEW e \in registered, ~e.waiting, doRemove(e), appId' = appId,
         NEW t \in Services, t # e.svc, HasEntry(t)
  PROVE  /\ HasEntry(t)'
         /\ \A f \in registered : Awaits(f, t) =>
              \E g \in registered' : Awaits(g, t)' /\ g.sid = f.sid /\ g.svc = f.svc
         /\ \E g \in registered' : Awaits(g, t)' /\ g.sid = e.sid /\ g.svc = e.svc
<1>0. /\ IsFiniteSet(registered) /\ TypeInv
      /\ \A f \in registered : f \in CServiceEntry
      /\ \A f, g \in registered : f.sid = g.sid => f = g
  BY DEF Shard, TypeInv, TypeOK, NSTypeOK, SIdInv, EntriesHaveDistinctSIds
<1>1. PICK z \in registered : ~z.waiting /\ z.svc = t
  BY EntryFacts DEF HasEntry, Live
<1>2. z.sid # e.sid /\ z # e /\ z.sid \in SIds /\ e.sid \in SIds
  BY <1>0, <1>1 DEF CServiceEntry
<1>3. appId[t] = z.sid /\ z.sid # NoSId
  BY <1>1, <1>2 DEF Shard, ConnInv, LiveEntriesAreConnected, NoSId, SIds
<1>4. HasEntry(t)'
  <2>1. AsListed(z) \in Live /\ AsListed(z).svc = t /\ AsListed(e).svc = e.svc
    BY <1>1, EntryFacts
  <2>2. AsListed(z) \in Live'
    BY <2>1, RemoveRegistry
  <2> QED
    BY <2>1, <2>2 DEF HasEntry
<1> DEFINE removed == [e EXCEPT !.waiting = TRUE, !.late = FALSE, !.acks = AcksAwaited(e)]
           Without(f) == [f EXCEPT !.acks[e.sid] = 0]
<1>5. registered' = IF Acked(removed) THEN {Without(f) : f \in registered \ {e}}
                                      ELSE {Without(f) : f \in registered \ {e}} \cup {removed}
  BY DEF doRemove
<1>6. ASSUME NEW f \in registered, Awaits(f, t)
      PROVE  \E g \in registered' : Awaits(g, t)' /\ g.sid = f.sid /\ g.svc = f.svc
  <2>1. f # e /\ f.waiting /\ f.acks[z.sid] > 0
    BY <1>3, <1>6 DEF Awaits
  <2>2. Without(f) \in registered'
    BY <1>5, <2>1
  <2>3. /\ Without(f).waiting /\ Without(f).acks[z.sid] = f.acks[z.sid]
        /\ Without(f).sid = f.sid /\ Without(f).svc = f.svc
    BY <1>0, <1>2, <2>1 DEF CServiceEntry
  <2> QED
    BY <1>3, <2>1, <2>2, <2>3 DEF Awaits
<1>7. removed.acks[z.sid] > 0
  <2>1. AcksAwaited(e)[z.sid] = StillUp(e, z.sid) + e.acks[z.sid] /\ e.acks[z.sid] \in Nat
    BY <1>0, <1>2 DEF AcksAwaited, CServiceEntry
  <2> DEFINE up == {f \in registered : f # e /\ f.sid = z.sid /\ ~f.waiting}
  <2>2. up # {} /\ IsFiniteSet(up)
    BY <1>0, <1>1, <1>2, FS_Subset
  <2>3. StillUp(e, z.sid) \in Nat /\ StillUp(e, z.sid) # 0
    BY <2>2, FS_CardinalityType, FS_EmptySet DEF StillUp
  <2>4. removed.acks = AcksAwaited(e)
    BY <1>0 DEF CServiceEntry
  <2> QED
    BY <2>1, <2>3, <2>4
<1>8. removed \in registered'
  <2>1. NoAcks[z.sid] = 0
    BY <1>2 DEF NoAcks
  <2>2. ~Acked(removed)
    BY <1>7, <2>1 DEF Acked
  <2> QED
    BY <1>5, <2>2
<1>9. removed.waiting /\ removed.sid = e.sid /\ removed.svc = e.svc
  BY <1>0 DEF CServiceEntry
<1> QED
  BY <1>3, <1>4, <1>6, <1>7, <1>8, <1>9 DEF Awaits

LEMMA DisconnectAcks ==
  ASSUME Shard, ListsInv, AcksInv, DeadAreClosed, NEW s \in Services, Disconnect(s)
  PROVE  AcksInv'
<1> USE DEF Disconnect, NSDisconnect, clientVars, envVars
<1>0. /\ toNS \in [Services -> Seq(NSMessages)] /\ toSvc \in [Services -> Seq(SvcMessages)]
      /\ \A f \in registered : f \in CServiceEntry
      /\ \A f, g \in registered : f.sid = g.sid => f = g
  BY DEF Shard, TypeInv, TypeOK, NetTypeOK, NSTypeOK, SIdInv, EntriesHaveDistinctSIds
<1>1. \A t \in Services : toNS'[t] = IF t = s THEN <<>> ELSE toNS[t]
  BY <1>0
<1>2. \A t \in Services : Fewer(toNS'[t], toNS[t], "ACK_UNI")
  BY <1>1, FewerNone
<1>3. CASE UNCHANGED <<registered, toSvc>>
  <2>1. Live' = Live
    BY <1>3 DEF Live, AsListed
  <2>2. \A t \in Services, e \in registered : Owes(t, e) => e \in registered' /\ Owes(t, e)'
    BY <1>3, <2>1 DEF Owes, HasEntry, Awaits
  <2>3. \A t \in Services : Fewer(toSvc'[t], toSvc[t], "UNB")
    BY <1>3, FewerNone
  <2>4. AcksOK(s)'
    BY <1>2, <2>2, <2>3, OwedKeeps DEF AcksInv
  <2> QED
    BY <1>2, <1>3, <2>2, <2>3, <2>4, NSAcks DEF AcksInv
<1>4. ASSUME NEW e \in registered, e.svc = s, ~e.waiting, doRemove(e),
             toSvc' = Broadcast(Told(e), DownMsg(e.sid, s))
      PROVE  AcksInv'
  <2> DEFINE m == DownMsg(e.sid, s)
  <2>1. m.type = "UNB" /\ m.sid = e.sid /\ m.svc = s /\ e.sid \in SIds
    BY <1>0 DEF DownMsg, CServiceEntry
  <2>2. \A t \in Services :
          toSvc'[t] = IF HasEntry(t) /\ SameNet(s, t) /\ conn[t] /\ sock[t]
                      THEN Append(toSvc[t], m) ELSE toSvc[t]
    BY <1>4, ToldAre DEF Broadcast
  <2> HIDE DEF m
  <2>3. ~Alive(s)
    <3>1. 1 \in 1 .. Len(toNS[s]) /\ toNS[s][1].type = "DISC"
      BY <1>0, HeadAt DEF NSReads
    <3> QED
      BY <3>1 DEF ListsInv, StartOK
  <2>4. toSvc[s] = <<>> /\ ~conn[s]
    <3>1. phase[s] = "dead"
      BY <1>0, <2>3 DEF Alive, NSReads, Shard, TypeInv, TypeOK, ClientTypeOK, ConnInv,
                        OffIsUnknown, UnreadIsOpen
    <3> QED
      BY <3>1 DEF DeadAreClosed, Shard, ConnInv, UnsentIsOpen
  <2>5. AcksOK(s)'
    <3>1. toSvc'[s] = <<>> /\ toNS'[s] = <<>> /\ Len(<<>>) = 0
      BY <1>1, <2>2, <2>4
    <3> QED
      BY <3>1 DEF AcksOK, NoticesOK, ReceiptsOK, OnceEach, About, AtMostOne
  <2>6. ASSUME NEW t \in Services, t # s PROVE AcksOK(t)'
    <3>1. AcksOK(t) /\ toNS'[t] = toNS[t]
      BY <1>1, <2>6 DEF AcksInv
    <3>2. \A f \in registered : Owes(t, f) =>
            \E g \in registered' : Owes(t, g)' /\ g.sid = f.sid /\ g.svc = f.svc
      BY <1>4, <2>6, RemovalOwes DEF Owes
    <3>3. CASE toSvc'[t] = toSvc[t]
      BY <3>1, <3>2, <3>3, FewerNone, OwedKeeps
    <3>4. CASE HasEntry(t) /\ toSvc'[t] = Append(toSvc[t], m)
      <4>1. NoticesOK(t)'
        <5>1. \A n \in 1 .. Len(toSvc'[t]) :
                \/ n \in 1 .. Len(toSvc[t]) /\ toSvc'[t][n] = toSvc[t][n]
                \/ toSvc'[t][n] = m
          BY <1>0, <3>4
        <5>2. \E g \in registered' : Owes(t, g)' /\ g.sid = m.sid /\ g.svc = m.svc
          BY <1>4, <2>1, <2>6, <3>4, RemovalOwes DEF Owes
        <5>3. ASSUME NEW n \in 1 .. Len(toSvc[t]), toSvc[t][n].type = "UNB"
              PROVE  \E g \in registered' : Owes(t, g)' /\ g.sid = toSvc[t][n].sid
                                                        /\ g.svc = toSvc[t][n].svc
          <6>1. PICK f \in registered : Owes(t, f) /\ f.sid = toSvc[t][n].sid
                                                   /\ f.svc = toSvc[t][n].svc
            BY <3>1, <5>3 DEF AcksOK, NoticesOK
          <6> QED
            BY <3>2, <6>1
        <5>4. SUFFICES ASSUME NEW n \in 1 .. Len(toSvc'[t]), toSvc'[t][n].type = "UNB"
                       PROVE  \E g \in registered' : Owes(t, g)' /\ g.sid = toSvc'[t][n].sid
                                                                 /\ g.svc = toSvc'[t][n].svc
          BY DEF NoticesOK
        <5>5. CASE toSvc'[t][n] = m
          BY <5>2, <5>5
        <5>6. CASE n \in 1 .. Len(toSvc[t]) /\ toSvc'[t][n] = toSvc[t][n]
          <6>1. toSvc[t][n].type = "UNB"
            BY <5>4, <5>6
          <6> QED
            BY <5>3, <5>6, <6>1
        <5> QED
          BY <5>1, <5>5, <5>6
      <4>2. ReceiptsOK(t)'
        BY <3>1, <3>2 DEF AcksOK, ReceiptsOK
      <4>3. OnceEach(t)'
        <5> SUFFICES ASSUME NEW i \in SIds
                     PROVE  /\ AtMostOne(About(toSvc'[t], "UNB", i))
                            /\ AtMostOne(About(toNS'[t], "ACK_UNI", i))
                            /\ \/ About(toSvc'[t], "UNB", i) = {}
                               \/ About(toNS'[t], "ACK_UNI", i) = {}
          BY DEF OnceEach
        <5>1. /\ AtMostOne(About(toSvc[t], "UNB", i)) /\ AtMostOne(About(toNS[t], "ACK_UNI", i))
              /\ About(toSvc[t], "UNB", i) = {} \/ About(toNS[t], "ACK_UNI", i) = {}
          BY <3>1 DEF AcksOK, OnceEach
        <5>2. CASE i = e.sid
          <6>1. \A f \in registered : f.sid = i => ~Owes(t, f)
            BY <1>0, <1>4, <5>2 DEF Owes, Awaits
          <6>2. About(toSvc[t], "UNB", i) = {}
            BY <3>1, <6>1 DEF About, AcksOK, NoticesOK
          <6>3. About(toNS[t], "ACK_UNI", i) = {}
            BY <3>1, <6>1 DEF About, AcksOK, ReceiptsOK
          <6>4. AtMostOne(About(Append(toSvc[t], m), "UNB", i))
            BY <1>0, <6>2, AboutAppend
          <6> QED
            BY <3>1, <3>4, <5>1, <6>3, <6>4
        <5>3. CASE i # e.sid
          <6>1. ~(m.type = "UNB" /\ m.sid = i) /\ toSvc[t] \in Seq(SvcMessages)
            BY <1>0, <2>1, <5>3
          <6>2. About(Append(toSvc[t], m), "UNB", i) = About(toSvc[t], "UNB", i)
            BY ONLY <6>1, AboutAppend
          <6> QED
            BY <3>1, <3>4, <5>1, <6>2
        <5> QED
          BY <5>2, <5>3
      <4> QED
        BY <4>1, <4>2, <4>3 DEF AcksOK
    <3> QED
      BY <2>2, <3>3, <3>4
  <2>7. \A f \in registered' : ~f.late
    BY <1>0, <1>4 DEF AcksInv, doRemove, CServiceEntry
  <2> QED
    BY <2>5, <2>6, <2>7 DEF AcksInv
<1> QED
  BY <1>3, <1>4

(* An acknowledgement is counted for the entry it is about, once.          *)
LEMMA AckAcks ==
  ASSUME Shard, AcksInv, NEW s \in Services, Ack(s)
  PROVE  AcksInv'
<1> USE DEF Ack, NSAck, clientVars, envVars
<1>0. /\ toNS \in [Services -> Seq(NSMessages)] /\ appId \in [Services -> SIds \cup {NoSId}]
      /\ \A f \in registered : f \in CServiceEntry
      /\ \A f, g \in registered : f.sid = g.sid => f = g
      /\ \A f \in registered : ~f.late
  BY DEF Shard, TypeInv, TypeOK, NetTypeOK, NSTypeOK, SIdInv, EntriesHaveDistinctSIds, AcksInv
<1>1. Live' = Live
  BY AckTidies, TidyRegistry
<1>2. \A t \in Services :
        Fewer(toSvc'[t], toSvc[t], "UNB") /\ Fewer(toNS'[t], toNS[t], "ACK_UNI")
  BY FewerNone, ReadFewer DEF NSReads
<1> DEFINE m == toNS[s][1]
<1>3. /\ toNS[s] # <<>> /\ Head(toNS[s]) = m /\ m.type = "ACK_UNI" /\ 1 \in 1 .. Len(toNS[s])
      /\ m \in NSMessages /\ m.sid \in SIds
  BY <1>0, HeadAt, NSMessageFields DEF NSReads
<1>4. PICK y \in registered : Owes(s, y) /\ y.sid = m.sid
  BY <1>3 DEF AcksInv, AcksOK, ReceiptsOK
<1>5. About(toNS'[s], "ACK_UNI", m.sid) = {} /\ About(toSvc'[s], "UNB", m.sid) = {}
  <2>1. /\ AtMostOne(About(toNS[s], "ACK_UNI", m.sid))
        /\ About(toSvc[s], "UNB", m.sid) = {} \/ About(toNS[s], "ACK_UNI", m.sid) = {}
    BY <1>3 DEF AcksInv, AcksOK, OnceEach
  <2>2. 1 \in About(toNS[s], "ACK_UNI", m.sid)
    BY <1>3 DEF About
  <2>3. toNS'[s] = Tail(toNS[s])
    BY <1>0
  <2>4. About(Tail(toNS[s]), "ACK_UNI", m.sid) = {}
    BY <1>0, <1>3, <2>1, FewerTail
  <2> QED
    BY <2>1, <2>2, <2>3, <2>4
<1> HIDE DEF m
<1> DEFINE d == [y EXCEPT !.acks[appId[s]] = @ - 1]
<1>6. registered' = CheckWaiting((registered \ {y}) \cup {d})
  <2>1. {e \in registered : e.sid = m.sid /\ Awaits(e, s)} = {y}
    BY <1>0, <1>4 DEF Owes
  <2> QED
    BY <1>3, <2>1
<1>7. /\ d.sid = y.sid /\ d.svc = y.svc /\ d.waiting = y.waiting /\ d.late = y.late
      /\ \A i \in SIds : i # appId[s] => d.acks[i] = y.acks[i]
  BY <1>0 DEF CServiceEntry
<1> HIDE DEF d
<1>8. ASSUME NEW t \in Services, NEW e \in registered, Owes(t, e), t = s => e.sid # m.sid
      PROVE  \E f \in registered' : Owes(t, f)' /\ f.sid = e.sid /\ f.svc = e.svc
  <2>1. CASE e # y
    <3>1. e \in registered'
      BY <1>0, <1>6, <1>8, <2>1, CheckedStays DEF Owes
    <3> QED
      BY <1>1, <1>8, <3>1 DEF Owes, HasEntry, Awaits
  <2>2. CASE e = y
    <3>1. t # s
      BY <1>4, <1>8, <2>2
    <3>2. PICK x \in registered : ~x.waiting /\ x.svc = t
      BY <1>8, EntryFacts DEF Owes, HasEntry, Live
    <3>3. PICK z \in registered : ~z.waiting /\ z.svc = s
      BY <1>4, EntryFacts DEF Owes, HasEntry, Live
    <3>4. appId[t] # appId[s]
      BY <1>0, <3>1, <3>2, <3>3 DEF Shard, ConnInv, LiveEntriesAreConnected
    <3>5. Awaits(d, t)
      BY <1>0, <1>7, <1>8, <2>2, <3>4 DEF Owes, Awaits
    <3>6. d \in registered'
      BY <1>0, <1>6, <1>7, <3>5, CheckedStays
    <3> QED
      BY <1>1, <1>7, <1>8, <2>2, <3>5, <3>6 DEF Owes, HasEntry, Awaits
  <2> QED
    BY <2>1, <2>2
<1>9. AcksOK(s)'
  <2>1. \A e \in registered :
          Owes(s, e) /\ (\/ About(toSvc'[s], "UNB", e.sid) # {}
                         \/ About(toNS'[s], "ACK_UNI", e.sid) # {})
            => \E f \in registered' : Owes(s, f)' /\ f.sid = e.sid /\ f.svc = e.svc
    BY <1>5, <1>8
  <2> QED
    BY <1>2, <2>1, OwedKeeps DEF AcksInv
<1>10. \A f \in registered' : ~f.late
  BY <1>0, <1>6, <1>7 DEF CheckWaiting
<1> QED
  BY <1>2, <1>8, <1>9, <1>10, NSAcks

LEMMA UpdateAcks ==
  ASSUME Shard, AcksInv, Update
  PROVE  AcksInv'
<1> USE DEF Update, NSUpdate, netVars, clientVars, envVars
<1>1. Live' = Live
  <2>1. Tidied
    BY DEF Tidied, CheckWaiting, Removable
  <2> QED
    BY <2>1, TidyRegistry
<1>2. \A t \in Services :
        Fewer(toSvc'[t], toSvc[t], "UNB") /\ Fewer(toNS'[t], toNS[t], "ACK_UNI")
  BY FewerNone
<1>3. ASSUME NEW t \in Services, NEW e \in registered, Owes(t, e)
      PROVE  e \in registered' /\ Owes(t, e)'
  <2>1. e \in registered'
    BY <1>3, CheckedStays DEF AcksInv, Owes
  <2> QED
    BY <1>1, <1>3, <2>1 DEF Owes, HasEntry, Awaits
<1>4. \A t \in Services : AcksOK(t)'
  BY <1>2, <1>3, OwedKeeps DEF AcksInv
<1>5. \A f \in registered' : ~f.late
  BY DEF AcksInv, CheckWaiting
<1> QED
  BY <1>4, <1>5 DEF AcksInv

(* Steps that change neither the queues nor the entries.                   *)
LEMMA IdleAcks ==
  ASSUME AcksInv, UNCHANGED <<toNS, toSvc, registered, appId, killed>>
  PROVE  AcksInv'
<1>1. Live' = Live
  BY DEF Live, AsListed
<1>2. \A t \in Services, e \in registered : Owes(t, e) => e \in registered' /\ Owes(t, e)'
  BY <1>1 DEF Owes, HasEntry, Awaits
<1>3. \A t \in Services : AcksOK(t)'
  BY <1>2, FewerNone, OwedKeeps DEF AcksInv
<1> QED
  BY <1>3 DEF AcksInv

(* Nothing is killed and no acknowledgement is late.                       *)
Calm == MaxNSCrashes = 0 /\ MaxKills = 0 /\ ~Timeouts

LEMMA DeadStep == TypeInv /\ DeadAreClosed /\ [Next]_vars => DeadAreClosed'
<1> SUFFICES ASSUME TypeInv, DeadAreClosed, [Next]_vars PROVE DeadAreClosed'
  OBVIOUS
<1> USE DEF DeadAreClosed, clientVars, netVars
<1>0. /\ phase \in [Services -> {"off", "registering", "registered", "running", "dead"}]
      /\ conn \in [Services -> BOOLEAN]
  BY DEF TypeInv, TypeOK, NetTypeOK, ClientTypeOK
<1>1. ASSUME NEW s \in Services, Start(s) \/ Reconnect(s) PROVE DeadAreClosed'
  BY <1>0, <1>1 DEF Start, ClientStart, Reconnect, ClientReconnect
<1>2. ASSUME NEW s \in Services, NSStep(s) PROVE DeadAreClosed'
  BY <1>2 DEF NSStep, Register, NSRegister, Reregister, NSReregister, Disconnect, NSDisconnect,
              Ack, NSAck
<1>3. CASE Update \/ Timeout \/ Kill \/ LoseNS \/ RestartNS
  BY <1>3 DEF Update, NSUpdate, Timeout, NSTimeout, Kill, NSKill, LoseNS, NSCrash, RestartNS,
              NSRestart
<1>4. ASSUME NEW s \in Services, Dies(s) PROVE DeadAreClosed'
  BY <1>0, <1>4 DEF Dies
<1>5. ASSUME NEW s \in Services, Registered(s) PROVE DeadAreClosed'
  BY <1>0, <1>4, <1>5 DEF Registered, ClientRegistered
<1>6. ASSUME NEW s \in Services, Connect(s) \/ ServiceUp(s) \/ ServiceDown(s) \/ LosesNS(s)
      PROVE  DeadAreClosed'
  BY <1>0, <1>6 DEF Connect, ClientConnect, ServiceUp, ClientServiceUp, ServiceDown,
                    ClientServiceDown, LosesNS, ClientLosesNS
<1>7. ASSUME NEW s \in Services, Exit(s) \/ Crash(s) PROVE DeadAreClosed'
  BY <1>4, <1>7 DEF Exit, ClientExit, Crash, ClientCrash
<1>8. CASE UNCHANGED vars
  BY <1>8 DEF vars
<1> QED
  BY <1>1, <1>2, <1>3, <1>5, <1>6, <1>7, <1>8 DEF Next, ServiceStep

LEMMA AcksStep ==
  Calm /\ Shard /\ ListsInv /\ DeadAreClosed /\ AcksInv /\ [Next]_vars => AcksInv'
<1> SUFFICES ASSUME Calm, Shard, ListsInv, DeadAreClosed, AcksInv, [Next]_vars PROVE AcksInv'
  OBVIOUS
<1>0. /\ toNS \in [Services -> Seq(NSMessages)] /\ toSvc \in [Services -> Seq(SvcMessages)]
      /\ phase \in [Services -> {"off", "registering", "registered", "running", "dead"}]
      /\ kills \in Nat /\ AliveIsConnected /\ NoLossRead /\ RequestIsOpen /\ nsCrashes = 0
  BY DEF Shard, SIdInv, TypeInv, TypeOK, NetTypeOK, ClientTypeOK
<1>1. ASSUME NEW s \in Services, Start(s) PROVE AcksInv'
  BY <1>1, StartAcks
<1>2. ASSUME NEW s \in Services, Reconnect(s) PROVE AcksInv'
  BY <1>0, <1>2 DEF Reconnect, ClientReconnect, AliveIsConnected, Alive
<1>3. ASSUME NEW s \in Services, Register(s) PROVE AcksInv'
  <2> USE <1>3 DEF Register, NSRegister, clientVars, envVars
  <2>1. Head(toNS[s]).sid = NoSId
    BY <1>0, HeadAt DEF NSReads, RequestIsOpen
  <2>2. ASSUME NEW i \in SIds, Granted(s, NoSId, i), Grant(s, i), toSvc' = AfterGrant(s, i)
        PROVE  AcksInv'
    <3>1. i \notin UsedSIds
      BY <2>2 DEF Granted, ChosenSId
    <3> QED
      BY <2>2, <3>1, GrantAcks
  <2>3. CASE toSvc' = AfterDenial(s) /\ UNCHANGED <<online, registered, nextPos, appId>>
    BY <2>3, DenialAcks
  <2> QED
    BY <2>1, <2>2, <2>3
<1>4. ASSUME NEW s \in Services, Reregister(s) PROVE AcksInv'
  BY <1>0, <1>4, HeadAt DEF Reregister, NSReregister, NSReads, RequestIsOpen
<1>5. ASSUME NEW s \in Services, Disconnect(s) PROVE AcksInv'
  BY <1>5, DisconnectAcks
<1>6. ASSUME NEW s \in Services, Ack(s) PROVE AcksInv'
  BY <1>6, AckAcks
<1>7. CASE Update
  BY <1>7, UpdateAcks
<1>8. CASE Timeout \/ Kill \/ LoseNS
  BY <1>0, <1>8 DEF Calm, Timeout, Kill, LoseNS
<1>9. CASE RestartNS
  BY <1>9, IdleAcks DEF RestartNS, NSRestart, netVars, envVars
<1>10. ASSUME NEW s \in Services, Dies(s), UNCHANGED <<nsVars, killed, known, mySId, dialed>>
       PROVE  AcksInv'
  BY <1>10, DyingAcks DEF nsVars
<1>11. ASSUME NEW s \in Services, OwnStep(s), appId' = appId, toNS'[s] = toNS[s],
              toSvc[s] # <<>>, toSvc'[s] = Tail(toSvc[s])
       PROVE  AcksInv'
  <2>1. toSvc[s] \in Seq(SvcMessages)
    BY <1>0
  <2>2. Fewer(toSvc'[s], toSvc[s], "UNB")
    BY <1>11, <2>1, FewerTail
  <2> QED
    BY <1>11, <2>2, FewerNone, OwnFewer
<1>12. ASSUME NEW s \in Services, Registered(s) PROVE AcksInv'
  <2> USE <1>12 DEF Registered, ClientRegistered, nsVars, envVars
  <2>1. CASE Dies(s) /\ UNCHANGED <<mySId, known>>
    BY <1>10, <2>1
  <2>2. CASE /\ toSvc' = [toSvc EXCEPT ![s] = Tail(@)] /\ UNCHANGED <<conn, toNS>>
             /\ mySId' = [mySId EXCEPT ![s] = Head(toSvc[s]).sid]
             /\ known' = [known EXCEPT ![s] = InsertAll(Head(toSvc[s]).list)]
             /\ phase' = [phase EXCEPT ![s] = "registered"]
    <3>1. OwnStep(s)
      BY <1>0, <2>2 DEF OwnStep, Same, Shard, TypeInv, TypeOK, ClientTypeOK
    <3>2. toSvc'[s] = Tail(toSvc[s]) /\ toSvc[s] # <<>>
      BY <1>0, <2>2 DEF SvcReads
    <3> QED
      BY <1>11, <2>2, <3>1, <3>2
  <2> QED
    BY <2>1, <2>2
<1>13. ASSUME NEW s \in Services, Connect(s) PROVE AcksInv'
  BY <1>13, IdleAcks DEF Connect, ClientConnect, netVars, nsVars, envVars
<1>14. ASSUME NEW s \in Services, ServiceUp(s) PROVE AcksInv'
  <2> USE <1>14 DEF ServiceUp, ClientServiceUp, nsVars, envVars
  <2>1. OwnStep(s)
    BY <1>0 DEF OwnStep, Same, Shard, TypeInv, TypeOK, ClientTypeOK
  <2>2. toSvc'[s] = Tail(toSvc[s]) /\ toSvc[s] # <<>>
    BY <1>0 DEF SvcReads
  <2> QED
    BY <1>11, <2>1, <2>2
<1>15. ASSUME NEW s \in Services, ServiceDown(s) PROVE AcksInv'
  BY <1>15, ServiceDownAcks
<1>16. ASSUME NEW s \in Services, LosesNS(s) PROVE AcksInv'
  BY <1>0, <1>16, HeadAt DEF LosesNS, ClientLosesNS, SvcReads, NoLossRead
<1>17. ASSUME NEW s \in Services, Exit(s) \/ Crash(s) PROVE AcksInv'
  BY <1>10, <1>17 DEF Exit, ClientExit, Crash, ClientCrash, nsVars, envVars
<1>18. CASE UNCHANGED vars
  BY <1>18, IdleAcks DEF vars, netVars, nsVars, envVars
<1> QED
  BY <1>1, <1>2, <1>3, <1>4, <1>5, <1>6, <1>7, <1>8, <1>9, <1>12, <1>13, <1>14, <1>15, <1>16,
     <1>17, <1>18 DEF Next, ServiceStep, NSStep

LEMMA AcksInvariant ==
  ASSUME Calm, DynamicSIds
  PROVE  Spec => [](Shard /\ ListsInv /\ DeadAreClosed /\ AcksInv)
<1>1. Init => DeadAreClosed
  BY DEF Init, ClientInit, DeadAreClosed
<1>2. Spec => [](Shard /\ ListsInv)
  BY ListsInvariant DEF Calm
<1>3. (Shard /\ ListsInv) /\ (DeadAreClosed /\ AcksInv) /\ [Next]_vars => (DeadAreClosed /\ AcksInv)'
  BY DeadStep, AcksStep DEF Shard
<1> QED
  BY <1>1, <1>2, <1>3, AcksInit, PTL DEF Spec

-----------------------------------------------------------------------------
(* Leases.  What the owner of an SId lists under an SId is the service     *)
(* that the NS has under it.                                               *)
UsesAreHeld ==
  \A u \in Services : Owner(u) => \A x \in known[u] :
    \E e \in registered : e.sid = x.sid /\ e.svc = x.svc

LEMMA HeldUses == Shard /\ ListsInv /\ AcksInv => UsesAreHeld
<1> SUFFICES ASSUME Shard, ListsInv, AcksInv, NEW u \in Services, Owner(u), NEW x \in known[u]
             PROVE  \E e \in registered : e.sid = x.sid /\ e.svc = x.svc
  BY DEF UsesAreHeld
<1>0. /\ toSvc[u] \in Seq(SvcMessages) /\ x \in Listed
  BY DEF Shard, TypeInv, TypeOK, NetTypeOK, ClientTypeOK
<1>1. Fits(known[u], toSvc[u]) /\ (Lists(known[u], toSvc[u], Len(toSvc[u]), x) <=> x \in Current(u))
  BY <1>0, OwnersHaveEntries DEF ListsInv, ListOK
<1>2. CASE x \in Current(u)
  <2>1. PICK e \in registered : x = AsListed(e)
    BY <1>2 DEF Current, Live
  <2> QED
    BY <2>1, EntryFacts
<1>3. CASE x \notin Current(u)
  <2>1. PICK k \in 1 .. Len(toSvc[u]) : Drops(toSvc[u][k], x)
    <3>1. Len(toSvc[u]) \in Nat /\ 0 \in 0 .. Len(toSvc[u])
      BY <1>0
    <3> QED
      BY <1>1, <1>3, <3>1 DEF Lists
  <2>2. toSvc[u][k].type = "UNB" /\ toSvc[u][k].sid = x.sid
    BY <2>1 DEF Drops
  <2>3. \A j \in 1 .. k - 1 : ~Drops(toSvc[u][j], x)
    <3> SUFFICES ASSUME NEW j \in 1 .. k - 1, Drops(toSvc[u][j], x) PROVE FALSE
      OBVIOUS
    <3>1. j \in 1 .. Len(toSvc[u]) /\ j # k
      BY <1>0, <2>1
    <3>2. AtMostOne(About(toSvc[u], "UNB", x.sid))
      BY <1>0 DEF AcksInv, AcksOK, OnceEach, Listed
    <3>3. j \in About(toSvc[u], "UNB", x.sid) /\ k \in About(toSvc[u], "UNB", x.sid)
      BY <2>2, <3>1 DEF About, Drops
    <3> QED
      BY <3>1, <3>2, <3>3 DEF AtMostOne
  <2>4. Lists(known[u], toSvc[u], k - 1, x)
    <3>1. 0 \in 0 .. k - 1 /\ 0 + 1 = 1
      BY <1>0
    <3> QED
      BY <2>3, <3>1 DEF Lists
  <2>5. x.svc = toSvc[u][k].svc
    BY <1>0, <1>1, <2>2, <2>4 DEF Fits, Fitting
  <2> QED
    BY <2>2, <2>5 DEF AcksInv, AcksOK, NoticesOK
<1> QED
  BY <1>2, <1>3

Retires(i) == \E e \in EntryOf(i) : e.waiting

LEMMA ChooseOnly == \A x : (CHOOSE e \in {x} : TRUE) = x
  OBVIOUS

HoldersOK ==
  \A i : /\ EntryOf(i) = {} => HolderOf(i) = NoService /\ ~Retires(i)
         /\ \A e \in registered : e.sid = i => HolderOf(i) = e.svc /\ (Retires(i) <=> e.waiting)

LEMMA HolderFacts == EntriesHaveDistinctSIds => HoldersOK
<1> SUFFICES ASSUME EntriesHaveDistinctSIds, NEW i
             PROVE  /\ EntryOf(i) = {} => HolderOf(i) = NoService /\ ~Retires(i)
                    /\ \A e \in registered : e.sid = i =>
                         HolderOf(i) = e.svc /\ (Retires(i) <=> e.waiting)
  BY DEF HoldersOK
<1>1. ASSUME NEW e \in registered, e.sid = i PROVE EntryOf(i) = {e}
  BY <1>1 DEF EntryOf, EntriesHaveDistinctSIds
<1>2. EntryOf(i) = {} => HolderOf(i) = NoService /\ ~Retires(i)
  BY DEF HolderOf, Retires
<1>3. ASSUME NEW e \in registered, e.sid = i
      PROVE  HolderOf(i) = e.svc /\ (Retires(i) <=> e.waiting)
  BY <1>1, <1>3, ChooseOnly DEF HolderOf, Retires
<1> QED
  BY <1>2, <1>3

UsesOK ==
  \A i : \A u \in UsesOf(i) : u[2] = HolderOf(i) /\ HolderOf(i) # NoService

LEMMA UsesFacts == Shard /\ UsesAreHeld => UsesOK
<1> SUFFICES ASSUME Shard, UsesAreHeld, NEW i, NEW u \in UsesOf(i)
             PROVE  u[2] = HolderOf(i) /\ HolderOf(i) # NoService
  BY DEF UsesOK
<1>1. /\ u \in Services \X Services /\ Owner(u[1])
      /\ \E x \in known[u[1]] : x.sid = i /\ x.svc = u[2]
  BY DEF UsesOf
<1>2. PICK e \in registered : e.sid = i /\ e.svc = u[2]
  BY <1>1 DEF UsesAreHeld
<1>3. HolderOf(i) = e.svc
  BY <1>2, HolderFacts DEF Shard, SIdInv, HoldersOK
<1>4. e.svc \in Services
  BY <1>2, EntryFacts DEF CServiceEntry
<1> QED
  BY <1>1, <1>2, <1>3, <1>4, NetAssumption

(* What the steps of the lease rest on.                                    *)
Leased == Shard /\ HoldersOK /\ UsesOK

LEMMA LeasedFacts == Shard /\ ListsInv /\ AcksInv => Leased
  BY HeldUses, HolderFacts, UsesFacts DEF Leased, Shard, SIdInv

(* Steps of the lease on one SId.                                          *)
LeaseStep(i) ==
  \/ Lease!Same(i) \/ Lease!Grant(i) \/ Lease!Learn(i)
  \/ Lease!Forget(i) \/ Lease!Retire(i) \/ Lease!Release(i)

LEMMA KeptLease ==
  ASSUME NEW i \in SIds, HolderOf(i)' = HolderOf(i), Retires(i)' <=> Retires(i),
         \/ UsesOf(i)' \subseteq UsesOf(i)
         \/ /\ HolderOf(i) # NoService
            /\ \E s \in Services : UsesOf(i)' = UsesOf(i) \cup {<<s, HolderOf(i)>>}
  PROVE  LeaseStep(i)
<1>1. CASE UsesOf(i)' \subseteq UsesOf(i)
  BY <1>1 DEF LeaseStep, Lease!Forget, Retires
<1>2. CASE /\ HolderOf(i) # NoService
           /\ \E s \in Services : UsesOf(i)' = UsesOf(i) \cup {<<s, HolderOf(i)>>}
  BY <1>2 DEF LeaseStep, Lease!Learn, Retires
<1> QED
  BY <1>1, <1>2

(* Steps of a service: it learns who holds an SId, or forgets it.          *)
LEMMA ClientLease ==
  ASSUME Leased, Leased', registered' = registered, NEW s \in Services,
         \A u \in Services : u # s => (Owner(u)' <=> Owner(u)) /\ known'[u] = known[u],
         \/ Owner(s)' => Owner(s) /\ known'[s] \subseteq known[s]
         \/ Owner(s)' /\ (Owner(s) => known[s] \subseteq known'[s])
  PROVE  \A i \in SIds : LeaseStep(i)
<1> TAKE i \in SIds
<1>1. HolderOf(i)' = HolderOf(i) /\ (Retires(i)' <=> Retires(i))
  BY DEF HolderOf, Retires, EntryOf
<1>2. /\ \A u : u \in UsesOf(i) <=>
           /\ u \in Services \X Services /\ Owner(u[1])
           /\ \E e \in known[u[1]] : e.sid = i /\ e.svc = u[2]
      /\ \A u : u \in UsesOf(i)' <=>
           /\ u \in Services \X Services /\ Owner(u[1])'
           /\ \E e \in known'[u[1]] : e.sid = i /\ e.svc = u[2]
  BY DEF UsesOf
<1>3. \A u \in Services \X Services :
        u[1] \in Services /\ u[2] \in Services /\ u = <<u[1], u[2]>>
  OBVIOUS
<1>4. CASE Owner(s)' => Owner(s) /\ known'[s] \subseteq known[s]
  <2>1. UsesOf(i)' \subseteq UsesOf(i)
    <3> SUFFICES ASSUME NEW u \in UsesOf(i)' PROVE u \in UsesOf(i)
      OBVIOUS
    <3>1. CASE u[1] = s
      BY <1>2, <1>4, <3>1
    <3>2. CASE u[1] # s
      BY <1>2, <1>3, <3>2
    <3> QED
      BY <3>1, <3>2
  <2> QED
    BY <1>1, <2>1, KeptLease
<1>5. CASE Owner(s)' /\ (Owner(s) => known[s] \subseteq known'[s])
  <2>1. UsesOf(i) \subseteq UsesOf(i)'
    <3> SUFFICES ASSUME NEW u \in UsesOf(i) PROVE u \in UsesOf(i)'
      OBVIOUS
    <3>1. CASE u[1] = s
      BY <1>2, <1>5, <3>1
    <3>2. CASE u[1] # s
      BY <1>2, <1>3, <3>2
    <3> QED
      BY <3>1, <3>2
  <2>2. ASSUME NEW u \in UsesOf(i)', u \notin UsesOf(i)
        PROVE  u = <<s, HolderOf(i)>> /\ HolderOf(i) # NoService
    <3>1. u[1] = s
      BY <1>2, <1>3, <2>2
    <3>2. u[2] = HolderOf(i) /\ HolderOf(i) # NoService
      BY <1>1, <2>2 DEF Leased, UsesOK
    <3> QED
      BY <1>2, <1>3, <2>2, <3>1, <3>2
  <2>3. CASE UsesOf(i)' \subseteq UsesOf(i)
    BY <1>1, <2>3, KeptLease
  <2>4. CASE ~(UsesOf(i)' \subseteq UsesOf(i))
    <3>1. UsesOf(i)' = UsesOf(i) \cup {<<s, HolderOf(i)>>} /\ HolderOf(i) # NoService
      BY <2>1, <2>2, <2>4
    <3> QED
      BY <1>1, <3>1, KeptLease
  <2> QED
    BY <2>3, <2>4
<1> QED
  BY <1>4, <1>5

(* Steps of the NS: it grants the SId, retires the holder or lets it go.   *)
SameUsers == \A u \in Services : (Owner(u)' <=> Owner(u)) /\ known'[u] = known[u]

LEMMA RegistryLease ==
  ASSUME Leased, Leased', SameUsers, NEW i \in SIds,
         \/ \E e \in registered : \E f \in registered' :
              e.sid = i /\ f.sid = i /\ f.svc = e.svc /\ (e.waiting => f.waiting)
         \/ EntryOf(i) = {} /\ EntryOf(i)' = {}
         \/ EntryOf(i) = {} /\ \E f \in registered' : f.sid = i /\ ~f.waiting
         \/ EntryOf(i)' = {} /\ \E e \in registered : e.sid = i
  PROVE  LeaseStep(i)
<1>1. UsesOf(i)' = UsesOf(i)
  <2>1. \A u \in Services \X Services : u[1] \in Services
    OBVIOUS
  <2>2. /\ UsesOf(i) = {u \in Services \X Services :
                          Owner(u[1]) /\ \E e \in known[u[1]] : e.sid = i /\ e.svc = u[2]}
        /\ UsesOf(i)' = {u \in Services \X Services :
                           Owner(u[1])' /\ \E e \in known'[u[1]] : e.sid = i /\ e.svc = u[2]}
    BY DEF UsesOf
  <2>3. ASSUME NEW u \in Services \X Services
        PROVE  (Owner(u[1])' /\ \E e \in known'[u[1]] : e.sid = i /\ e.svc = u[2])
                 <=> (Owner(u[1]) /\ \E e \in known[u[1]] : e.sid = i /\ e.svc = u[2])
    BY <2>1 DEF SameUsers
  <2> QED
    BY <2>2, <2>3
<1>2. /\ EntryOf(i) = {} => HolderOf(i) = NoService /\ ~Retires(i)
      /\ \A e \in registered : e.sid = i => HolderOf(i) = e.svc /\ (Retires(i) <=> e.waiting)
      /\ EntryOf(i)' = {} => HolderOf(i)' = NoService /\ ~Retires(i)'
      /\ \A f \in registered' : f.sid = i => HolderOf(i)' = f.svc /\ (Retires(i)' <=> f.waiting)
  BY DEF Leased, HoldersOK
<1>3. /\ HolderOf(i) = NoService => UsesOf(i) = {}
      /\ HolderOf(i)' = NoService => UsesOf(i)' = {}
  BY DEF Leased, UsesOK
<1>4. /\ \A e \in registered : e.svc \in Services
      /\ \A f \in registered' : f.svc \in Services
  BY DEF Leased, Shard, TypeInv, TypeOK, NSTypeOK, CServiceEntry
<1>5. ASSUME NEW e \in registered, NEW f \in registered', e.sid = i, f.sid = i, f.svc = e.svc,
             e.waiting => f.waiting
      PROVE  LeaseStep(i)
  <2>1. HolderOf(i) = e.svc /\ HolderOf(i)' = e.svc /\ e.svc # NoService
    BY <1>2, <1>4, <1>5, NetAssumption
  <2>2. (Retires(i) <=> e.waiting) /\ (Retires(i)' <=> f.waiting)
    BY <1>2, <1>5
  <2>3. CASE Retires(i)' <=> Retires(i)
    BY <1>1, <2>1, <2>3, KeptLease
  <2>4. CASE ~Retires(i) /\ Retires(i)'
    BY <1>1, <2>1, <2>4 DEF LeaseStep, Lease!Retire, Retires
  <2> QED
    BY <1>5, <2>2, <2>3, <2>4
<1>6. CASE EntryOf(i) = {} /\ EntryOf(i)' = {}
  BY <1>1, <1>2, <1>6, KeptLease
<1>7. ASSUME EntryOf(i) = {}, NEW f \in registered', f.sid = i, ~f.waiting
      PROVE  LeaseStep(i)
  <2>1. HolderOf(i) = NoService /\ UsesOf(i) = {} /\ UsesOf(i)' = {}
    BY <1>1, <1>2, <1>3, <1>7
  <2>2. HolderOf(i)' \in Services /\ ~Retires(i)'
    BY <1>2, <1>4, <1>7
  <2> QED
    BY <2>1, <2>2 DEF LeaseStep, Lease!Grant, Retires
<1>8. ASSUME EntryOf(i)' = {}, NEW e \in registered, e.sid = i
      PROVE  LeaseStep(i)
  <2>1. HolderOf(i)' = NoService /\ ~Retires(i)' /\ UsesOf(i) = {} /\ UsesOf(i)' = {}
    BY <1>1, <1>2, <1>3, <1>8
  <2>2. HolderOf(i) # NoService
    BY <1>2, <1>4, <1>8, NetAssumption
  <2> QED
    BY <2>1, <2>2 DEF LeaseStep, Lease!Release, Retires
<1> QED
  BY <1>5, <1>6, <1>7, <1>8

LEMMA TidyLease ==
  ASSUME Leased, Leased', SameUsers, Tidied, NEW i \in SIds
  PROVE  LeaseStep(i)
<1>1. /\ EntryOf(i) = {} <=> \A e \in registered : e.sid # i
      /\ EntryOf(i)' = {} <=> \A f \in registered' : f.sid # i
  BY DEF EntryOf
<1>2. \A e, f \in registered : e.sid = f.sid => e = f
  BY DEF Leased, Shard, SIdInv, EntriesHaveDistinctSIds
<1>3. \A f \in registered' :
        \E e \in registered : e.sid = f.sid /\ e.svc = f.svc /\ (e.waiting => f.waiting)
  BY DEF Tidied, AsListed
<1> QED
  BY <1>1, <1>2, <1>3, RegistryLease

LEMMA RemovalLease ==
  ASSUME Leased, Leased', SameUsers, NEW e \in registered, doRemove(e), NEW i \in SIds
  PROVE  LeaseStep(i)
<1>1. /\ EntryOf(i) = {} <=> \A f \in registered : f.sid # i
      /\ EntryOf(i)' = {} <=> \A g \in registered' : g.sid # i
  BY DEF EntryOf
<1>2. \A f, g \in registered : f.sid = g.sid => f = g
  BY DEF Leased, Shard, SIdInv, EntriesHaveDistinctSIds
<1>3. \A f \in registered : f \in CServiceEntry
  BY DEF Leased, Shard, TypeInv, TypeOK, NSTypeOK
<1> DEFINE removed == [e EXCEPT !.waiting = TRUE, !.late = FALSE, !.acks = AcksAwaited(e)]
           Without(f) == [f EXCEPT !.acks[e.sid] = 0]
<1>4. registered' = IF Acked(removed) THEN {Without(f) : f \in registered \ {e}}
                                      ELSE {Without(f) : f \in registered \ {e}} \cup {removed}
  BY DEF doRemove
<1>5. removed.sid = e.sid /\ removed.svc = e.svc /\ removed.waiting
  BY <1>3 DEF CServiceEntry
<1>6. \A f \in registered : Without(f).sid = f.sid /\ Without(f).svc = f.svc
                            /\ Without(f).waiting = f.waiting
  BY <1>3 DEF CServiceEntry
<1> HIDE DEF removed, Without
<1>7. \A g \in registered' :
        \E f \in registered : f.sid = g.sid /\ f.svc = g.svc /\ (f.waiting => g.waiting)
  BY <1>4, <1>5, <1>6
<1> QED
  BY <1>1, <1>2, <1>7, RegistryLease

LEMMA GrantLease ==
  ASSUME Leased, Leased', SameUsers, NEW s \in Services, NEW j \in SIds, j \notin UsedSIds,
         Grant(s, j), NEW i \in SIds
  PROVE  LeaseStep(i)
<1>1. registered' = registered \cup {NewEntry(s, j)}
  BY DEF Grant
<1>2. NewEntry(s, j).sid = j /\ ~NewEntry(s, j).waiting
  BY DEF NewEntry
<1>3. /\ EntryOf(i) = {} <=> \A f \in registered : f.sid # i
      /\ EntryOf(i)' = {} <=> \A g \in registered' : g.sid # i
  BY DEF EntryOf
<1>4. \A f \in registered : f.sid # j
  BY DEF UsedSIds
<1>5. CASE i = j
  BY <1>1, <1>2, <1>3, <1>4, <1>5, RegistryLease
<1>6. CASE i # j
  BY <1>1, <1>2, <1>3, <1>6, RegistryLease
<1> QED
  BY <1>5, <1>6
(* Every step is a step of the lease on every SId.                         *)
LEMMA LeaseSteps ==
  Calm /\ Shard /\ ListsInv /\ Leased /\ Leased' /\ [Next]_vars => \A i \in SIds : LeaseStep(i)
<1> SUFFICES ASSUME Calm, Shard, ListsInv, Leased, Leased', [Next]_vars
             PROVE  \A i \in SIds : LeaseStep(i)
  OBVIOUS
<1>0. /\ toNS \in [Services -> Seq(NSMessages)] /\ toSvc \in [Services -> Seq(SvcMessages)]
      /\ phase \in [Services -> {"off", "registering", "registered", "running", "dead"}]
      /\ known \in [Services -> SUBSET Listed]
      /\ kills \in Nat /\ AliveIsConnected /\ NoLossRead /\ RequestIsOpen /\ nsCrashes = 0
  BY DEF Shard, SIdInv, TypeInv, TypeOK, NetTypeOK, ClientTypeOK
<1>1. ASSUME UNCHANGED clientVars, killed' = killed PROVE SameUsers
  BY <1>1 DEF SameUsers, Owner, clientVars
<1>2. ASSUME UNCHANGED clientVars, killed' = killed, registered' = registered
      PROVE  \A i \in SIds : LeaseStep(i)
  <2>1. SameUsers /\ Tidied
    BY <1>1, <1>2 DEF Tidied
  <2> QED
    BY <2>1, TidyLease
<1>3. ASSUME NEW s \in Services, registered' = registered, killed' = killed,
             \A u \in Services : u # s => phase'[u] = phase[u] /\ known'[u] = known[u],
             \/ phase'[s] \notin {"registered", "running"}
             \/ phase[s] = "registering"
             \/ phase'[s] = phase[s] /\ phase[s] = "running"
                /\ (known'[s] \subseteq known[s] \/ known[s] \subseteq known'[s])
             \/ phase[s] = "registered" /\ known'[s] = known[s]
      PROVE  \A i \in SIds : LeaseStep(i)
  <2>1. \A u \in Services : u # s => (Owner(u)' <=> Owner(u)) /\ known'[u] = known[u]
    BY <1>3 DEF Owner
  <2>2. \/ Owner(s)' => Owner(s) /\ known'[s] \subseteq known[s]
        \/ Owner(s)' /\ (Owner(s) => known[s] \subseteq known'[s])
    BY <1>3 DEF Owner
  <2> QED
    BY <1>3, <2>1, <2>2, ClientLease
<1>4. ASSUME NEW s \in Services, Start(s) PROVE \A i \in SIds : LeaseStep(i)
  BY <1>0, <1>3, <1>4 DEF Start, NSAccept, ClientStart, nsVars, envVars
<1>5. ASSUME NEW s \in Services, Reconnect(s) PROVE \A i \in SIds : LeaseStep(i)
  BY <1>0, <1>5 DEF Reconnect, ClientReconnect, AliveIsConnected, Alive
<1>6. ASSUME NEW s \in Services, Register(s) PROVE \A i \in SIds : LeaseStep(i)
  <2> USE <1>6 DEF Register, NSRegister, envVars
  <2>1. Head(toNS[s]).sid = NoSId
    BY <1>0, HeadAt DEF NSReads, RequestIsOpen
  <2>2. ASSUME NEW j \in SIds, Granted(s, NoSId, j), Grant(s, j)
        PROVE  \A i \in SIds : LeaseStep(i)
    <3>1. j \notin UsedSIds
      BY <2>2 DEF Granted, ChosenSId
    <3> QED
      BY <1>1, <2>2, <3>1, GrantLease
  <2>3. CASE registered' = registered
    BY <1>2, <2>3
  <2> QED
    BY <2>1, <2>2, <2>3
<1>7. ASSUME NEW s \in Services, Reregister(s) PROVE \A i \in SIds : LeaseStep(i)
  BY <1>0, <1>7, HeadAt DEF Reregister, NSReregister, NSReads, RequestIsOpen
<1>8. ASSUME NEW s \in Services, Disconnect(s) PROVE \A i \in SIds : LeaseStep(i)
  <2> USE <1>8 DEF Disconnect, NSDisconnect, envVars
  <2>1. ASSUME NEW e \in registered, doRemove(e) PROVE \A i \in SIds : LeaseStep(i)
    BY <1>1, <2>1, RemovalLease
  <2>2. CASE registered' = registered
    BY <1>2, <2>2
  <2> QED
    BY <2>1, <2>2
<1>9. ASSUME NEW s \in Services, Ack(s) PROVE \A i \in SIds : LeaseStep(i)
  BY <1>1, <1>9, AckTidies, TidyLease DEF Ack, envVars
<1>10. CASE Update
  <2>1. SameUsers /\ Tidied
    BY <1>1, <1>10 DEF Update, NSUpdate, envVars, Tidied, CheckWaiting, Removable
  <2> QED
    BY <2>1, TidyLease
<1>11. CASE Timeout \/ Kill \/ LoseNS
  BY <1>0, <1>11 DEF Calm, Timeout, Kill, LoseNS
<1>12. CASE RestartNS
  BY <1>2, <1>12 DEF RestartNS, NSRestart, envVars
<1>13. ASSUME NEW s \in Services, Registered(s) PROVE \A i \in SIds : LeaseStep(i)
  BY <1>0, <1>3, <1>13 DEF Registered, ClientRegistered, Dies, nsVars, envVars
<1>14. ASSUME NEW s \in Services, Connect(s) PROVE \A i \in SIds : LeaseStep(i)
  BY <1>0, <1>3, <1>14 DEF Connect, ClientConnect, nsVars, envVars
<1>15. ASSUME NEW s \in Services, ServiceUp(s) PROVE \A i \in SIds : LeaseStep(i)
  <2> USE <1>15 DEF ServiceUp, ClientServiceUp, nsVars, envVars
  <2>1. \A e \in known[s] : Head(toSvc[s]).entry.sid # e.sid
    BY ListsMatch DEF BroadcastsMatchList
  <2>2. known[s] \subseteq known'[s]
    BY <1>0, <2>1 DEF Insert
  <2> QED
    BY <1>0, <1>3, <2>2
<1>16. ASSUME NEW s \in Services, ServiceDown(s) PROVE \A i \in SIds : LeaseStep(i)
  <2> USE <1>16 DEF ServiceDown, ClientServiceDown, nsVars, envVars
  <2>1. known'[s] \subseteq known[s]
    BY <1>0
  <2> QED
    BY <1>0, <1>3, <2>1
<1>17. ASSUME NEW s \in Services, LosesNS(s) PROVE \A i \in SIds : LeaseStep(i)
  BY <1>2, <1>17 DEF LosesNS, ClientLosesNS, nsVars, envVars
<1>18. ASSUME NEW s \in Services, Exit(s) \/ Crash(s) PROVE \A i \in SIds : LeaseStep(i)
  BY <1>0, <1>3, <1>18 DEF Exit, ClientExit, Crash, ClientCrash, Dies, nsVars, envVars
<1>19. CASE UNCHANGED vars
  BY <1>2, <1>19 DEF vars, nsVars, envVars
<1> QED
  BY <1>4, <1>5, <1>6, <1>7, <1>8, <1>9, <1>10, <1>11, <1>12, <1>13, <1>14, <1>15, <1>16,
     <1>17, <1>18, <1>19 DEF Next, ServiceStep, NSStep

(* The life of every SId follows the abstract lease, for any services,     *)
(* subnets and crashes: an SId is granted to one service at a time, what   *)
(* the owners of SIds list under it is its holder, and it is granted again *)
(* only when nobody lists the last one.  Nothing is killed here and no     *)
(* acknowledgement is late; with a kill it is not true (NamingStaleAck).   *)
THEOREM LeaseCorrect ==
  ASSUME Calm, DynamicSIds
  PROVE  Spec => EverySIdIsLeased
<1>1. Init => Lease!Init
  <2> SUFFICES ASSUME Init PROVE Lease!Init
    OBVIOUS
  <2>1. registered = {} /\ \A s \in Services : known[s] = {}
    BY DEF Init, NSInit, ClientInit
  <2>2. \A i : EntryOf(i) = {} /\ HolderOf(i) = NoService
    BY <2>1 DEF EntryOf, HolderOf
  <2>3. \A i : UsesOf(i) = {}
    BY <2>1 DEF UsesOf
  <2> QED
    BY <2>2, <2>3 DEF Lease!Init
<1>2. Shard /\ ListsInv /\ AcksInv => Leased
  BY LeasedFacts
<1>3. Calm /\ Shard /\ ListsInv /\ Leased /\ Leased' /\ [Next]_vars => Lease!Next
  <2> SUFFICES ASSUME \A i \in SIds : LeaseStep(i) PROVE Lease!Next
    BY LeaseSteps
  <2> QED
    BY DEF LeaseStep, Lease!Next
<1>4. Spec => [](Shard /\ ListsInv /\ AcksInv)
  BY AcksInvariant, PTL
<1>5. Calm
  OBVIOUS
<1>6. Spec => []Calm
  BY <1>5, PTL
<1> QED
  BY <1>1, <1>2, <1>3, <1>4, <1>6, PTL DEF Spec, EverySIdIsLeased, Lease!Spec
=============================================================================
