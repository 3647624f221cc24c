---------------------------- MODULE LoginProofs ----------------------------
(***************************************************************************)
(* Theorems about LoginChain, for every set of accounts, attempts, socket  *)
(* addresses and front ends, and every number of crashes.                  *)
(***************************************************************************)
EXTENDS LoginChain, FiniteSetTheorems, TLAPS

-----------------------------------------------------------------------------
(* Types.  What the queues of the chain may hold.                          *)

ToWS == [type : {"CS"}, cookie : Cookies] \cup [type : {"DC"}, user : Users]
ToFES == ToWS \cup [type : {"FS_ACCEPT"}]
Chosen == [type : {"SCS"}, ok : {TRUE}, cookie : Cookies, fes : FESs, nb : Nat]
Moves == [type : {"CC"}, user : Users, con : BOOLEAN]
FromFES == Chosen \cup Moves \cup [type : {"RPC"}, cookie : Cookies]
             \cup [type : {"NBPLAYERS2"}, users : Nat, pending : Nat]
             \cup [type : {"up", "down"}]
Refusals == [type : {"SCS"}, ok : {FALSE}, cookie : Cookies]
FromWS == Chosen \cup Refusals \cup Moves \cup [type : {"WS_IDENT", "down"}]
ToLS == [link : Links, msg : FromWS]
ToClient == [type : {"VLP"}, ok : BOOLEAN]
              \cup [type : {"SCS"}, ok : {TRUE}, cookie : Cookies, fes : FESs]
              \cup [type : {"SCS"}, ok : {FALSE}]

LEMMA MessagesAreTyped ==
  /\ \A k \in Cookies : /\ ChooseMsg(k) \in ToWS /\ ChooseMsg(k) \in ToFES
                        /\ RefusedMsg(k) \in FromWS /\ RemovedMsg(k) \in FromFES
  /\ \A k \in Cookies, f \in FESs : TicketMsg(k, f) \in ToClient
  /\ \A k \in Cookies, f \in FESs, n \in Nat : ChosenMsg(k, f, n) \in FromFES
  /\ \A u \in Users : KickMsg(u) \in ToWS /\ KickMsg(u) \in ToFES
  /\ \A u \in Users, b \in BOOLEAN :
       ClientMsg(u, b) \in FromFES /\ ClientMsg(u, b) \in FromWS
  /\ \A n, m \in Nat : CountsMsg(n, m) \in FromFES
  /\ AcceptMsg \in ToFES /\ IdentMsg \in FromWS /\ UpMsg \in FromFES
  /\ DownMsg \in FromFES /\ DownMsg \in FromWS
  /\ \A b \in BOOLEAN : Answer(b) \in ToClient
  /\ NoTicketMsg \in ToClient
BY DEF ChooseMsg, RefusedMsg, RemovedMsg, TicketMsg, ChosenMsg, KickMsg, ClientMsg,
       CountsMsg, AcceptMsg, IdentMsg, UpMsg, DownMsg, Answer, NoTicketMsg, ToWS, ToFES,
       Chosen, Moves, FromFES, Refusals, FromWS, ToClient

LEMMA TypedMessages ==
  /\ \A m \in ToWS : /\ m.type = "CS" => m.cookie \in Cookies
                     /\ m.type = "DC" => m.user \in Users
  /\ \A m \in ToFES : /\ m.type = "CS" => m.cookie \in Cookies
                      /\ m.type = "DC" => m.user \in Users
  /\ \A m \in FromFES : /\ m.type = "SCS" => m \in FromWS
                        /\ m.type = "CC" => m \in FromWS /\ m = ClientMsg(m.user, m.con)
  /\ \A m \in FromWS : /\ m.type = "SCS" => m.cookie \in Cookies /\ m.ok \in BOOLEAN
                       /\ m.type = "SCS" /\ m.ok => m.fes \in FESs
                       /\ m.type = "SCS" /\ ~m.ok => m = RefusedMsg(m.cookie)
                       /\ m.type = "CC" => m.user \in Users /\ m.con \in BOOLEAN
                       /\ m.type = "CC" => m = ClientMsg(m.user, m.con)
  /\ \A m \in ToClient : m.type = "SCS" /\ m.ok => m.cookie \in Cookies /\ m.fes \in FESs
<1>1. \A m \in ToWS : /\ m.type = "CS" => m.cookie \in Cookies
                      /\ m.type = "DC" => m.user \in Users
  BY DEF ToWS
<1>2. \A m \in ToFES : /\ m.type = "CS" => m.cookie \in Cookies
                       /\ m.type = "DC" => m.user \in Users
  BY DEF ToFES, ToWS
<1>3. \A m \in FromFES : /\ m.type = "SCS" => m \in Chosen
                         /\ m.type = "CC" => m \in Moves
  BY DEF FromFES, Chosen, Moves
<1>4. \A m \in FromWS : /\ m.type = "SCS" => m \in Chosen \/ m \in Refusals
                        /\ m.type = "CC" => m \in Moves
  BY DEF FromWS, Chosen, Moves, Refusals
<1>6. \A m \in Moves : m \in FromWS /\ m.user \in Users /\ m.con \in BOOLEAN
  BY DEF FromWS, Moves
<1>7. \A m \in Moves : m = ClientMsg(m.user, m.con)
  BY DEF ClientMsg, Moves
<1>8. \A m \in Chosen : m \in FromWS /\ m.cookie \in Cookies /\ m.fes \in FESs /\ m.ok = TRUE
  BY DEF FromWS, Chosen
<1>9. \A m \in Refusals : m.cookie \in Cookies /\ m.ok = FALSE
  BY DEF Refusals
<1>10. \A m \in Refusals : m = RefusedMsg(m.cookie)
  <2>1. \A m \in Refusals : m = [type |-> m.type, ok |-> m.ok, cookie |-> m.cookie]
    BY DEF Refusals
  <2>2. \A m \in Refusals : m.type = "SCS"
    BY DEF Refusals
  <2> QED
    BY <1>9, <2>1, <2>2, Zenon DEF RefusedMsg
<1>5. \A m \in ToClient : m.type = "SCS" /\ m.ok => m.cookie \in Cookies /\ m.fes \in FESs
  BY DEF ToClient
<1> QED
  BY <1>1, <1>2, <1>3, <1>4, <1>5, <1>6, <1>7, <1>8, <1>9, <1>10

(* The queues.                                                             *)
LEMMA HeadAndTail ==
  ASSUME NEW S, NEW q \in Seq(S), q # <<>>
  PROVE  /\ Head(q) \in S /\ Head(q) = q[1] /\ Tail(q) \in Seq(S)
         /\ Len(q) \in Nat \ {0} /\ Len(Tail(q)) = Len(q) - 1
         /\ \A i \in 1 .. Len(q) - 1 : Tail(q)[i] = q[i + 1]
OBVIOUS

LEMMA CutFacts ==
  ASSUME NEW S, NEW q \in Seq(S), NEW r \in Cut(q)
  PROVE  /\ r \in Seq(S) /\ Len(r) <= Len(q)
         /\ \A i \in 1 .. Len(r) : r[i] = q[i]
<1>1. PICK n \in 0 .. Len(q) : r = SubSeq(q, 1, n)
  BY DEF Cut
<1> QED
  BY <1>1

LEMMA FarewellFacts ==
  ASSUME NEW us \in SUBSET Users, NEW ms \in Farewells(us), link \in Links
  PROVE  /\ ms \in Seq({ClientMsg(u, FALSE) : u \in us})
         /\ [i \in DOMAIN ms |-> From(link, ms[i])] \in Seq(ToLS)
<1> DEFINE M == {ClientMsg(u, FALSE) : u \in us}
<1>1. IsFiniteSet(M)
  <2>1. IsFiniteSet(us)
    BY LoginAssumption, FS_Subset
  <2>2. [u \in us |-> ClientMsg(u, FALSE)] \in Surjection(us, M)
    BY DEF Surjection
  <2> QED
    BY <2>1, <2>2, FS_Surjection
<1>2. Cardinality(M) \in Nat
  BY <1>1, FS_CardinalityType
<1>3. ms \in [1 .. Cardinality(M) -> M]
  BY DEF Farewells, SetToSeqs
<1>4. M \subseteq FromWS
  BY MessagesAreTyped
<1>5. \A i \in 1 .. Cardinality(M) : From(link, ms[i]) \in ToLS
  <2> SUFFICES ASSUME NEW i \in 1 .. Cardinality(M) PROVE From(link, ms[i]) \in ToLS
    OBVIOUS
  <2>1. ms[i] \in FromWS
    BY <1>3, <1>4
  <2> QED
    BY <2>1 DEF From, ToLS
<1> HIDE DEF M
<1>6. ms \in Seq(M) /\ DOMAIN ms = 1 .. Cardinality(M)
  BY <1>2, <1>3
<1>7. [i \in DOMAIN ms |-> From(link, ms[i])] \in Seq(ToLS)
  BY <1>2, <1>5, <1>6
<1> QED
  BY <1>6, <1>7 DEF M

(* The inductive invariant: with TypeOK, what the sockets, the stages of   *)
(* the clients and the messages in flight refer to.                        *)
Rows == [state : States, cookie : Null(Cookies), onShard : BOOLEAN]
Sockets == [client : Null(Clients), user : Null(Users),
            request : {"none", "VLP", "CS"}, open : BOOLEAN]
SocketOK(s) ==
  s.open \/ s.request = "VLP" => s.client \in Clients /\ s.user \in Users
ClientStates == [stage : Stages, addr : Null(Addrs),
                 ticket : Null(Cookies), fes : Null(FESs)]

LSTypes ==
  /\ lsUp \in BOOLEAN /\ shardSId \in 0 .. MaxFaults + 1 /\ nbPlayers \in Int
  /\ users \in [Users -> Rows] /\ conn \in [Addrs -> Sockets]
  /\ \A a \in Addrs : SocketOK(conn[a])
  /\ inbox \in [Clients -> Seq(ToClient)]

NetTypes ==
  /\ link \in 0 .. MaxFaults + 1 /\ linked \in BOOLEAN
  /\ linked => link \in Links
  /\ lsToWS \in Seq(ToWS) /\ wsToLS \in Seq(ToLS) /\ broken \subseteq Links

FESTypes ==
  /\ phase \in [FESs -> {"off", "up", "dead"}] /\ accepts \in [FESs -> BOOLEAN]
  /\ pending \in [FESs -> SUBSET Cookies]
  /\ playing \in [FESs -> SUBSET (Clients \X Users)]
  /\ removing \in [FESs -> SUBSET (Clients \X Users)]
  /\ \A f \in FESs : IsFiniteSet(pending[f]) /\ removing[f] \subseteq playing[f]

LinkTypes ==
  /\ wsUp \in BOOLEAN /\ assoc \in [Users -> Null(FESs)]
  /\ sees \in [FESs -> BOOLEAN]
  /\ wsToFES \in [FESs -> Seq(ToFES)] /\ fesToWS \in [FESs -> Seq(FromFES)]

ClientTypes ==
  /\ client \in [Clients -> ClientStates]
  /\ \A c \in Clients :
       /\ client[c].stage \in {"verifying", "authorized", "choosing"} =>
            client[c].addr \in Addrs
       /\ client[c].stage \in {"ticketed", "playing"} =>
            client[c].ticket \in Cookies /\ client[c].fes \in FESs
  /\ faults \in Seq(MayCrash) /\ Len(faults) <= MaxFaults

TypeInv == LSTypes /\ NetTypes /\ FESTypes /\ LinkTypes /\ ClientTypes

LEMMA SocketTypes ==
  /\ Free \in Sockets /\ SocketOK(Free)
  /\ \A c \in Clients, u \in Users : Connected(c, u) \in Sockets /\ SocketOK(Connected(c, u))
  /\ \A s \in Sockets : SocketOK(s) =>
       /\ [s EXCEPT !.open = FALSE] \in Sockets /\ SocketOK([s EXCEPT !.open = FALSE])
       /\ [s EXCEPT !.request = "none"] \in Sockets /\ SocketOK([s EXCEPT !.request = "none"])
       /\ [s EXCEPT !.request = "CS"] \in Sockets /\ SocketOK([s EXCEPT !.request = "CS"])
<1>1. /\ Free \in Sockets /\ SocketOK(Free)
      /\ \A c \in Clients, u \in Users :
           Connected(c, u) \in Sockets /\ SocketOK(Connected(c, u))
  BY DEF Sockets, SocketOK, Free, Connected, Null
<1>2. ASSUME NEW s \in Sockets, SocketOK(s)
      PROVE  /\ [s EXCEPT !.open = FALSE] \in Sockets
             /\ [s EXCEPT !.request = "none"] \in Sockets
             /\ [s EXCEPT !.request = "CS"] \in Sockets
  BY <1>2 DEF Sockets
<1>3. ASSUME NEW s \in Sockets, SocketOK(s) PROVE SocketOK([s EXCEPT !.open = FALSE])
  BY <1>3 DEF Sockets, SocketOK
<1>4. ASSUME NEW s \in Sockets, SocketOK(s)
      PROVE  SocketOK([s EXCEPT !.request = "none"]) /\ SocketOK([s EXCEPT !.request = "CS"])
  BY <1>4 DEF Sockets, SocketOK
<1> QED
  BY <1>1, <1>2, <1>3, <1>4

LEMMA TypeInvInit == Init => TypeInv
<1> SUFFICES ASSUME Init PROVE TypeInv
  OBVIOUS
<1>1. LSTypes
  <2>1. \A a \in Addrs : conn[a] = Free
    BY DEF Init, LSInit
  <2>2. \A a \in Addrs : SocketOK(conn[a])
    BY <2>1, SocketTypes
  <2> QED
    BY <2>2, LoginAssumption, SocketTypes
    DEF Init, LSInit, LSTypes, Rows, Offline, States, Null
<1>2. NetTypes
  <2>1. ~linked /\ linked \in BOOLEAN
    BY DEF Init, NetInit
  <2> QED
    BY <2>1, LoginAssumption DEF Init, NetInit, NetTypes
<1>3. FESTypes
  BY FS_EmptySet DEF Init, FESInit, FESTypes
<1>4. LinkTypes
  BY DEF Init, NetInit, WSInit, LinkTypes, Null
<1>5. ClientTypes
  BY LoginAssumption DEF Init, ClientTypes, ClientStates, NewClient, Stages, Null
<1> QED
  BY <1>1, <1>2, <1>3, <1>4, <1>5 DEF TypeInv

(* Records that change in one field.                                       *)
LEMMA RowTypes ==
  ASSUME NEW r \in Rows
  PROVE  /\ Offline \in Rows
         /\ \A k \in Cookies : [r EXCEPT !.state = "Authorized", !.cookie = k] \in Rows
         /\ [r EXCEPT !.state = "Waiting", !.onShard = TRUE] \in Rows
         /\ \A b \in BOOLEAN : [r EXCEPT !.state = "Online", !.onShard = b] \in Rows
         /\ [r EXCEPT !.state = "Offline", !.onShard = FALSE] \in Rows
BY DEF Rows, Offline, States, Null

LEMMA ClientStateTypes ==
  /\ NewClient \in ClientStates /\ Gone \in ClientStates
  /\ \A a \in Addrs :
       [NewClient EXCEPT !.stage = "verifying", !.addr = a] \in ClientStates
  /\ \A k \in Cookies, f \in FESs :
       [NewClient EXCEPT !.stage = "ticketed", !.ticket = k, !.fes = f] \in ClientStates
  /\ \A r \in ClientStates, s \in Stages : [r EXCEPT !.stage = s] \in ClientStates
BY DEF ClientStates, NewClient, Gone, Stages, Null

(* A client that moves on keeps what it holds.                             *)
LEMMA StagedTypes ==
  ASSUME NEW d \in ClientStates, NEW s \in Stages
  PROVE  LET r == [d EXCEPT !.stage = s]
         IN  /\ r \in ClientStates /\ r.stage = s
             /\ r.addr = d.addr /\ r.ticket = d.ticket /\ r.fes = d.fes
<1>1. [d EXCEPT !.stage = s] \in ClientStates
  BY ClientStateTypes
<1>2. /\ [d EXCEPT !.stage = s].stage = s
      /\ [d EXCEPT !.stage = s].addr = d.addr
      /\ [d EXCEPT !.stage = s].ticket = d.ticket
      /\ [d EXCEPT !.stage = s].fes = d.fes
  BY DEF ClientStates
<1> QED
  BY <1>1, <1>2

LEMMA BecomesTypes ==
  ASSUME ClientTypes, NEW c \in Clients, NEW r \in ClientStates, Becomes(c, r),
         r.stage \in {"verifying", "authorized", "choosing"} => r.addr \in Addrs,
         r.stage \in {"ticketed", "playing"} => r.ticket \in Cookies /\ r.fes \in FESs,
         UNCHANGED faults
  PROVE  ClientTypes'
BY DEF ClientTypes, Becomes

LEMMA ClosedTypes ==
  ASSUME LSTypes, NEW a \in Addrs, conn' = Closed(a),
         UNCHANGED <<lsUp, shardSId, nbPlayers, users>>,
         inbox' \in [Clients -> Seq(ToClient)]
  PROVE  LSTypes'
<1>1. conn' = [conn EXCEPT ![a] = [conn[a] EXCEPT !.open = FALSE]]
  BY DEF Closed
<1>2. conn' \in [Addrs -> Sockets] /\ \A b \in Addrs : SocketOK(conn'[b])
  BY <1>1, SocketTypes DEF LSTypes
<1> QED
  BY <1>2 DEF LSTypes

LEMMA ReadTypes ==
  ASSUME LSTypes, NEW c \in Clients, NEW type, ClientReads(c, type)
  PROVE  /\ inbox' \in [Clients -> Seq(ToClient)]
         /\ Head(inbox[c]) \in ToClient /\ Head(inbox[c]).type = type
<1>1. inbox[c] \in Seq(ToClient) /\ inbox[c] # <<>>
  BY DEF LSTypes, ClientReads, Reads
<1>2. Head(inbox[c]) \in ToClient /\ Tail(inbox[c]) \in Seq(ToClient)
  BY <1>1, HeadAndTail
<1> QED
  BY <1>2 DEF LSTypes, ClientReads, Reads

(* What a step leaves alone keeps its types.                               *)
LEMMA SameTypes ==
  /\ LSTypes /\ UNCHANGED lsVars => LSTypes'
  /\ NetTypes /\ UNCHANGED <<link, linked, lsToWS, wsToLS, broken>> => NetTypes'
  /\ FESTypes /\ UNCHANGED fesVars => FESTypes'
  /\ LinkTypes /\ UNCHANGED <<wsUp, assoc, sees, wsToFES, fesToWS>> => LinkTypes'
  /\ ClientTypes /\ UNCHANGED <<client, faults>> => ClientTypes'
BY DEF lsVars, LSTypes, NetTypes, fesVars, FESTypes, LinkTypes, ClientTypes

LEMMA OthersSame ==
  ASSUME TypeInv, UNCHANGED <<wsVars, fesVars, netVars>>
  PROVE  NetTypes' /\ FESTypes' /\ LinkTypes'
BY SameTypes DEF TypeInv, wsVars, netVars

(* The steps of a client.                                                  *)
LEMMA ConnectTypes ==
  ASSUME TypeInv, NEW c \in Clients, NEW u \in Users, NEW a \in Addrs, Connect(c, u, a)
  PROVE  TypeInv'
<1>1. LSTypes'
  <2>1. conn' = [conn EXCEPT ![a] = Connected(c, u)]
    BY DEF Connect
  <2> QED
    BY <2>1, SocketTypes DEF TypeInv, LSTypes, Connect
<1>2. ClientTypes'
  <2> DEFINE r == [NewClient EXCEPT !.stage = "verifying", !.addr = a]
  <2>1. r \in ClientStates /\ r.stage = "verifying" /\ r.addr = a
    BY ClientStateTypes DEF NewClient
  <2>2. Becomes(c, r) /\ UNCHANGED faults
    BY DEF Connect
  <2> HIDE DEF r
  <2> QED
    BY <2>1, <2>2, BecomesTypes DEF TypeInv
<1> QED
  BY <1>1, <1>2, OthersSame DEF TypeInv, Connect

LEMMA AuthenticatedTypes ==
  ASSUME TypeInv, NEW c \in Clients, Authenticated(c)
  PROVE  TypeInv'
<1>1. client[c] \in ClientStates /\ client[c].stage = "verifying" /\ client[c].addr \in Addrs
  BY DEF TypeInv, ClientTypes, Authenticated
<1>2. inbox' \in [Clients -> Seq(ToClient)]
  BY ReadTypes DEF TypeInv, Authenticated
<1>3. LSTypes'
  <2>1. CASE Head(inbox[c]).ok
    BY <1>2, <2>1 DEF TypeInv, LSTypes, Authenticated
  <2>2. CASE ~Head(inbox[c]).ok
    BY <1>1, <1>2, <2>2, ClosedTypes DEF TypeInv, Authenticated
  <2> QED
    BY <2>1, <2>2
<1>4. ClientTypes'
  <2>1. CASE Head(inbox[c]).ok
    <3> DEFINE r == [client[c] EXCEPT !.stage = "authorized"]
    <3>1. r \in ClientStates /\ r.stage = "authorized" /\ r.addr = client[c].addr
      BY <1>1, StagedTypes DEF Stages
    <3>2. Becomes(c, r) /\ UNCHANGED faults
      BY <2>1 DEF Authenticated
    <3> HIDE DEF r
    <3> QED
      BY <1>1, <3>1, <3>2, BecomesTypes DEF TypeInv
  <2>2. CASE ~Head(inbox[c]).ok
    BY <2>2, ClientStateTypes, BecomesTypes DEF TypeInv, Authenticated, Gone, NewClient
  <2> QED
    BY <2>1, <2>2
<1> QED
  BY <1>3, <1>4, OthersSame DEF TypeInv, Authenticated

LEMMA IgnoresTypes ==
  ASSUME TypeInv, NEW c \in Clients, Ignores(c)
  PROVE  TypeInv'
<1>1. inbox' \in [Clients -> Seq(ToClient)]
  BY ReadTypes DEF TypeInv, Ignores
<1>2. LSTypes'
  BY <1>1 DEF TypeInv, LSTypes, Ignores
<1>3. ClientTypes'
  BY SameTypes DEF TypeInv, Ignores
<1> QED
  BY <1>2, <1>3, OthersSame DEF TypeInv, Ignores

LEMMA ChooseTypes ==
  ASSUME TypeInv, NEW c \in Clients, Choose(c)
  PROVE  TypeInv'
<1>1. client[c] \in ClientStates /\ client[c].addr \in Addrs
  BY DEF TypeInv, ClientTypes, Choose
<1> DEFINE a == client[c].addr
           r == [client[c] EXCEPT !.stage = "choosing"]
<1>2. LSTypes'
  <2>1. conn' = [conn EXCEPT ![a] = [conn[a] EXCEPT !.request = "CS"]]
    BY DEF Choose
  <2>2. conn' \in [Addrs -> Sockets] /\ \A b \in Addrs : SocketOK(conn'[b])
    BY <1>1, <2>1, SocketTypes DEF TypeInv, LSTypes
  <2> QED
    BY <2>2 DEF TypeInv, LSTypes, Choose
<1>3. ClientTypes'
  <2>1. r \in ClientStates /\ r.stage = "choosing" /\ r.addr = a
    BY <1>1, StagedTypes DEF Stages
  <2>2. Becomes(c, r) /\ UNCHANGED faults
    BY DEF Choose
  <2> HIDE DEF r
  <2> QED
    BY <1>1, <2>1, <2>2, BecomesTypes DEF TypeInv
<1> QED
  BY <1>2, <1>3, OthersSame DEF TypeInv, Choose

LEMMA ConfirmedTypes ==
  ASSUME TypeInv, NEW c \in Clients, Confirmed(c)
  PROVE  TypeInv'
<1> DEFINE m == Head(inbox[c])
<1>1. client[c] \in ClientStates /\ client[c].addr \in Addrs
  BY DEF TypeInv, ClientTypes, Confirmed
<1>2. inbox' \in [Clients -> Seq(ToClient)] /\ m \in ToClient /\ m.type = "SCS"
  BY ReadTypes DEF TypeInv, Confirmed
<1>3. LSTypes'
  BY <1>1, <1>2, ClosedTypes DEF TypeInv, Confirmed
<1>4. ClientTypes'
  <2>1. CASE m.ok
    <3> DEFINE r == [NewClient EXCEPT !.stage = "ticketed", !.ticket = m.cookie, !.fes = m.fes]
    <3>1. m.cookie \in Cookies /\ m.fes \in FESs
      BY <1>2, <2>1, TypedMessages
    <3>2. r \in ClientStates
      BY <3>1, ClientStateTypes
    <3>3. r.stage = "ticketed" /\ r.ticket = m.cookie /\ r.fes = m.fes
      BY DEF NewClient
    <3>4. Becomes(c, r) /\ UNCHANGED faults
      BY <2>1 DEF Confirmed
    <3> HIDE DEF r, m
    <3> QED
      BY <3>1, <3>2, <3>3, <3>4, BecomesTypes DEF TypeInv
  <2>2. CASE ~m.ok
    BY <2>2, ClientStateTypes, BecomesTypes DEF TypeInv, Confirmed, Gone, NewClient
  <2> QED
    BY <2>1, <2>2
<1> QED
  BY <1>3, <1>4, OthersSame DEF TypeInv, Confirmed

LEMMA QuitTypes ==
  ASSUME TypeInv, NEW c \in Clients, Quit(c)
  PROVE  TypeInv'
<1>1. inbox' \in [Clients -> Seq(ToClient)]
  BY DEF TypeInv, LSTypes, Quit
<1>2. LSTypes'
  <2>1. CASE client[c].stage = "ticketed"
    BY <1>1, <2>1 DEF TypeInv, LSTypes, Quit
  <2>2. CASE client[c].stage # "ticketed"
    <3>1. client[c].addr \in Addrs
      BY <2>2 DEF TypeInv, ClientTypes, Quit
    <3> QED
      BY <1>1, <2>2, <3>1, ClosedTypes DEF TypeInv, Quit
  <2> QED
    BY <2>1, <2>2
<1>3. ClientTypes'
  BY ClientStateTypes, BecomesTypes DEF TypeInv, Quit, Gone, NewClient
<1> QED
  BY <1>2, <1>3, OthersSame DEF TypeInv, Quit

LEMMA RejectedTypes ==
  ASSUME TypeInv, NEW c \in Clients, Rejected(c)
  PROVE  TypeInv'
<1>1. ClientTypes'
  BY ClientStateTypes, BecomesTypes DEF TypeInv, Rejected, Gone, NewClient
<1>2. LSTypes'
  BY SameTypes DEF TypeInv, Rejected
<1> QED
  BY <1>1, <1>2, OthersSame DEF TypeInv, Rejected

(* The steps of a front end.                                               *)
LEMMA TellTypes ==
  ASSUME LinkTypes, NEW f \in FESs, NEW m \in FromFES
  PROVE  Tell(f, m) \in [FESs -> Seq(FromFES)]
<1>1. fesToWS[f] \in Seq(FromFES) /\ fesToWS \in [FESs -> Seq(FromFES)]
  BY DEF LinkTypes
<1>2. Append(fesToWS[f], m) \in Seq(FromFES)
  BY <1>1
<1> QED
  BY <1>1, <1>2 DEF Tell

LEMMA FESPopTypes ==
  ASSUME LinkTypes, NEW f \in FESs, NEW type, FESReads(f, type), FESPops(f)
  PROVE  /\ wsToFES' \in [FESs -> Seq(ToFES)]
         /\ Head(wsToFES[f]) \in ToFES /\ Head(wsToFES[f]).type = type
<1>1. wsToFES[f] \in Seq(ToFES) /\ wsToFES[f] # <<>>
  BY DEF LinkTypes, FESReads, Reads
<1>2. Head(wsToFES[f]) \in ToFES /\ Tail(wsToFES[f]) \in Seq(ToFES)
  BY <1>1, HeadAndTail
<1> QED
  BY <1>2 DEF LinkTypes, FESReads, Reads, FESPops

LEMMA FiniteSessions ==
  ASSUME TypeInv, NEW f \in FESs
  PROVE  /\ IsFiniteSet(playing[f]) /\ Cardinality(playing[f]) \in Nat
         /\ IsFiniteSet(pending[f]) /\ Cardinality(pending[f]) \in Nat
<1>1. playing[f] \subseteq Clients \X Users /\ IsFiniteSet(pending[f])
  BY DEF TypeInv, FESTypes
<1>2. IsFiniteSet(Clients \X Users)
  BY LoginAssumption, FS_Product
<1> QED
  BY <1>1, <1>2, FS_Subset, FS_CardinalityType

LEMMA ListedTypes ==
  ASSUME FESTypes, NEW f \in FESs, NEW u
  PROVE  /\ Listed(f, u) \in [FESs -> SUBSET (Clients \X Users)]
         /\ \A g \in FESs : Listed(f, u)[g] \subseteq playing[g]
BY DEF FESTypes, Listed, SessionsOf

LEMMA InsertedTypes ==
  ASSUME TypeInv, NEW f \in FESs, NEW k \in Cookies
  PROVE  /\ Inserted(f, k) \subseteq Cookies /\ IsFiniteSet(Inserted(f, k))
         /\ Cardinality(Inserted(f, k)) \in Nat
<1> DEFINE S == {j \in pending[f] : j.user # k.user}
<1>1. S \subseteq pending[f] /\ pending[f] \subseteq Cookies /\ IsFiniteSet(pending[f])
  BY DEF TypeInv, FESTypes
<1>2. IsFiniteSet(S \cup {k})
  BY <1>1, FS_Subset, FS_AddElement
<1> QED
  BY <1>1, <1>2, FS_CardinalityType DEF Inserted

LEMMA FESMessageTypes ==
  ASSUME TypeInv, NEW f \in FESs, FESMessage(f)
  PROVE  TypeInv'
<1>1. LSTypes' /\ ClientTypes' /\ NetTypes'
  BY SameTypes DEF TypeInv, FESMessage
<1>2. UNCHANGED <<wsUp, assoc, sees>>
  BY DEF FESMessage, FESAccepts, FESChooseShard, FESDisconnectClient, wsVars
<1>3. CASE FESAccepts(f)
  BY <1>1, <1>2, <1>3, FESPopTypes DEF TypeInv, FESTypes, LinkTypes, FESAccepts
<1>4. CASE FESChooseShard(f)
  <2> DEFINE k == Head(wsToFES[f]).cookie
             P == Inserted(f, k)
  <2>1. wsToFES' \in [FESs -> Seq(ToFES)] /\ k \in Cookies
    BY <1>4, FESPopTypes, TypedMessages DEF TypeInv, FESChooseShard
  <2>2. P \subseteq Cookies /\ IsFiniteSet(P) /\ Cardinality(P) \in Nat
    BY <2>1, InsertedTypes
  <2>3. fesToWS' \in [FESs -> Seq(FromFES)]
    BY <1>4, <2>1, <2>2, MessagesAreTyped, TellTypes DEF TypeInv, FESChooseShard
  <2>4. pending' = [pending EXCEPT ![f] = P] /\ UNCHANGED <<phase, accepts, playing, removing>>
    BY <1>4 DEF FESChooseShard
  <2> HIDE DEF P
  <2>5. FESTypes'
    BY <2>2, <2>4 DEF TypeInv, FESTypes
  <2> QED
    BY <1>1, <1>2, <2>1, <2>3, <2>5 DEF TypeInv, LinkTypes
<1>5. CASE FESDisconnectClient(f)
  <2>1. LinkTypes'
    BY <1>2, <1>5, FESPopTypes DEF TypeInv, LinkTypes, FESDisconnectClient
  <2>2. FESTypes'
    BY <1>5, ListedTypes DEF TypeInv, FESTypes, FESDisconnectClient
  <2> QED
    BY <1>1, <2>1, <2>2 DEF TypeInv
<1> QED
  BY <1>3, <1>4, <1>5 DEF FESMessage

LEMMA FESLaunchTypes ==
  ASSUME TypeInv, NEW f \in FESs, FESLaunch(f)
  PROVE  TypeInv'
<1>1. LSTypes' /\ ClientTypes' /\ NetTypes' /\ LinkTypes'
  BY SameTypes DEF TypeInv, FESLaunch, FESStart, wsVars
<1> QED
  BY <1>1 DEF TypeInv, FESTypes, FESLaunch, FESStart

LEMMA FESConnectTypes ==
  ASSUME TypeInv, NEW f \in FESs, FESConnect(f)
  PROVE  TypeInv'
<1>1. LSTypes' /\ ClientTypes' /\ NetTypes' /\ FESTypes'
  BY SameTypes DEF TypeInv, FESConnect, FESMeetsWS
<1>2. UpMsg \in FromFES /\ Report(f) \in FromFES
  BY FiniteSessions, MessagesAreTyped DEF Report
<1>3. <<UpMsg, Report(f)>> \in Seq(FromFES)
  BY <1>2
<1> QED
  BY <1>1, <1>3 DEF TypeInv, LinkTypes, FESConnect, FESMeetsWS, wsVars

LEMMA EraseTypes ==
  ASSUME TypeInv, NEW f \in FESs, Erase(f)
  PROVE  TypeInv'
<1>1. LSTypes' /\ ClientTypes' /\ NetTypes'
  BY SameTypes DEF TypeInv, Erase, FESErasesCookie
<1>2. PICK k \in pending[f] : /\ pending' = [pending EXCEPT ![f] = @ \ {k}]
                              /\ fesToWS' = Tell(f, RemovedMsg(k))
  BY DEF Erase, FESErasesCookie
<1>3. fesToWS' \in [FESs -> Seq(FromFES)]
  BY <1>2, MessagesAreTyped, TellTypes DEF TypeInv, FESTypes
<1>4. LinkTypes'
  BY <1>3 DEF TypeInv, LinkTypes, Erase, FESErasesCookie, wsVars
<1>5. FESTypes'
  BY <1>2, FS_RemoveElement DEF TypeInv, FESTypes, Erase, FESErasesCookie
<1> QED
  BY <1>1, <1>4, <1>5 DEF TypeInv

LEMMA EnterTypes ==
  ASSUME TypeInv, NEW c \in Clients, Enter(c)
  PROVE  TypeInv'
<1> DEFINE f == client[c].fes
           k == client[c].ticket
<1>1. /\ f \in FESs /\ k \in Cookies /\ k.user \in Users
      /\ client[c] \in ClientStates /\ FESLogin(f, c, k)
  BY DEF TypeInv, ClientTypes, Enter, Cookies
<1>2. LSTypes' /\ NetTypes'
  BY SameTypes DEF TypeInv, Enter
<1>3. fesToWS' \in [FESs -> Seq(FromFES)]
  BY <1>1, MessagesAreTyped, TellTypes DEF TypeInv, FESLogin
<1>4. LinkTypes'
  BY <1>1, <1>3 DEF TypeInv, LinkTypes, Enter, FESLogin, wsVars
<1>5. FESTypes'
  <2> HIDE DEF f, k
  <2>1. /\ pending' = [pending EXCEPT ![f] = @ \ {k}]
        /\ UNCHANGED <<phase, accepts>>
    BY <1>1 DEF FESLogin
  <2>2. /\ pending' \in [FESs -> SUBSET Cookies]
        /\ \A g \in FESs : IsFiniteSet(pending'[g])
    BY <2>1, FS_RemoveElement DEF TypeInv, FESTypes
  <2>3. CASE acceptUserIdConnection(f, k.user)
    <3>1. playing' = [playing EXCEPT ![f] = @ \cup {<<c, k.user>>}] /\ removing' = removing
      BY <1>1, <2>3 DEF FESLogin
    <3>2. <<c, k.user>> \in Clients \X Users
      BY <1>1
    <3>3. playing[f] \cup {<<c, k.user>>} \in SUBSET (Clients \X Users)
      BY <1>1, <3>2 DEF TypeInv, FESTypes
    <3>4. playing' \in [FESs -> SUBSET (Clients \X Users)]
      BY <3>1, <3>3 DEF TypeInv, FESTypes
    <3>5. \A g \in FESs : playing[g] \subseteq playing'[g]
      BY <3>1 DEF TypeInv, FESTypes
    <3> QED
      BY <2>1, <2>2, <3>1, <3>4, <3>5 DEF TypeInv, FESTypes
  <2>4. CASE ~acceptUserIdConnection(f, k.user)
    <3>1. removing' = Listed(f, k.user) /\ playing' = playing
      BY <1>1, <2>4 DEF FESLogin
    <3> QED
      BY <1>1, <2>1, <2>2, <3>1, ListedTypes DEF TypeInv, FESTypes
  <2> QED
    BY <2>3, <2>4
<1>6. ClientTypes'
  <2>1. CASE acceptUserIdConnection(f, k.user)
    <3> DEFINE r == [client[c] EXCEPT !.stage = "playing"]
    <3>1. r \in ClientStates /\ r.stage = "playing" /\ r.ticket = k /\ r.fes = f
      BY <1>1, StagedTypes DEF Stages
    <3>2. Becomes(c, r) /\ UNCHANGED faults
      BY <2>1 DEF Enter
    <3> HIDE DEF r
    <3> QED
      BY <1>1, <3>1, <3>2, BecomesTypes DEF TypeInv
  <2>2. CASE ~acceptUserIdConnection(f, k.user)
    BY <2>2, ClientStateTypes, BecomesTypes DEF TypeInv, Enter, Gone, NewClient
  <2> QED
    BY <2>1, <2>2
<1> QED
  BY <1>2, <1>4, <1>5, <1>6 DEF TypeInv

LEMMA LeaveTypes ==
  ASSUME TypeInv, NEW f \in FESs, NEW p \in playing[f], Leave(f, p)
  PROVE  TypeInv'
<1>1. p \in Clients \X Users /\ p[1] \in Clients /\ p[2] \in Users
  BY DEF TypeInv, FESTypes
<1>2. LSTypes' /\ NetTypes'
  BY SameTypes DEF TypeInv, Leave
<1>3. fesToWS' \in [FESs -> Seq(FromFES)]
  BY <1>1, MessagesAreTyped, TellTypes DEF TypeInv, Leave, FESRemoves
<1>4. LinkTypes'
  BY <1>3 DEF TypeInv, LinkTypes, Leave, FESRemoves, wsVars
<1>5. FESTypes'
  <2>1. /\ playing' = [playing EXCEPT ![f] = @ \ {p}]
        /\ removing' = [removing EXCEPT ![f] = @ \ {p}]
        /\ UNCHANGED <<phase, accepts, pending>>
    BY DEF Leave, FESRemoves, Unlisted
  <2> QED
    BY <2>1 DEF TypeInv, FESTypes
<1>6. ClientTypes'
  BY <1>1, ClientStateTypes, BecomesTypes DEF TypeInv, Leave, Gone, NewClient
<1> QED
  BY <1>2, <1>4, <1>5, <1>6 DEF TypeInv

LEMMA FESCrashTypes ==
  ASSUME TypeInv, NEW f \in FESs, FESCrash(f)
  PROVE  TypeInv'
<1>1. LSTypes' /\ NetTypes'
  BY SameTypes DEF TypeInv, FESCrash, FESDies
<1>2. fesToWS' \in [FESs -> Seq(FromFES)]
  <2>1. CASE sees[f]
    <3>1. PICK q \in Cut(fesToWS[f]) : fesToWS' = [fesToWS EXCEPT ![f] = Append(q, DownMsg)]
      BY <2>1 DEF FESCrash, FESDies
    <3>2. q \in Seq(FromFES) /\ DownMsg \in FromFES
      BY CutFacts, MessagesAreTyped DEF TypeInv, LinkTypes
    <3>3. Append(q, DownMsg) \in Seq(FromFES)
      BY <3>2
    <3> QED
      BY <3>1, <3>3 DEF TypeInv, LinkTypes
  <2>2. CASE ~sees[f]
    BY <2>2 DEF TypeInv, LinkTypes, FESCrash, FESDies
  <2> QED
    BY <2>1, <2>2
<1>3. <<>> \in Seq(ToFES)
  OBVIOUS
<1>4. LinkTypes'
  BY <1>2, <1>3 DEF TypeInv, LinkTypes, FESCrash, FESDies, wsVars
<1>5. FESTypes'
  BY FS_EmptySet DEF TypeInv, FESTypes, FESCrash, FESDies
<1>6. ClientTypes'
  <2>1. \A c \in Clients : client'[c] = client[c] \/ client'[c] = Gone
    BY DEF FESCrash, Lost
  <2>2. client' \in [Clients -> ClientStates]
    BY <2>1, ClientStateTypes DEF TypeInv, ClientTypes, FESCrash, Lost
  <2>3. Gone.stage = "gone"
    BY DEF Gone, NewClient
  <2>4. faults' \in Seq(MayCrash) /\ Len(faults') <= MaxFaults
    BY LoginAssumption DEF TypeInv, ClientTypes, FESCrash, Fault
  <2> QED
    BY <2>1, <2>2, <2>3, <2>4 DEF TypeInv, ClientTypes
<1> QED
  BY <1>1, <1>4, <1>5, <1>6 DEF TypeInv

(* The steps of the LS.                                                    *)
LEMMA SendClientTypes ==
  ASSUME LSTypes, NEW a \in Addrs, NEW m \in ToClient
  PROVE  SendClient(a, m) \in [Clients -> Seq(ToClient)]
<1>1. inbox \in [Clients -> Seq(ToClient)]
  BY DEF LSTypes
<1>2. \A c \in Clients : Append(inbox[c], m) \in Seq(ToClient)
  BY <1>1
<1> QED
  BY <1>1, <1>2 DEF SendClient

LEMMA SendWSTypes ==
  ASSUME NetTypes, NEW m \in ToWS
  PROVE  SendWS(m) \in Seq(ToWS)
<1>1. lsToWS \in Seq(ToWS)
  BY DEF NetTypes
<1>2. Append(lsToWS, m) \in Seq(ToWS)
  BY <1>1
<1> QED
  BY <1>1, <1>2 DEF SendWS

LEMMA LSClientTypes ==
  ASSUME TypeInv, NEW a \in Addrs, LSClient(a)
  PROVE  TypeInv'
<1>1. FESTypes' /\ LinkTypes' /\ ClientTypes'
  BY SameTypes DEF TypeInv, LSClient, wsVars
<1>2. UNCHANGED <<link, linked, wsToLS, broken, lsUp, shardSId, nbPlayers>>
  BY DEF LSClient, LSVerify, LSChooseShard, LSClientGone
<1>3. lsToWS' \in Seq(ToWS) /\ LSTypes' => TypeInv'
  BY <1>1, <1>2 DEF TypeInv, NetTypes
<1>4. /\ users \in [Users -> Rows] /\ conn \in [Addrs -> Sockets]
      /\ inbox \in [Clients -> Seq(ToClient)] /\ lsToWS \in Seq(ToWS)
  BY DEF TypeInv, LSTypes, NetTypes
<1>5. ASSUME conn' = Done(a), users' \in [Users -> Rows],
             inbox' \in [Clients -> Seq(ToClient)]
      PROVE  LSTypes'
  <2>1. conn' = [conn EXCEPT ![a] = [conn[a] EXCEPT !.request = "none"]]
    BY <1>5 DEF Done
  <2> QED
    BY <1>2, <1>5, <2>1, SocketTypes DEF TypeInv, LSTypes
<1>6. CASE LSVerify(a)
  <2> DEFINE u == conn[a].user
  <2>1. u \in Users /\ conn[a].client \in Clients
    BY <1>6 DEF TypeInv, LSTypes, SocketOK, LSVerify
  <2>2. CASE NotOffline(u)
    BY <1>3, <1>4, <1>5, <1>6, <2>1, <2>2, MessagesAreTyped, SendWSTypes, SendClientTypes
    DEF TypeInv, LSVerify
  <2>3. CASE ~NotOffline(u)
    <3>1. NewCookie(a) \in Cookies
      BY <2>1 DEF NewCookie, Cookies
    <3>2. users' = [users EXCEPT ![u] = [users[u] EXCEPT !.state = "Authorized", !.cookie = NewCookie(a)]]
      BY <1>6, <2>3 DEF LSVerify
    <3>3. users' \in [Users -> Rows]
      BY <1>4, <2>1, <3>1, <3>2, RowTypes
    <3> QED
      BY <1>3, <1>4, <1>5, <1>6, <2>3, <3>3, MessagesAreTyped, SendClientTypes DEF TypeInv, LSVerify
  <2> QED
    BY <2>2, <2>3
<1>7. CASE LSChooseShard(a)
  <2>1. CASE /\ inbox' = SendClient(a, NoTicketMsg)
             /\ UNCHANGED <<users, lsToWS>>
    BY <1>3, <1>4, <1>5, <1>7, <2>1, MessagesAreTyped, SendClientTypes DEF TypeInv, LSChooseShard
  <2>2. ASSUME NEW u \in RowsAt(a, {"Authorized"}), users' = Waits(u), UNCHANGED inbox,
               lsToWS' = IF shardSId = link THEN SendWS(ChooseMsg(users[u].cookie)) ELSE lsToWS
        PROVE  TypeInv'
    <3>1. u \in Users /\ users[u].cookie \in Cookies
      BY <1>4 DEF RowsAt, Rows, Null
    <3>2. users' = [users EXCEPT ![u] = [users[u] EXCEPT !.state = "Waiting", !.onShard = TRUE]]
      BY <2>2 DEF Waits
    <3>3. users' \in [Users -> Rows]
      BY <1>4, <3>1, <3>2, RowTypes
    <3>4. lsToWS' \in Seq(ToWS)
      BY <1>4, <2>2, <3>1, MessagesAreTyped, SendWSTypes DEF TypeInv
    <3> QED
      BY <1>3, <1>4, <1>5, <1>7, <2>2, <3>3, <3>4 DEF LSChooseShard
  <2> QED
    BY <1>7, <2>1, <2>2 DEF LSChooseShard
<1>8. CASE LSClientGone(a)
  <2>1. conn' \in [Addrs -> Sockets] /\ \A b \in Addrs : SocketOK(conn'[b])
    BY <1>4, <1>8, SocketTypes DEF TypeInv, LSTypes, LSClientGone
  <2>2. users' \in [Users -> Rows]
    <3>1. CASE UNCHANGED users
      BY <1>4, <3>1
    <3>2. ASSUME NEW u \in Users, users' = [users EXCEPT ![u] = Offline]
          PROVE  users' \in [Users -> Rows]
      BY <1>4, <3>2, RowTypes
    <3> QED
      BY <1>8, <3>1, <3>2 DEF LSClientGone, RowsAt
  <2> QED
    BY <1>2, <1>3, <1>4, <1>8, <2>1, <2>2 DEF TypeInv, LSTypes, LSClientGone
<1> QED
  BY <1>6, <1>7, <1>8 DEF LSClient

LEMMA LSReadTypes ==
  ASSUME NetTypes, NEW type, LSReads(type)
  PROVE  /\ wsToLS' \in Seq(ToLS) /\ Head(wsToLS).link \in Links
         /\ Msg \in FromWS /\ Msg.type = type
<1>1. Head(wsToLS) \in ToLS /\ Tail(wsToLS) \in Seq(ToLS)
  BY HeadAndTail DEF NetTypes, LSReads
<1> QED
  BY <1>1 DEF LSReads, Msg, ToLS

LEMMA LSShardTypes ==
  ASSUME TypeInv, LSShard
  PROVE  TypeInv'
<1>1. FESTypes' /\ LinkTypes' /\ ClientTypes'
  BY SameTypes DEF TypeInv, LSShard, wsVars
<1>2. PICK type : LSReads(type)
  BY DEF LSShard, LSIdentify, LSShardChosen, LSClientConnected, LSLosesWS
<1>3. wsToLS' \in Seq(ToLS) /\ Head(wsToLS).link \in Links
  BY <1>2, LSReadTypes DEF TypeInv
<1>4. NetTypes'
  BY <1>3 DEF TypeInv, NetTypes, LSShard, LSIdentify, LSShardChosen, LSClientConnected, LSLosesWS
<1>5. /\ users \in [Users -> Rows] /\ nbPlayers \in Int
      /\ inbox \in [Clients -> Seq(ToClient)] /\ UNCHANGED <<lsUp, conn>>
  BY DEF TypeInv, LSTypes, LSShard, LSIdentify, LSShardChosen, LSClientConnected, LSLosesWS
<1>6. ASSUME users' \in [Users -> Rows], nbPlayers' \in Int,
             inbox' \in [Clients -> Seq(ToClient)], shardSId' \in 0 .. MaxFaults + 1
      PROVE  LSTypes'
  BY <1>5, <1>6 DEF TypeInv, LSTypes
<1>7. shardSId \in 0 .. MaxFaults + 1
  BY DEF TypeInv, LSTypes
<1>8. CASE LSIdentify
  <2>1. shardSId' \in 0 .. MaxFaults + 1
    BY <1>3, <1>8, LoginAssumption DEF LSIdentify, Links
  <2>2. LSTypes'
    BY <1>5, <1>6, <1>8, <2>1 DEF LSIdentify
  <2> QED
    BY <1>1, <1>4, <2>2 DEF TypeInv
<1>9. CASE LSShardChosen
  <2>1. Msg \in FromWS /\ Msg.type = "SCS"
    BY <1>9, LSReadTypes DEF TypeInv, LSShardChosen
  <2>2. Msg.cookie \in Cookies /\ Msg.cookie.addr \in Addrs /\ (Msg.ok => Msg.fes \in FESs)
    BY <2>1, TypedMessages DEF Cookies
  <2>3. users' \in [Users -> Rows]
    <3>1. users' = users \/ \E rows : users' = [u \in Users |-> IF u \in rows THEN Offline ELSE users[u]]
      BY <1>9 DEF LSShardChosen
    <3> QED
      BY <1>5, <3>1, RowTypes
  <2>4. inbox' \in [Clients -> Seq(ToClient)]
    <3>1. CASE Msg.ok
      BY <1>9, <2>2, <3>1, MessagesAreTyped, SendClientTypes DEF TypeInv, LSShardChosen
    <3>2. CASE ~Msg.ok
      BY <1>9, <2>2, <3>2, MessagesAreTyped, SendClientTypes DEF TypeInv, LSShardChosen
    <3> QED
      BY <3>1, <3>2
  <2>5. LSTypes'
    BY <1>5, <1>6, <1>7, <1>9, <2>3, <2>4 DEF LSShardChosen
  <2> QED
    BY <1>1, <1>4, <2>5 DEF TypeInv
<1>10. CASE LSClientConnected
  <2>1. Msg \in FromWS /\ Msg.type = "CC"
    BY <1>10, LSReadTypes DEF TypeInv, LSClientConnected
  <2>2. Msg.user \in Users
    BY <2>1, TypedMessages
  <2>3. users' \in [Users -> Rows]
    <3>1. users[Msg.user] \in Rows
      BY <1>5, <2>2
    <3>2. ASSUME NEW b \in BOOLEAN PROVE SetOnline(Msg.user, b) \in [Users -> Rows]
      <4>1. [users[Msg.user] EXCEPT !.state = "Online", !.onShard = b] \in Rows
        BY <3>1, RowTypes
      <4> QED
        BY <1>5, <2>2, <4>1 DEF SetOnline
    <3>3. SetOffline(Msg.user) \in [Users -> Rows]
      <4>1. [users[Msg.user] EXCEPT !.state = "Offline", !.onShard = FALSE] \in Rows
        BY <3>1, RowTypes
      <4> QED
        BY <1>5, <2>2, <4>1 DEF SetOffline
    <3> QED
      BY <1>5, <1>10, <3>2, <3>3 DEF LSClientConnected
  <2>4. nbPlayers' \in Int
    <3>1. nbPlayers' = nbPlayers \/ nbPlayers' = nbPlayers + 1 \/ nbPlayers' = nbPlayers - 1
      BY <1>10, Zenon DEF LSClientConnected
    <3> QED
      BY <1>5, <3>1
  <2>5. LSTypes'
    BY <1>5, <1>6, <1>7, <1>10, <2>3, <2>4 DEF LSClientConnected
  <2> QED
    BY <1>1, <1>4, <2>5 DEF TypeInv
<1>11. CASE LSLosesWS
  <2>1. users' \in [Users -> Rows]
    <3>1. CASE IsListed
      <4>1. users' = [u \in Users |-> IF users[u].onShard
                         THEN [users[u] EXCEPT !.state = "Offline", !.onShard = FALSE]
                         ELSE users[u]]
        BY <1>11, <3>1 DEF LSLosesWS
      <4> QED
        BY <1>5, <4>1, RowTypes
    <3>2. CASE ~IsListed
      BY <1>5, <1>11, <3>2 DEF LSLosesWS
    <3> QED
      BY <3>1, <3>2
  <2>2. nbPlayers' \in Int /\ shardSId' \in 0 .. MaxFaults + 1
    <3>1. \/ nbPlayers' = nbPlayers /\ shardSId' = shardSId
          \/ nbPlayers' = 0 /\ shardSId' = 0
      BY <1>11, Zenon DEF LSLosesWS
    <3> QED
      BY <1>5, <1>7, <3>1, LoginAssumption
  <2>3. LSTypes'
    BY <1>5, <1>6, <1>11, <2>1, <2>2 DEF LSLosesWS
  <2> QED
    BY <1>1, <1>4, <2>3 DEF TypeInv
<1> QED
  BY <1>1, <1>4, <1>8, <1>9, <1>10, <1>11 DEF TypeInv, LSShard

LEMMA NoticeTypes ==
  ASSUME TypeInv, NEW l \in broken, Notice(l)
  PROVE  TypeInv'
<1>1. From(l, DownMsg) \in ToLS
  BY MessagesAreTyped DEF TypeInv, NetTypes, From, ToLS
<1>2. Append(wsToLS, From(l, DownMsg)) \in Seq(ToLS)
  BY <1>1 DEF TypeInv, NetTypes
<1>3. NetTypes'
  BY <1>2 DEF TypeInv, NetTypes, Notice
<1> QED
  BY <1>3, SameTypes DEF TypeInv, Notice, wsVars

LEMMA LSCrashTypes ==
  ASSUME TypeInv, LSCrash
  PROVE  TypeInv'
<1>1. FESTypes' /\ LinkTypes'
  BY SameTypes DEF TypeInv, LSCrash, wsVars
<1>2. LSTypes'
  <2>1. <<>> \in Seq(ToClient)
    OBVIOUS
  <2>2. conn' \in [Addrs -> Sockets] /\ \A a \in Addrs : SocketOK(conn'[a])
    BY SocketTypes DEF LSCrash, LSDies
  <2> QED
    <3>1. lsUp' = FALSE /\ shardSId' = 0 /\ nbPlayers' = 0 /\ users' = users
      BY DEF LSCrash, LSDies
    <3>2. lsUp' \in BOOLEAN
      BY <3>1
    <3>3. inbox' \in [Clients -> Seq(ToClient)]
      BY <2>1 DEF LSCrash, LSDies
    <3> QED
      BY <2>2, <3>1, <3>2, <3>3, LoginAssumption DEF TypeInv, LSTypes
<1>3. NetTypes'
  <2>1. ~linked' /\ linked' \in BOOLEAN
    BY DEF LSCrash
  <2> QED
    BY <2>1 DEF TypeInv, NetTypes, LSCrash
<1>4. ClientTypes'
  <2>1. \A c \in Clients : client'[c] = client[c] \/ client'[c] = Gone
    BY DEF LSCrash, Lost
  <2>2. client' \in [Clients -> ClientStates]
    BY <2>1, ClientStateTypes DEF TypeInv, ClientTypes, LSCrash, Lost
  <2>3. Gone.stage = "gone"
    BY DEF Gone, NewClient
  <2>4. faults' \in Seq(MayCrash) /\ Len(faults') <= MaxFaults
    BY LoginAssumption DEF TypeInv, ClientTypes, LSCrash, Fault
  <2> QED
    BY <2>1, <2>2, <2>3, <2>4 DEF TypeInv, ClientTypes
<1> QED
  BY <1>1, <1>2, <1>3, <1>4 DEF TypeInv

LEMMA LSRestartTypes ==
  ASSUME TypeInv, LSRestart
  PROVE  TypeInv'
<1>1. users' \in [Users -> Rows]
  BY RowTypes DEF TypeInv, LSTypes, LSRestart, LSStarts
<1>2. LSTypes'
  BY <1>1 DEF TypeInv, LSTypes, LSRestart, LSStarts
<1> QED
  BY <1>2, OthersSame, SameTypes DEF TypeInv, LSRestart

(* The steps of the WS.                                                    *)
LEMMA SentTypes ==
  ASSUME NEW q \in [FESs -> Seq(ToFES)], NEW f, NEW m \in ToFES
  PROVE  /\ [q EXCEPT ![f] = @ \o <<m>>] \in [FESs -> Seq(ToFES)]
         /\ [q EXCEPT ![f] = Append(@, m)] \in [FESs -> Seq(ToFES)]
<1>1. \A g \in FESs : q[g] \o <<m>> \in Seq(ToFES) /\ Append(q[g], m) \in Seq(ToFES)
  <2> SUFFICES ASSUME NEW g \in FESs
               PROVE  q[g] \o <<m>> \in Seq(ToFES) /\ Append(q[g], m) \in Seq(ToFES)
    OBVIOUS
  <2>1. q[g] \in Seq(ToFES) /\ <<m>> \in Seq(ToFES)
    OBVIOUS
  <2> QED
    BY <2>1
<1> QED
  BY <1>1

LEMMA SendLSTypes ==
  ASSUME NetTypes, NEW m \in FromWS
  PROVE  SendLS(m) \in Seq(ToLS)
<1>1. wsToLS \in Seq(ToLS)
  BY DEF NetTypes
<1>2. ASSUME linked PROVE Append(wsToLS, From(link, m)) \in Seq(ToLS)
  <2>1. From(link, m) \in ToLS
    BY <1>2 DEF NetTypes, From, ToLS
  <2> QED
    BY <1>1, <2>1
<1> QED
  BY <1>1, <1>2 DEF SendLS

LEMMA WSPopTypes ==
  ASSUME LinkTypes, NEW f \in FESs, NEW type, WSReads(f, type), WSPops(f)
  PROVE  /\ fesToWS' \in [FESs -> Seq(FromFES)]
         /\ Head(fesToWS[f]) \in FromFES /\ Head(fesToWS[f]).type = type
<1>1. fesToWS[f] \in Seq(FromFES) /\ fesToWS[f] # <<>>
  BY DEF LinkTypes, WSReads, Reads
<1>2. Head(fesToWS[f]) \in FromFES /\ Tail(fesToWS[f]) \in Seq(FromFES)
  BY <1>1, HeadAndTail
<1> QED
  BY <1>2 DEF LinkTypes, WSReads, Reads, WSPops

LEMMA WSLoginTypes ==
  ASSUME TypeInv, WSLogin
  PROVE  TypeInv'
<1>1. LSTypes' /\ FESTypes' /\ ClientTypes'
  BY SameTypes DEF TypeInv, WSLogin
<1>2. UNCHANGED <<wsUp, assoc, sees, fesToWS, link, linked, broken>>
  BY DEF WSLogin, WSChooseShard, WSDisconnectClient
<1>3. /\ lsToWS' \in Seq(ToWS) /\ Head(lsToWS) \in ToWS
  BY HeadAndTail DEF TypeInv, NetTypes, WSLogin, WSChooseShard, WSDisconnectClient, Reads
<1>4. wsToFES \in [FESs -> Seq(ToFES)] /\ wsToLS \in Seq(ToLS)
  BY DEF TypeInv, LinkTypes, NetTypes
<1>5. ASSUME wsToFES' \in [FESs -> Seq(ToFES)], wsToLS' \in Seq(ToLS)
      PROVE  TypeInv'
  BY <1>1, <1>2, <1>3, <1>5 DEF TypeInv, LinkTypes, NetTypes
<1>6. CASE WSChooseShard
  <2> DEFINE k == Head(lsToWS).cookie
  <2>1. k \in Cookies
    BY <1>3, <1>6, TypedMessages DEF WSChooseShard, Reads
  <2>2. OpenMsgs \in [FESs -> Seq(ToFES)]
    BY <1>4, SentTypes, MessagesAreTyped DEF OpenMsgs, Sent
  <2>3. ChooseMsg(k) \in ToFES /\ RefusedMsg(k) \in FromWS
    BY <2>1, MessagesAreTyped
  <2>4. \/ wsToLS' = Refuse(k) /\ wsToFES' = OpenMsgs
        \/ /\ wsToLS' = wsToLS
           /\ \E f : wsToFES' = [OpenMsgs EXCEPT ![f] = Append(@, ChooseMsg(k))]
    BY <1>6 DEF WSChooseShard
  <2>5. CASE wsToLS' = Refuse(k) /\ wsToFES' = OpenMsgs
    <3>1. wsToLS' \in Seq(ToLS)
      BY <2>3, <2>5, SendLSTypes DEF TypeInv, Refuse
    <3> QED
      BY <1>5, <2>2, <2>5, <3>1
  <2>6. ASSUME NEW f, wsToFES' = [OpenMsgs EXCEPT ![f] = Append(@, ChooseMsg(k))],
               wsToLS' = wsToLS
        PROVE  TypeInv'
    <3>1. wsToFES' \in [FESs -> Seq(ToFES)]
      BY <2>2, <2>3, <2>6, SentTypes
    <3> QED
      BY <1>4, <1>5, <2>6, <3>1
  <2> QED
    BY <2>4, <2>5, <2>6
<1>7. CASE WSDisconnectClient
  <2>1. KickMsg(Head(lsToWS).user) \in ToFES
    BY <1>3, <1>7, TypedMessages, MessagesAreTyped DEF WSDisconnectClient, Reads
  <2>2. wsToFES' \in [FESs -> Seq(ToFES)]
    BY <1>4, <1>7, <2>1, SentTypes DEF WSDisconnectClient, Sent
  <2> QED
    BY <1>4, <1>5, <1>7, <2>2 DEF WSDisconnectClient
<1> QED
  BY <1>6, <1>7 DEF WSLogin

LEMMA WSFrontEndTypes ==
  ASSUME TypeInv, NEW f \in FESs, WSFrontEnd(f)
  PROVE  TypeInv'
<1>1. LSTypes' /\ FESTypes' /\ ClientTypes'
  BY SameTypes DEF TypeInv, WSFrontEnd
<1>2. UNCHANGED <<wsUp, sees, lsToWS, link, linked, broken>>
  BY DEF WSFrontEnd, WSFrontEndUp, WSCounts, WSShardChosen, WSClientConnected,
         WSCookieRemoved, WSFrontEndDown
<1>3. fesToWS' \in [FESs -> Seq(FromFES)]
  BY WSPopTypes DEF TypeInv, WSFrontEnd, WSFrontEndUp, WSCounts, WSShardChosen,
                    WSClientConnected, WSCookieRemoved, WSFrontEndDown
<1>4. /\ wsToFES \in [FESs -> Seq(ToFES)] /\ wsToLS \in Seq(ToLS)
      /\ assoc \in [Users -> Null(FESs)]
  BY DEF TypeInv, LinkTypes, NetTypes
<1>5. ASSUME wsToFES' \in [FESs -> Seq(ToFES)], wsToLS' \in Seq(ToLS),
             assoc' \in [Users -> Null(FESs)]
      PROVE  TypeInv'
  BY <1>1, <1>2, <1>3, <1>5 DEF TypeInv, LinkTypes, NetTypes
<1>6. Sent(f, <<AcceptMsg>>) \in [FESs -> Seq(ToFES)]
  BY <1>4, SentTypes, MessagesAreTyped DEF Sent
<1>7. CASE WSFrontEndUp(f)
  BY <1>4, <1>5, <1>6, <1>7 DEF WSFrontEndUp
<1>8. CASE WSCounts(f)
  <2>1. wsToFES' = wsToFES \/ wsToFES' = Sent(f, <<AcceptMsg>>)
    BY <1>8, Zenon DEF WSCounts
  <2>2. UNCHANGED <<assoc, wsToLS>>
    BY <1>8 DEF WSCounts
  <2> QED
    BY <1>4, <1>5, <1>6, <2>1, <2>2
<1>9. CASE WSShardChosen(f)
  <2>1. Head(fesToWS[f]) \in FromWS
    BY <1>9, WSPopTypes, TypedMessages DEF TypeInv, WSShardChosen
  <2>2. wsToLS' \in Seq(ToLS)
    BY <1>9, <2>1, SendLSTypes DEF TypeInv, WSShardChosen
  <2> QED
    BY <1>4, <1>5, <1>9, <2>2 DEF WSShardChosen
<1>10. CASE WSClientConnected(f)
  <2> DEFINE m == Head(fesToWS[f])
  <2>1. m \in FromWS /\ m.type = "CC"
    BY <1>10, WSPopTypes, TypedMessages DEF TypeInv, WSClientConnected
  <2>2. wsToLS' \in Seq(ToLS)
    BY <1>10, <2>1, SendLSTypes DEF TypeInv, WSClientConnected
  <2>3. assoc' \in [Users -> Null(FESs)]
    <3>1. assoc' = Associated(m.user, f) \/ assoc' = Dissociated(m.user)
      BY <1>10, Zenon DEF WSClientConnected
    <3> QED
      BY <1>4, <3>1 DEF Associated, Dissociated, Null
  <2> QED
    BY <1>4, <1>5, <1>10, <2>2, <2>3 DEF WSClientConnected
<1>11. CASE WSCookieRemoved(f)
  BY <1>4, <1>5, <1>11 DEF WSCookieRemoved
<1>12. CASE WSFrontEndDown(f)
  <2>1. assoc' \in [Users -> Null(FESs)]
    BY <1>4, <1>12 DEF WSFrontEndDown, Null
  <2>2. wsToLS' \in Seq(ToLS)
    <3>1. CASE UNCHANGED wsToLS
      BY <1>4, <3>1
    <3>2. ASSUME linked, NEW ms \in Farewells(PlayersOf(f)),
                 wsToLS' = wsToLS \o [i \in DOMAIN ms |-> From(link, ms[i])]
          PROVE  wsToLS' \in Seq(ToLS)
      <4>1. link \in Links /\ PlayersOf(f) \in SUBSET Users
        BY <3>2 DEF TypeInv, NetTypes, PlayersOf
      <4>2. [i \in DOMAIN ms |-> From(link, ms[i])] \in Seq(ToLS)
        BY <4>1, FarewellFacts
      <4> QED
        BY <1>4, <3>2, <4>2
    <3> QED
      BY <1>12, <3>1, <3>2 DEF WSFrontEndDown
  <2> QED
    BY <1>4, <1>5, <1>12, <2>1, <2>2 DEF WSFrontEndDown
<1> QED
  BY <1>7, <1>8, <1>9, <1>10, <1>11, <1>12 DEF WSFrontEnd

LEMMA WSConnectTypes ==
  ASSUME TypeInv, WSConnect
  PROVE  TypeInv'
<1>1. LSTypes' /\ FESTypes' /\ ClientTypes' /\ LinkTypes'
  BY SameTypes DEF TypeInv, WSConnect, WSConnectsLS, wsVars
<1>2. link' \in Links /\ linked' = TRUE /\ link' = link + 1
  BY LoginAssumption DEF TypeInv, NetTypes, WSConnect, WSConnectsLS, Links
<1>3. From(link + 1, IdentMsg) \in ToLS
  BY <1>2, MessagesAreTyped DEF From, ToLS
<1>4. Append(wsToLS, From(link + 1, IdentMsg)) \in Seq(ToLS)
  BY <1>3 DEF TypeInv, NetTypes
<1>5. NetTypes'
  BY <1>2, <1>4, LoginAssumption DEF TypeInv, NetTypes, WSConnect, WSConnectsLS, Links
<1> QED
  BY <1>1, <1>5 DEF TypeInv

LEMMA WSRestartTypes ==
  ASSUME TypeInv, WSRestart
  PROVE  TypeInv'
<1>1. LSTypes' /\ FESTypes' /\ ClientTypes' /\ NetTypes'
  BY SameTypes DEF TypeInv, WSRestart, WSStarts, netVars
<1>2. wsUp' \in BOOLEAN
  BY DEF WSRestart, WSStarts
<1> QED
  BY <1>1, <1>2 DEF TypeInv, LinkTypes, WSRestart, WSStarts, netVars

LEMMA WSCrashTypes ==
  ASSUME TypeInv, WSCrash
  PROVE  TypeInv'
<1>1. LSTypes' /\ FESTypes'
  BY SameTypes DEF TypeInv, WSCrash
<1>2. wsUp' \in BOOLEAN /\ linked' \in BOOLEAN /\ ~linked'
  BY DEF WSCrash, WSDies
<1>8. /\ assoc' = [u \in Users |-> None] /\ sees' = [f \in FESs |-> FALSE]
      /\ fesToWS' = [f \in FESs |-> <<>>] /\ wsToFES' = wsToFES
      /\ link' = link /\ lsToWS' = <<>>
  BY DEF WSCrash, WSDies
<1>3. ClientTypes'
  BY LoginAssumption DEF TypeInv, ClientTypes, WSCrash, Fault
<1>4. LinkTypes'
  BY <1>2, <1>8 DEF TypeInv, LinkTypes, Null
<1>5. wsToLS' \in Seq(ToLS)
  <2>1. \A q \in CutLink : q \in Seq(ToLS)
    BY CutFacts DEF TypeInv, NetTypes, CutLink
  <2>2. wsToLS' = wsToLS \/ wsToLS' \in CutLink
    BY Zenon DEF WSCrash, WSDies
  <2> QED
    BY <2>1, <2>2 DEF TypeInv, NetTypes
<1>6. broken' \subseteq Links
  BY DEF TypeInv, NetTypes, WSCrash, WSDies
<1>7. NetTypes'
  BY <1>2, <1>5, <1>6, <1>8 DEF TypeInv, NetTypes
<1> QED
  BY <1>1, <1>3, <1>4, <1>7 DEF TypeInv

LEMMA TypeInvStep == TypeInv /\ [Next]_vars => TypeInv'
<1> SUFFICES ASSUME TypeInv, [Next]_vars PROVE TypeInv'
  OBVIOUS
<1>1. CASE UNCHANGED vars
  BY <1>1, OthersSame, SameTypes DEF TypeInv, vars
<1> QED
  BY <1>1, ConnectTypes, AuthenticatedTypes, IgnoresTypes, ChooseTypes, ConfirmedTypes,
     QuitTypes, EnterTypes, RejectedTypes, LSClientTypes, LSShardTypes, NoticeTypes,
     WSLoginTypes, WSConnectTypes, WSCrashTypes, WSRestartTypes, WSFrontEndTypes,
     FESLaunchTypes, FESConnectTypes, FESMessageTypes, EraseTypes, FESCrashTypes,
     LeaveTypes, LSCrashTypes, LSRestartTypes DEF Next

LEMMA TypeInvAlways == Spec => []TypeInv
BY TypeInvInit, TypeInvStep, PTL DEF Spec

(* Whatever crashes: every address the LS answers to, every front end and  *)
(* cookie a client was given, and every connection of the WS that the LS   *)
(* has in Shards, exist; a client on the list of those to remove is there. *)
THEOREM TypeCorrect == Spec => []TypeOK
<1>1. TypeInv => TypeOK
  BY DEF TypeInv, LSTypes, NetTypes, FESTypes, LinkTypes, ClientTypes, Rows, Sockets,
         ClientStates, TypeOK
<1> QED
  BY <1>1, TypeInvAlways, PTL

-----------------------------------------------------------------------------
(* What the WS knows of the players of f, once it has read what f sent     *)
(* (q): an arrival stays true unless the departure follows it, and the     *)
(* last message of a dead front end is that it is down.                    *)
Plays(f, u) == SessionsOf(f, u) # {}
LeavesIn(q, u, n) == \E j \in n .. Len(q) : q[j] = ClientMsg(u, FALSE)
Unknown(f) == \A u \in Users : assoc[u] # f

ArrivalsHold(f, q) ==
  \A u \in Users :
    /\ assoc[u] = f => Plays(f, u) \/ LeavesIn(q, u, 1)
    /\ \A i \in 1 .. Len(q) :
         q[i] = ClientMsg(u, TRUE) => Plays(f, u) \/ LeavesIn(q, u, i)

KnownOK(f, q) ==
  /\ sees[f] => phase[f] = "up" /\ ArrivalsHold(f, q)
  /\ phase[f] # "dead" /\ ~sees[f] => q = <<>> /\ Unknown(f)
  /\ phase[f] = "dead" /\ q = <<>> => Unknown(f)
  /\ phase[f] = "dead" /\ q # <<>> => q[Len(q)] = DownMsg
  /\ \A i \in 1 .. Len(q) : q[i] = DownMsg => i = Len(q) /\ phase[f] = "dead"

KnownInv == \A f \in FESs : KnownOK(f, fesToWS[f])

LEMMA KnownUnaffected ==
  ASSUME NEW f \in FESs, KnownOK(f, fesToWS[f]),
         fesToWS'[f] = fesToWS[f], phase'[f] = phase[f], sees'[f] = sees[f],
         playing'[f] = playing[f], \A u \in Users : assoc'[u] = f => assoc[u] = f
  PROVE  KnownOK(f, fesToWS[f])'
<1>1. \A u : Plays(f, u)' <=> Plays(f, u)
  BY DEF Plays, SessionsOf
<1>2. Unknown(f) => Unknown(f)'
  BY DEF Unknown
<1>3. ArrivalsHold(f, fesToWS[f]) => ArrivalsHold(f, fesToWS[f])'
  BY <1>1 DEF ArrivalsHold, LeavesIn
<1> QED
  BY <1>2, <1>3 DEF KnownOK

LEMMA AppendFacts ==
  ASSUME NEW S, NEW q \in Seq(S), NEW m \in S
  PROVE  /\ Append(q, m) \in Seq(S) /\ Append(q, m) # <<>>
         /\ Len(q) \in Nat /\ Len(Append(q, m)) = Len(q) + 1
         /\ \A i \in 1 .. Len(q) : Append(q, m)[i] = q[i]
         /\ Append(q, m)[Len(q) + 1] = m
OBVIOUS

LEMMA LeavesAfterAppend ==
  ASSUME NEW S, NEW q \in Seq(S), NEW m \in S, NEW u
  PROVE  /\ \A i \in Nat \ {0} : LeavesIn(q, u, i) => LeavesIn(Append(q, m), u, i)
         /\ m = ClientMsg(u, FALSE) =>
              \A i \in 1 .. Len(q) + 1 : LeavesIn(Append(q, m), u, i)
<1> DEFINE n == Len(q)
           r == Append(q, m)
<1>1. /\ n \in Nat /\ Len(r) = n + 1 /\ r[n + 1] = m
      /\ \A i \in 1 .. n : r[i] = q[i]
  BY AppendFacts
<1> HIDE DEF r
<1>2. ASSUME NEW i \in Nat \ {0}, LeavesIn(q, u, i) PROVE LeavesIn(r, u, i)
  <2>1. PICK j \in i .. n : q[j] = ClientMsg(u, FALSE)
    BY <1>2 DEF LeavesIn
  <2>2. j \in 1 .. n /\ j \in i .. n + 1
    BY <1>1, <1>2, <2>1
  <2>3. r[j] = ClientMsg(u, FALSE)
    BY <1>1, <2>1, <2>2
  <2> QED
    BY <1>1, <2>2, <2>3 DEF LeavesIn
<1>3. ASSUME m = ClientMsg(u, FALSE), NEW i \in 1 .. n + 1 PROVE LeavesIn(r, u, i)
  <2>1. n + 1 \in i .. n + 1
    BY <1>1, <1>3
  <2> QED
    BY <1>1, <1>3, <2>1 DEF LeavesIn
<1> QED
  BY <1>2, <1>3 DEF r

LEMMA LeavesAfterTail ==
  ASSUME NEW S, NEW q \in Seq(S), q # <<>>, NEW u
  PROVE  /\ \A i \in 1 .. Len(q) - 1 : LeavesIn(q, u, i + 1) => LeavesIn(Tail(q), u, i)
         /\ LeavesIn(q, u, 1) /\ q[1] # ClientMsg(u, FALSE) => LeavesIn(Tail(q), u, 1)
<1> DEFINE n == Len(q)
           r == Tail(q)
<1>1. /\ n \in Nat \ {0} /\ Len(r) = n - 1
      /\ \A i \in 1 .. n - 1 : r[i] = q[i + 1]
  BY HeadAndTail
<1>5. \A i : LeavesIn(q, u, i) => \E j \in i .. n : q[j] = ClientMsg(u, FALSE)
  BY DEF LeavesIn
<1> HIDE DEF n, r
<1>2. ASSUME NEW i \in Nat \ {0}, NEW j \in i + 1 .. n, q[j] = ClientMsg(u, FALSE)
      PROVE  LeavesIn(r, u, i)
  <2> DEFINE h == j - 1
  <2>1. h \in i .. n - 1 /\ h \in 1 .. n - 1 /\ j = h + 1
    BY <1>1, <1>2
  <2>2. r[h] = q[h + 1]
    BY <1>1, <2>1
  <2>3. r[h] = ClientMsg(u, FALSE)
    BY <1>2, <2>1, <2>2
  <2> QED
    BY <1>1, <2>1, <2>3 DEF LeavesIn
<1>3. ASSUME NEW i \in 1 .. n - 1, LeavesIn(q, u, i + 1) PROVE LeavesIn(r, u, i)
  <2>1. PICK j \in i + 1 .. n : q[j] = ClientMsg(u, FALSE)
    BY <1>3, <1>5
  <2>2. i \in Nat \ {0}
    BY <1>1
  <2> QED
    BY <1>2, <2>1, <2>2
<1>4. ASSUME LeavesIn(q, u, 1), q[1] # ClientMsg(u, FALSE) PROVE LeavesIn(r, u, 1)
  <2>1. PICK j \in 1 .. n : q[j] = ClientMsg(u, FALSE)
    BY <1>4, <1>5
  <2>2. j # 1
    BY <1>4, <2>1
  <2>3. j \in 1 + 1 .. n /\ 1 \in Nat \ {0}
    BY <1>1, <2>1, <2>2
  <2> QED
    BY <1>2, <2>1, <2>3
<1> QED
  BY <1>3, <1>4 DEF n, r

LEMMA KnownAfterTell ==
  ASSUME NEW f \in FESs, KnownOK(f, fesToWS[f]), fesToWS \in [FESs -> Seq(FromFES)],
         NEW m \in FromFES, m # DownMsg, fesToWS' = Tell(f, m),
         UNCHANGED <<phase, sees, assoc>>,
         \A u \in Users : Plays(f, u) => Plays(f, u)' \/ m = ClientMsg(u, FALSE),
         \A u \in Users : m = ClientMsg(u, TRUE) => Plays(f, u)'
  PROVE  KnownOK(f, fesToWS[f])'
<1> DEFINE q == fesToWS[f]
<1>1. CASE ~sees[f]
  BY <1>1 DEF Tell, KnownOK, Unknown
<1>2. CASE sees[f]
  <2>1. fesToWS'[f] = Append(q, m) /\ q \in Seq(FromFES) /\ phase[f] = "up"
    BY <1>2 DEF Tell, KnownOK
  <2> DEFINE n == Len(q)
             r == fesToWS'[f]
  <2>2. /\ n \in Nat /\ Len(r) = n + 1 /\ r[n + 1] = m /\ r # <<>>
        /\ \A i \in 1 .. n : r[i] = q[i]
    BY <2>1, AppendFacts
  <2>3. ArrivalsHold(f, q)
    BY <1>2 DEF KnownOK
  <2> HIDE DEF n, r
  <2>4. \A u \in Users, i \in 1 .. n : LeavesIn(q, u, i) => LeavesIn(r, u, i)
    <3> SUFFICES ASSUME NEW u \in Users, NEW i \in 1 .. n, LeavesIn(q, u, i)
                 PROVE  LeavesIn(r, u, i)
      OBVIOUS
    <3>1. i \in Nat \ {0}
      BY <2>2
    <3> QED
      BY <2>1, <3>1, LeavesAfterAppend DEF r
  <2>5. \A u \in Users, i \in 1 .. n + 1 : m = ClientMsg(u, FALSE) => LeavesIn(r, u, i)
    BY <2>1, LeavesAfterAppend DEF n, r
  <2>6. \A u \in Users : LeavesIn(q, u, 1) => LeavesIn(r, u, 1)
    <3>1. 1 \in Nat \ {0}
      OBVIOUS
    <3> QED
      BY <2>1, <3>1, LeavesAfterAppend DEF r
  <2>7. ASSUME NEW u \in Users, assoc'[u] = f PROVE Plays(f, u)' \/ LeavesIn(r, u, 1)
    <3>1. Plays(f, u) \/ LeavesIn(q, u, 1)
      BY <2>3, <2>7 DEF ArrivalsHold
    <3>2. 1 \in 1 .. n + 1
      BY <2>2
    <3> QED
      BY <2>5, <2>6, <3>1, <3>2
  <2>8. ASSUME NEW u \in Users, NEW i \in 1 .. Len(r), r[i] = ClientMsg(u, TRUE)
        PROVE  Plays(f, u)' \/ LeavesIn(r, u, i)
    <3>1. CASE i = n + 1
      BY <2>2, <2>8, <3>1
    <3>2. CASE i \in 1 .. n
      BY <2>2, <2>3, <2>4, <2>5, <2>8, <3>2 DEF ArrivalsHold, n
    <3> QED
      BY <2>2, <3>1, <3>2
  <2>9. ArrivalsHold(f, fesToWS[f])'
    BY <2>7, <2>8 DEF ArrivalsHold, r
  <2>10. \A i \in 1 .. Len(r) : r[i] # DownMsg
    BY <2>1, <2>2 DEF KnownOK, n
  <2> QED
    BY <1>2, <2>1, <2>9, <2>10 DEF KnownOK, r
<1> QED
  BY <1>1, <1>2

LEMMA KnownAfterRead ==
  ASSUME NEW f \in FESs, KnownOK(f, fesToWS[f]), fesToWS \in [FESs -> Seq(FromFES)],
         fesToWS[f] # <<>>, WSPops(f), UNCHANGED <<phase, sees, playing>>,
         \A u \in Users : assoc'[u] = f => assoc[u] = f \/ Head(fesToWS[f]) = ClientMsg(u, TRUE),
         \A u \in Users : Head(fesToWS[f]) = ClientMsg(u, FALSE) => assoc'[u] # f,
         Head(fesToWS[f]) = DownMsg => Unknown(f)'
  PROVE  KnownOK(f, fesToWS[f])'
<1> DEFINE q == fesToWS[f]
           r == fesToWS'[f]
           n == Len(q)
<1>1. r = Tail(q) /\ q \in Seq(FromFES)
  BY DEF WSPops
<1>2. /\ n \in Nat \ {0} /\ Len(r) = n - 1 /\ Head(q) = q[1] /\ r \in Seq(FromFES)
      /\ \A i \in 1 .. n - 1 : r[i] = q[i + 1]
  BY <1>1, HeadAndTail
<1>3. \A u : Plays(f, u)' <=> Plays(f, u)
  BY DEF Plays, SessionsOf
<1>4. ~sees[f] => phase[f] = "dead"
  BY DEF KnownOK
<1> HIDE DEF r, n
<1>5. \A u \in Users, i \in 1 .. n - 1 : LeavesIn(q, u, i + 1) => LeavesIn(r, u, i)
  BY <1>1, LeavesAfterTail DEF n, r
<1>6. \A u \in Users :
        LeavesIn(q, u, 1) /\ q[1] # ClientMsg(u, FALSE) => LeavesIn(r, u, 1)
  BY <1>1, LeavesAfterTail DEF r
<1>7. ASSUME sees[f] PROVE ArrivalsHold(f, fesToWS[f])'
  <2>1. \A u \in Users :
          /\ assoc[u] = f => Plays(f, u) \/ LeavesIn(q, u, 1)
          /\ \A i \in 1 .. n : q[i] = ClientMsg(u, TRUE) => Plays(f, u) \/ LeavesIn(q, u, i)
    BY <1>7 DEF KnownOK, ArrivalsHold, n
  <2> HIDE DEF q
  <2>2. ASSUME NEW u \in Users, assoc'[u] = f PROVE Plays(f, u) \/ LeavesIn(r, u, 1)
    <3>1. q[1] # ClientMsg(u, FALSE)
      BY <1>2, <2>2 DEF q
    <3>2. assoc[u] = f \/ q[1] = ClientMsg(u, TRUE)
      BY <1>2, <2>2 DEF q
    <3>3. 1 \in 1 .. n
      BY <1>2
    <3>4. Plays(f, u) \/ LeavesIn(q, u, 1)
      BY <2>1, <3>2, <3>3
    <3> QED
      BY <1>6, <3>1, <3>4
  <2>3. ASSUME NEW u \in Users, NEW i \in 1 .. n - 1, r[i] = ClientMsg(u, TRUE)
        PROVE  Plays(f, u) \/ LeavesIn(r, u, i)
    <3>1. i + 1 \in 1 .. n
      BY <1>2
    <3>3. q[i + 1] = ClientMsg(u, TRUE)
      BY <1>2, <2>3
    <3>2. Plays(f, u) \/ LeavesIn(q, u, i + 1)
      BY <2>1, <3>1, <3>3
    <3> QED
      BY <1>5, <3>2
  <2> QED
    BY <1>2, <1>3, <2>2, <2>3 DEF ArrivalsHold, r
<1>8. CASE n = 1
  <2>1. r = <<>>
    BY <1>2, <1>8
  <2>2. ASSUME phase[f] = "dead" PROVE Unknown(f)'
    BY <1>2, <1>8, <2>2 DEF KnownOK, n
  <2> QED
    BY <1>2, <1>4, <1>7, <1>8, <2>1, <2>2 DEF KnownOK, r
<1>9. CASE n > 1
  <2>1. r # <<>> /\ r[Len(r)] = q[n]
    BY <1>2, <1>9
  <2>2. \A i \in 1 .. Len(r) : r[i] = DownMsg => i = Len(r) /\ phase[f] = "dead"
    <3> SUFFICES ASSUME NEW i \in 1 .. n - 1, r[i] = DownMsg
                 PROVE  i = n - 1 /\ phase[f] = "dead"
      BY <1>2
    <3>1. i + 1 \in 1 .. n /\ q[i + 1] = DownMsg
      BY <1>2
    <3>2. i + 1 = n /\ phase[f] = "dead"
      BY <3>1 DEF KnownOK, n
    <3> QED
      BY <1>2, <3>2
  <2>3. phase[f] = "dead" => q[n] = DownMsg
    BY <1>2 DEF KnownOK, n
  <2> QED
    BY <1>4, <1>7, <2>1, <2>2, <2>3 DEF KnownOK, r
<1> QED
  BY <1>2, <1>8, <1>9

(* Most steps leave all of it alone.                                       *)
LEMMA KnownElsewhere ==
  ASSUME KnownInv, UNCHANGED <<fesToWS, phase, sees, playing, assoc>>
  PROVE  KnownInv'
BY KnownUnaffected DEF KnownInv

LEMMA KnownKept ==
  ASSUME TypeInv, KnownInv, [Next]_vars,
         \A f \in FESs : /\ ~WSFrontEnd(f) /\ ~FESLaunch(f) /\ ~FESConnect(f)
                         /\ ~FESMessage(f) /\ ~Erase(f) /\ ~FESCrash(f)
                         /\ \A p \in playing[f] : ~Leave(f, p),
         \A c \in Clients : ~Enter(c), ~WSCrash
  PROVE  KnownInv'
<1>1. UNCHANGED <<fesToWS, phase, sees, playing, assoc>>
  <2>1. CASE UNCHANGED vars
    BY <2>1 DEF vars, wsVars, fesVars, netVars
  <2>2. CASE WSLogin
    BY <2>2 DEF WSLogin, WSChooseShard, WSDisconnectClient, fesVars
  <2>3. CASE WSConnect \/ WSRestart
    BY <2>3 DEF WSConnect, WSRestart, WSConnectsLS, WSStarts, fesVars, wsVars, netVars
  <2>4. CASE LSShard \/ LSCrash \/ LSRestart \/ \E l \in broken : Notice(l)
    BY <2>4 DEF LSShard, LSCrash, LSRestart, Notice, fesVars, wsVars, netVars
  <2>5. CASE \E a \in Addrs : LSClient(a)
    BY <2>5 DEF LSClient, fesVars, wsVars
  <2>6. ASSUME NEW c \in Clients, NEW u \in Users, NEW a \in Addrs, Connect(c, u, a)
        PROVE  UNCHANGED <<fesToWS, phase, sees, playing, assoc>>
    BY <2>6 DEF Connect, fesVars, wsVars, netVars
  <2>7. ASSUME NEW c \in Clients,
               \/ Authenticated(c) \/ Ignores(c) \/ Choose(c) \/ Confirmed(c)
               \/ Quit(c) \/ Rejected(c)
        PROVE  UNCHANGED <<fesToWS, phase, sees, playing, assoc>>
    BY <2>7 DEF Authenticated, Ignores, Choose, Confirmed, Quit, Rejected,
                fesVars, wsVars, netVars
  <2> QED
    BY <2>1, <2>2, <2>3, <2>4, <2>5, <2>6, <2>7 DEF Next
<1> QED
  BY <1>1, KnownElsewhere

LEMMA TellKeepsOthers ==
  ASSUME NEW f \in FESs, NEW g \in FESs, g # f, NEW m, fesToWS' = Tell(f, m), LinkTypes
  PROVE  fesToWS'[g] = fesToWS[g]
BY DEF Tell, LinkTypes

LEMMA FESMessageKnown ==
  ASSUME TypeInv, KnownInv, NEW f \in FESs, FESMessage(f)
  PROVE  KnownInv'
<1>1. UNCHANGED <<phase, sees, playing, assoc>>
  BY DEF FESMessage, FESAccepts, FESChooseShard, FESDisconnectClient, wsVars
<1>2. CASE FESAccepts(f) \/ FESDisconnectClient(f)
  BY <1>1, <1>2, KnownElsewhere DEF FESAccepts, FESDisconnectClient
<1>3. CASE FESChooseShard(f)
  <2> DEFINE k == Head(wsToFES[f]).cookie
             m == ChosenMsg(k, f, Cardinality(Inserted(f, k)))
  <2>1. k \in Cookies
    BY <1>3, FESPopTypes, TypedMessages DEF TypeInv, FESChooseShard
  <2>2. m \in FromFES
    BY <2>1, InsertedTypes, MessagesAreTyped
  <2>3. m # DownMsg /\ \A u, b : m # ClientMsg(u, b)
    BY DEF ChosenMsg, DownMsg, ClientMsg
  <2>4. fesToWS' = Tell(f, m)
    BY <1>3 DEF FESChooseShard
  <2> HIDE DEF m, k
  <2>5. \A u : Plays(f, u)' <=> Plays(f, u)
    BY <1>1 DEF Plays, SessionsOf
  <2>6. KnownOK(f, fesToWS[f])'
    BY <1>1, <2>2, <2>3, <2>4, <2>5, KnownAfterTell DEF TypeInv, LinkTypes, KnownInv
  <2>7. ASSUME NEW g \in FESs, g # f PROVE KnownOK(g, fesToWS[g])'
    BY <1>1, <2>4, <2>7, TellKeepsOthers, KnownUnaffected DEF TypeInv, KnownInv
  <2> QED
    BY <2>6, <2>7 DEF KnownInv
<1> QED
  BY <1>2, <1>3 DEF FESMessage

LEMMA EraseKnown ==
  ASSUME TypeInv, KnownInv, NEW f \in FESs, Erase(f)
  PROVE  KnownInv'
<1>1. UNCHANGED <<phase, sees, playing, assoc>>
  BY DEF Erase, FESErasesCookie, wsVars
<1>2. PICK k \in pending[f] : fesToWS' = Tell(f, RemovedMsg(k))
  BY DEF Erase, FESErasesCookie
<1>3. RemovedMsg(k) \in FromFES
  BY MessagesAreTyped DEF TypeInv, FESTypes
<1>4. RemovedMsg(k) # DownMsg /\ \A u, b : RemovedMsg(k) # ClientMsg(u, b)
  BY DEF RemovedMsg, DownMsg, ClientMsg
<1>5. \A u : Plays(f, u)' <=> Plays(f, u)
  BY <1>1 DEF Plays, SessionsOf
<1>6. KnownOK(f, fesToWS[f])'
  BY <1>1, <1>2, <1>3, <1>4, <1>5, KnownAfterTell DEF TypeInv, LinkTypes, KnownInv
<1>7. ASSUME NEW g \in FESs, g # f PROVE KnownOK(g, fesToWS[g])'
  BY <1>1, <1>2, <1>7, TellKeepsOthers, KnownUnaffected DEF TypeInv, KnownInv
<1> QED
  BY <1>6, <1>7 DEF KnownInv

(* The message of an arrival is of an account that plays: addClient adds   *)
(* it or finds it there already.                                           *)
LEMMA LoginKnown ==
  ASSUME TypeInv, KnownInv, NEW c \in Clients, NEW f \in FESs, NEW k \in Cookies,
         FESLogin(f, c, k), UNCHANGED assoc
  PROVE  KnownInv'
<1> DEFINE m == ClientMsg(k.user, TRUE)
<1>1. k.user \in Users /\ UNCHANGED <<phase, sees>> /\ fesToWS' = Tell(f, m)
  BY DEF FESLogin, Cookies
<1>2. \/ playing' = [playing EXCEPT ![f] = @ \cup {<<c, k.user>>}]
      \/ playing' = playing /\ SessionsOf(f, k.user) # {}
  BY DEF FESLogin, acceptUserIdConnection
<1>3. \A g \in FESs : playing[g] \subseteq playing'[g] /\ (g # f => playing'[g] = playing[g])
  BY <1>2 DEF TypeInv, FESTypes
<1>4. \A u \in Users : Plays(f, u) => Plays(f, u)'
  BY <1>3 DEF Plays, SessionsOf
<1>5. Plays(f, k.user)'
  <2>1. CASE playing' = playing /\ SessionsOf(f, k.user) # {}
    BY <2>1, <1>1, <1>4 DEF Plays
  <2>2. CASE playing' = [playing EXCEPT ![f] = @ \cup {<<c, k.user>>}]
    <3>1. <<c, k.user>> \in playing'[f]
      BY <2>2 DEF TypeInv, FESTypes
    <3> QED
      BY <3>1 DEF Plays, SessionsOf
  <2> QED
    BY <1>2, <2>1, <2>2
<1>6. /\ m \in FromFES /\ m # DownMsg
      /\ \A u : m = ClientMsg(u, TRUE) => u = k.user
  <2>1. m \in FromFES
    BY <1>1, MessagesAreTyped
  <2>2. m # DownMsg /\ \A u : m = ClientMsg(u, TRUE) => u = k.user
    BY DEF ClientMsg, DownMsg
  <2> QED
    BY <2>1, <2>2
<1> HIDE DEF m
<1>7. KnownOK(f, fesToWS[f])'
  BY <1>1, <1>4, <1>5, <1>6, KnownAfterTell DEF TypeInv, LinkTypes, KnownInv
<1>8. ASSUME NEW g \in FESs, g # f PROVE KnownOK(g, fesToWS[g])'
  BY <1>1, <1>3, <1>8, TellKeepsOthers, KnownUnaffected DEF TypeInv, KnownInv
<1> QED
  BY <1>7, <1>8 DEF KnownInv

LEMMA EnterKnown ==
  ASSUME TypeInv, KnownInv, NEW c \in Clients, Enter(c)
  PROVE  KnownInv'
<1>1. client[c].fes \in FESs /\ client[c].ticket \in Cookies
  BY DEF TypeInv, ClientTypes, Enter
<1>2. FESLogin(client[c].fes, c, client[c].ticket) /\ UNCHANGED assoc
  BY DEF Enter, wsVars
<1> QED
  BY <1>1, <1>2, LoginKnown

LEMMA LeaveKnown ==
  ASSUME TypeInv, KnownInv, NEW f \in FESs, NEW p \in playing[f], Leave(f, p)
  PROVE  KnownInv'
<1> DEFINE m == ClientMsg(p[2], FALSE)
<1>1. p[2] \in Users
  BY DEF TypeInv, FESTypes
<1>2. /\ UNCHANGED <<phase, sees, assoc>> /\ fesToWS' = Tell(f, m)
      /\ playing' = [playing EXCEPT ![f] = @ \ {p}]
  BY DEF Leave, FESRemoves, wsVars
<1>3. \A u \in Users : Plays(f, u) => Plays(f, u)' \/ u = p[2]
  BY <1>2 DEF TypeInv, FESTypes, Plays, SessionsOf
<1>4. m \in FromFES /\ m # DownMsg /\ \A u : m # ClientMsg(u, TRUE)
  <2>1. m \in FromFES
    BY <1>1, MessagesAreTyped
  <2>2. m # DownMsg /\ \A u : m # ClientMsg(u, TRUE)
    BY DEF ClientMsg, DownMsg
  <2> QED
    BY <2>1, <2>2
<1>5. KnownOK(f, fesToWS[f])'
  BY <1>1, <1>2, <1>3, <1>4, KnownAfterTell DEF TypeInv, LinkTypes, KnownInv
<1>6. ASSUME NEW g \in FESs, g # f PROVE KnownOK(g, fesToWS[g])'
  BY <1>2, <1>6, TellKeepsOthers, KnownUnaffected DEF TypeInv, FESTypes, KnownInv
<1> QED
  BY <1>5, <1>6 DEF KnownInv

LEMMA FESLaunchKnown ==
  ASSUME TypeInv, KnownInv, NEW f \in FESs, FESLaunch(f)
  PROVE  KnownInv'
<1>1. /\ UNCHANGED <<sees, playing, assoc, fesToWS>> /\ phase[f] = "off"
      /\ phase' = [phase EXCEPT ![f] = "up"]
  BY DEF FESLaunch, FESStart, wsVars
<1>2. phase'[f] = "up" /\ \A g \in FESs : g # f => phase'[g] = phase[g]
  BY <1>1 DEF TypeInv, FESTypes
<1>3. ~sees[f] /\ fesToWS[f] = <<>> /\ Unknown(f)
  BY <1>1 DEF KnownInv, KnownOK
<1>4. KnownOK(f, fesToWS[f])'
  BY <1>1, <1>2, <1>3 DEF KnownOK, Unknown
<1>5. ASSUME NEW g \in FESs, g # f PROVE KnownOK(g, fesToWS[g])'
  BY <1>1, <1>2, <1>5, KnownUnaffected DEF KnownInv
<1> QED
  BY <1>4, <1>5 DEF KnownInv

LEMMA FESConnectKnown ==
  ASSUME TypeInv, KnownInv, NEW f \in FESs, FESConnect(f)
  PROVE  KnownInv'
<1>1. /\ UNCHANGED <<phase, playing, assoc>> /\ phase[f] = "up" /\ ~sees[f]
      /\ sees' = [sees EXCEPT ![f] = TRUE]
      /\ fesToWS' = [fesToWS EXCEPT ![f] = <<UpMsg, Report(f)>>]
  BY DEF FESConnect, FESMeetsWS, fesVars, wsVars
<1>2. /\ fesToWS'[f] = <<UpMsg, Report(f)>>
      /\ \A g \in FESs : g # f => fesToWS'[g] = fesToWS[g] /\ sees'[g] = sees[g]
  BY <1>1 DEF TypeInv, LinkTypes
<1>3. Unknown(f)
  BY <1>1 DEF KnownInv, KnownOK
<1>4. /\ UpMsg # DownMsg /\ Report(f) # DownMsg
      /\ \A u : UpMsg # ClientMsg(u, TRUE) /\ Report(f) # ClientMsg(u, TRUE)
  BY DEF UpMsg, Report, CountsMsg, DownMsg, ClientMsg
<1> DEFINE r == fesToWS'[f]
<1>5. Len(r) = 2 /\ \A i \in 1 .. 2 : r[i] # DownMsg /\ \A u : r[i] # ClientMsg(u, TRUE)
  <2> DEFINE n == Report(f)
  <2> HIDE DEF n
  <2>1. r = <<UpMsg, n>> /\ n # DownMsg /\ \A u : n # ClientMsg(u, TRUE)
    BY <1>2, <1>4 DEF n
  <2> DEFINE m == UpMsg
  <2>2. r = <<m, n>> /\ m # DownMsg /\ \A u : m # ClientMsg(u, TRUE)
    BY <1>4, <2>1
  <2> HIDE DEF m, r
  <2>3. Len(r) = 2 /\ r[1] = m /\ r[2] = n
    BY <2>2
  <2>4. \A i \in 1 .. 2 : i = 1 \/ i = 2
    OBVIOUS
  <2> QED
    BY <2>1, <2>2, <2>3, <2>4
<1> HIDE DEF r
<1>6. ArrivalsHold(f, fesToWS[f])'
  BY <1>1, <1>3, <1>5 DEF ArrivalsHold, Unknown, r
<1>7. phase'[f] = "up"
  BY <1>1
<1>8. KnownOK(f, fesToWS[f])'
  <2>1. \A i \in 1 .. Len(r) : r[i] # DownMsg
    BY <1>5
  <2>2. sees'[f]
    BY <1>1 DEF TypeInv, LinkTypes
  <2> QED
    BY <1>6, <1>7, <2>1, <2>2 DEF KnownOK, r
<1>9. ASSUME NEW g \in FESs, g # f PROVE KnownOK(g, fesToWS[g])'
  BY <1>1, <1>2, <1>9, KnownUnaffected DEF KnownInv
<1> QED
  BY <1>8, <1>9 DEF KnownInv

LEMMA FESCrashKnown ==
  ASSUME TypeInv, KnownInv, NEW f \in FESs, FESCrash(f)
  PROVE  KnownInv'
<1>1. /\ phase[f] = "up" /\ phase' = [phase EXCEPT ![f] = "dead"]
      /\ sees' = [sees EXCEPT ![f] = FALSE] /\ UNCHANGED assoc
      /\ playing' = [playing EXCEPT ![f] = {}]
      /\ IF sees[f] THEN \E q \in Cut(fesToWS[f]) :
                           fesToWS' = [fesToWS EXCEPT ![f] = Append(q, DownMsg)]
         ELSE UNCHANGED fesToWS
  BY DEF FESCrash, FESDies, wsVars
<1>2. /\ phase'[f] = "dead" /\ ~sees'[f]
      /\ \A g \in FESs : g # f => /\ phase'[g] = phase[g] /\ sees'[g] = sees[g]
                                  /\ playing'[g] = playing[g] /\ fesToWS'[g] = fesToWS[g]
  BY <1>1 DEF TypeInv, FESTypes, LinkTypes
<1>3. CASE ~sees[f]
  <2>1. fesToWS'[f] = <<>> /\ Unknown(f)'
    BY <1>1, <1>3 DEF KnownInv, KnownOK, Unknown
  <2>2. KnownOK(f, fesToWS[f])'
    BY <1>2, <2>1 DEF KnownOK
  <2> QED
    BY <1>1, <1>2, <2>2, KnownUnaffected DEF KnownInv
<1>4. CASE sees[f]
  <2>1. PICK q \in Cut(fesToWS[f]) : fesToWS' = [fesToWS EXCEPT ![f] = Append(q, DownMsg)]
    BY <1>1, <1>4
  <2>2. fesToWS[f] \in Seq(FromFES)
    BY DEF TypeInv, LinkTypes
  <2>3. /\ q \in Seq(FromFES) /\ DownMsg \in FromFES /\ Len(q) <= Len(fesToWS[f])
        /\ \A i \in 1 .. Len(q) : q[i] = fesToWS[f][i]
    BY <2>2, CutFacts, MessagesAreTyped
  <2> DEFINE r == fesToWS'[f]
             n == Len(q)
  <2>4. r = Append(q, DownMsg)
    BY <2>1 DEF TypeInv, LinkTypes
  <2>5. /\ n \in Nat /\ Len(r) = n + 1 /\ r[n + 1] = DownMsg /\ r # <<>>
        /\ \A i \in 1 .. n : r[i] = q[i]
    BY <2>3, <2>4, AppendFacts
  <2>6. \A i \in 1 .. n : q[i] # DownMsg
    <3>1. \A i \in 1 .. Len(fesToWS[f]) : fesToWS[f][i] # DownMsg
      BY <1>1 DEF KnownInv, KnownOK
    <3>2. Len(fesToWS[f]) \in Nat
      BY <2>2
    <3> QED
      BY <2>3, <2>5, <3>1, <3>2
  <2> HIDE DEF r, n
  <2>7. \A i \in 1 .. Len(r) : r[i] = DownMsg => i = Len(r)
    BY <2>5, <2>6
  <2>8. KnownOK(f, fesToWS[f])'
    BY <1>2, <2>5, <2>7 DEF KnownOK, r
  <2> QED
    BY <1>1, <1>2, <2>8, KnownUnaffected DEF KnownInv
<1> QED
  BY <1>3, <1>4

LEMMA WSCrashKnown ==
  ASSUME TypeInv, KnownInv, WSCrash
  PROVE  KnownInv'
<1>1. /\ \A f \in FESs : ~sees'[f] /\ fesToWS'[f] = <<>>
      /\ \A u \in Users : assoc'[u] = None
  BY DEF WSCrash, WSDies
<1>2. \A f \in FESs : Unknown(f)'
  BY <1>1, LoginAssumption DEF Unknown
<1> QED
  BY <1>1, <1>2 DEF KnownInv, KnownOK

LEMMA WSFrontEndKnown ==
  ASSUME TypeInv, KnownInv, NEW f \in FESs, WSFrontEnd(f)
  PROVE  KnownInv'
<1> DEFINE h == Head(fesToWS[f])
<1>1. UNCHANGED <<phase, sees, playing>>
  BY DEF WSFrontEnd, fesVars
<1>2. WSPops(f) /\ fesToWS[f] # <<>>
  BY DEF WSFrontEnd, WSFrontEndUp, WSCounts, WSShardChosen, WSClientConnected,
         WSCookieRemoved, WSFrontEndDown, WSReads, Reads
<1>3. /\ assoc \in [Users -> Null(FESs)] /\ fesToWS \in [FESs -> Seq(FromFES)]
      /\ h \in FromFES
  BY <1>2, HeadAndTail DEF TypeInv, LinkTypes
<1>4. \A g \in FESs : g # f => fesToWS'[g] = fesToWS[g]
  BY <1>2, <1>3 DEF WSPops
<1>5. /\ \A u, b : h = ClientMsg(u, b) => h.type = "CC" /\ h.user = u /\ h.con = b
      /\ \A u : h = ClientMsg(u, FALSE) => u = h.user
      /\ h = DownMsg => h.type = "down"
  BY DEF ClientMsg, DownMsg
<1>6. ASSUME \A u \in Users : assoc'[u] \in FESs => assoc[u] = assoc'[u] \/ (assoc'[u] = f /\ h = ClientMsg(u, TRUE)),
             \A u \in Users : h = ClientMsg(u, FALSE) => assoc'[u] # f,
             h = DownMsg => Unknown(f)'
      PROVE  KnownInv'
  <2>1. KnownOK(f, fesToWS[f])'
    BY <1>1, <1>2, <1>3, <1>6, KnownAfterRead DEF KnownInv
  <2>2. ASSUME NEW g \in FESs, g # f PROVE KnownOK(g, fesToWS[g])'
    BY <1>1, <1>4, <1>6, <2>2, KnownUnaffected DEF KnownInv
  <2> QED
    BY <2>1, <2>2 DEF KnownInv
<1>7. CASE h.type \notin {"CC", "down"}
  <2>1. UNCHANGED assoc
    BY <1>7 DEF WSFrontEnd, WSFrontEndUp, WSCounts, WSShardChosen, WSClientConnected,
                WSCookieRemoved, WSFrontEndDown, WSReads, Reads
  <2> QED
    BY <1>5, <1>6, <1>7, <2>1
<1>8. CASE h.type = "CC"
  <2>1. WSClientConnected(f)
    BY <1>8 DEF WSFrontEnd, WSFrontEndUp, WSCounts, WSShardChosen, WSClientConnected,
                WSCookieRemoved, WSFrontEndDown, WSReads, Reads
  <2>2. /\ h = ClientMsg(h.user, h.con) /\ h.user \in Users /\ h.con \in BOOLEAN
        /\ h # DownMsg
    BY <1>3, <1>5, <1>8, TypedMessages
  <2>3. assoc' = IF h.con THEN Associated(h.user, f) ELSE Dissociated(h.user)
    BY <2>1 DEF WSClientConnected
  <2> HIDE DEF h
  <2>4. CASE h.con
    <3>1. assoc' = [assoc EXCEPT ![h.user] = IF @ = None THEN f ELSE @]
      BY <2>3, <2>4 DEF Associated
    <3>2. \A u \in Users : assoc'[u] = assoc[u] \/ (assoc'[u] = f /\ u = h.user)
      BY <1>3, <2>2, <3>1
    <3>3. h = ClientMsg(h.user, TRUE) /\ \A u : h # ClientMsg(u, FALSE)
      BY <1>5, <2>2, <2>4
    <3> QED
      BY <1>6, <2>2, <3>2, <3>3
  <2>5. CASE ~h.con
    <3>1. assoc' = [assoc EXCEPT ![h.user] = None]
      BY <2>3, <2>5 DEF Dissociated
    <3>2. \A u \in Users : assoc'[u] = assoc[u] \/ (assoc'[u] = None /\ u = h.user)
      BY <1>3, <2>2, <3>1
    <3>3. assoc'[h.user] = None /\ None \notin FESs /\ None # f
      BY <1>3, <2>2, <3>1, LoginAssumption
    <3>4. \A u : h = ClientMsg(u, FALSE) => u = h.user
      BY <1>5
    <3> QED
      BY <1>6, <2>2, <3>2, <3>3, <3>4
  <2> QED
    BY <2>4, <2>5
<1>9. CASE h.type = "down"
  <2>1. WSFrontEndDown(f)
    BY <1>9 DEF WSFrontEnd, WSFrontEndUp, WSCounts, WSShardChosen, WSClientConnected,
                WSCookieRemoved, WSFrontEndDown, WSReads, Reads
  <2>2. assoc' = [u \in Users |-> IF assoc[u] = f THEN None ELSE assoc[u]]
    BY <2>1 DEF WSFrontEndDown
  <2>3. Unknown(f)' /\ None \notin FESs
    BY <2>2, LoginAssumption DEF Unknown
  <2>4. \A u, b : h # ClientMsg(u, b)
    BY <1>5, <1>9
  <2> HIDE DEF h
  <2> QED
    BY <1>6, <2>2, <2>3, <2>4
<1> QED
  BY <1>7, <1>8, <1>9

LEMMA KnownAlways == Spec => []KnownInv
<1>1. Init => KnownInv
  <2> SUFFICES ASSUME Init, NEW f \in FESs PROVE KnownOK(f, fesToWS[f])
    BY DEF KnownInv
  <2>1. phase[f] = "off" /\ ~sees[f] /\ fesToWS[f] = <<>> /\ \A u \in Users : assoc[u] = None
    BY DEF Init, FESInit, NetInit, WSInit
  <2> QED
    BY <2>1, LoginAssumption DEF KnownOK, Unknown
<1>2. TypeInv /\ KnownInv /\ [Next]_vars => KnownInv'
  BY KnownKept, FESMessageKnown, EraseKnown, EnterKnown, LeaveKnown, FESLaunchKnown,
     FESConnectKnown, FESCrashKnown, WSCrashKnown, WSFrontEndKnown
<1> QED
  BY <1>1, <1>2, TypeInvAlways, PTL DEF Spec

(* Whatever crashes, and whether or not cookies grow old: when nothing is  *)
(* in flight, every account that the WS knows to be on a front end, and    *)
(* would have disconnected there (cbLSDisconnectClient), plays there.      *)
THEOREM AssociatedPlayCorrect == Spec => []AssociatedPlay
<1>1. TypeInv /\ KnownInv => AssociatedPlay
  <2> SUFFICES ASSUME TypeInv, KnownInv, Quiet, NEW u \in Users, Known(u)
               PROVE  SessionsOf(assoc[u], u) # {}
    BY DEF AssociatedPlay
  <2> DEFINE f == assoc[u]
  <2>1. f \in FESs
    BY DEF TypeInv, LinkTypes, Null, Known
  <2>2. fesToWS[f] = <<>> /\ (phase[f] = "up" => sees[f]) /\ KnownOK(f, <<>>)
    BY <2>1 DEF Quiet, KnownInv
  <2>3. ~Unknown(f)
    BY DEF Unknown
  <2>4. phase[f] \in {"off", "up", "dead"} /\ sees[f] \in BOOLEAN
    BY <2>1 DEF TypeInv, FESTypes, LinkTypes
  <2>5. sees[f] /\ ArrivalsHold(f, <<>>)
    BY <2>2, <2>3, <2>4 DEF KnownOK
  <2>6. ~LeavesIn(<<>>, u, 1)
    BY DEF LeavesIn
  <2> QED
    BY <2>5, <2>6 DEF ArrivalsHold, Plays
<1> QED
  BY <1>1, TypeInvAlways, KnownAlways, PTL
=============================================================================
