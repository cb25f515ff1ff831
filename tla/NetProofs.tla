----------------------------- MODULE NetProofs -----------------------------
(***************************************************************************)
(* Proofs about NetPeers, for any set of operation sequences, any capacity *)
(* of the streams and any number of connections.                           *)
(***************************************************************************)
EXTENDS NetPeers, SumTheorems

USE NetAssumption

\* What the assumption says of the sequence in use.
LEMMA SequenceType ==
  ASSUME eops \in Sequences
  PROVE  /\ eops_sz \in Nat \ {0} /\ eops \in [Steps -> Op] /\ 0 \in Steps
         /\ \A s \in Steps : eops[s].n \in Nat \ {0} /\ eops[s].is_write \in BOOLEAN
                             /\ eops[s].sz \in Nat \ {0}
<1>1. eops_sz \in Nat \ {0} /\ eops \in [Steps -> Op]
  BY DEF eops_sz, Steps
<1>. QED
  BY <1>1 DEF Op, Steps

\* The data of a new connection, and of one after an operation.
LEMMA FreshType ==
  ASSUME eops \in Sequences
  PROVE  Fresh \in ConnData
<1>1. eops[0].n \in Nat \ {0} /\ 0 \in Steps
  BY SequenceType
<1>. QED
  BY <1>1 DEF Fresh, ConnData, Interest

LEMMA NextStepType ==
  ASSUME eops \in Sequences, NEW d \in ConnData
  PROVE  /\ NextStep(d) = IF d.step + 1 = eops_sz THEN 0 ELSE d.step + 1
         /\ NextStep(d) \in Steps
<1>1. eops_sz \in Nat \ {0} /\ d.step \in Nat /\ d.step < eops_sz
  BY SequenceType DEF ConnData, Steps
<1>2. (d.step + 1) % eops_sz = IF d.step + 1 = eops_sz THEN 0 ELSE d.step + 1
  BY <1>1
<1>. QED
  BY <1>1, <1>2 DEF NextStep, Steps

LEMMA AdvanceType ==
  ASSUME eops \in Sequences, NEW d \in ConnData
  PROVE  /\ ServerAdvance(d) \in ConnData /\ ClientAdvance(d) \in ConnData
         /\ config_wait(d) \in ConnData
         /\ config_wait(d).step = d.step /\ config_wait(d).last_epoll = Interest(d.step)
<1>1. /\ d \in [step : Steps, n : Nat, last_epoll : {"EPOLLIN", "EPOLLOUT"}, done : Nat]
      /\ d.n < eops[d.step].n
  BY DEF ConnData
<1>2. eops[d.step].n \in Nat \ {0} /\ \A s \in Steps : eops[s].n \in Nat \ {0}
  BY <1>1, SequenceType
<1>3. NextStep(d) \in Steps
  BY NextStepType
<1>4. /\ Advance(d, TRUE) \in ConnData
      /\ d.n + 1 < eops[d.step].n => Advance(d, FALSE) \in ConnData
  <2> DEFINE Data == [step : Steps, n : Nat, last_epoll : {"EPOLLIN", "EPOLLOUT"}, done : Nat]
  <2>1. /\ Advance(d, TRUE) \in Data
        /\ Advance(d, TRUE).n = 0 /\ Advance(d, TRUE).step = NextStep(d)
    BY <1>1, <1>3 DEF Advance
  <2>2. /\ Advance(d, FALSE) \in Data
        /\ Advance(d, FALSE).n = d.n + 1 /\ Advance(d, FALSE).step = d.step
    BY <1>1 DEF Advance
  <2> HIDE DEF Data
  <2>3. ConnData = {e \in Data : e.n < eops[e.step].n}
    BY DEF ConnData, Data
  <2>4. 0 < eops[NextStep(d)].n
    BY <1>2, <1>3
  <2>5. Advance(d, TRUE) \in ConnData
    BY <2>1, <2>3, <2>4
  <2>. QED
    BY <2>2, <2>3, <2>5
<1>5. ServerAdvance(d) \in ConnData
  <2>1. CASE d.n + 1 = eops[d.step].n
    <3>1. ServerAdvance(d) = Advance(d, TRUE)
      BY <2>1 DEF ServerAdvance, Advance
    <3>. QED
      BY <1>4, <3>1
  <2>2. CASE d.n + 1 # eops[d.step].n
    <3>1. ServerAdvance(d) = Advance(d, FALSE)
      BY <2>2 DEF ServerAdvance, Advance
    <3>2. d.n + 1 < eops[d.step].n
      BY <1>1, <1>2, <2>2
    <3>. QED
      BY <1>4, <3>1, <3>2
  <2>. QED
    BY <2>1, <2>2
<1>6. ClientAdvance(d) \in ConnData
  <2>1. CASE d.n + 1 >= eops[d.step].n
    <3>1. ClientAdvance(d) = Advance(d, TRUE)
      BY <2>1 DEF ClientAdvance, Advance
    <3>. QED
      BY <1>4, <3>1
  <2>2. CASE ~ (d.n + 1 >= eops[d.step].n)
    <3>1. ClientAdvance(d) = Advance(d, FALSE)
      BY <2>2 DEF ClientAdvance, Advance
    <3>2. d.n + 1 < eops[d.step].n
      BY <1>1, <1>2, <2>2
    <3>. QED
      BY <1>4, <3>1, <3>2
  <2>. QED
    BY <2>1, <2>2
<1>7. /\ config_wait(d) \in ConnData
      /\ config_wait(d).step = d.step /\ config_wait(d).last_epoll = Interest(d.step)
  BY <1>1 DEF config_wait, ConnData, Interest
<1>. QED
  BY <1>5, <1>6, <1>7

-----------------------------------------------------------------------------
(* The initial states. *)

LEMMA InitIInv == Init => IInv
<1> SUFFICES ASSUME Init PROVE IInv
  OBVIOUS
<1>1. Fresh \in ConnData
  BY FreshType DEF Init
<1>2. TypeOK
  <2>1. listening \in BOOLEAN /\ rst \in [Conns -> BOOLEAN]
    BY DEF Init
  <2>2. srv \in [Conns -> [state : {"none", "backlog", "open", "closed"}, d : ConnData]]
    BY <1>1 DEF Init
  <2>. QED
    BY <1>1, <2>1, <2>2 DEF Init, TypeOK
<1>3. EventMatchesOp /\ ClientInv
  BY DEF Init, EventMatchesOp, ClientInv
<1>. QED
  BY <1>2, <1>3 DEF IInv

-----------------------------------------------------------------------------
(* Every step preserves the invariant. *)

\* The sequence and the options do not change.
LEMMA SequenceStep ==
  ASSUME [Next]_vars
  PROVE  /\ eops' = eops /\ opt' = opt /\ ConnData' = ConnData
         /\ eops_sz' = eops_sz /\ Steps' = Steps
<1>1. eops' = eops /\ opt' = opt
  <2>1. CASE ServerStep
    BY <2>1 DEF ServerStep, Listen, AcceptConn, ServerHangup, ServerSend, ServerRecv, ClientSide
  <2>2. CASE ClientStep
    BY <2>2 DEF ClientStep, ClientConnects, ConnectRefused, ClientHangup, ClientEvent,
      ClientSend, ClientRecv, ClientWaits, ClientFails, Reconnects, GoesOn, Exits, ServerSide
  <2>3. CASE ClientKilled
    BY <2>3 DEF ClientKilled, ServerSide
  <2>. QED
    BY <2>1, <2>2, <2>3 DEF Next, vars
<1>. QED
  BY <1>1 DEF ConnData, eops_sz, Steps

\* What an operation of the server leaves behind.
LEMMA ServerAfterStep ==
  ASSUME TypeOK, EventMatchesOp, NEW k \in Conns, NEW d \in ConnData,
         NEW unread \in Int, NEW reset \in BOOLEAN, ServerAfter(k, d, unread, reset),
         eops' = eops
  PROVE  /\ srv' \in [Conns -> [state : {"none", "backlog", "open", "closed"}, d : ConnData]]
         /\ rst' \in [Conns -> BOOLEAN]
         /\ \A j \in Conns : srv'[j].state = "open" =>
                                 srv'[j].d.last_epoll = Interest(srv'[j].d.step)
<1>1. config_wait(d) \in ConnData /\ config_wait(d).last_epoll = Interest(config_wait(d).step)
  BY AdvanceType DEF TypeOK
<1>2. CASE d.step = 0
  <2>1. /\ srv' = [srv EXCEPT ![k] = [state |-> "closed", d |-> d]]
        /\ rst' = [rst EXCEPT ![k] = @ \/ reset \/ unread > 0]
    BY <1>2 DEF ServerAfter
  <2>2. rst' \in [Conns -> BOOLEAN]
    BY <2>1 DEF TypeOK
  <2>3. srv' \in [Conns -> [state : {"none", "backlog", "open", "closed"}, d : ConnData]]
    BY <2>1 DEF TypeOK
  <2>. QED
    BY <2>1, <2>2, <2>3 DEF TypeOK, EventMatchesOp
<1>3. CASE d.step # 0
  <2>1. /\ srv' = [srv EXCEPT ![k].d = config_wait(d)]
        /\ rst' = [rst EXCEPT ![k] = @ \/ reset]
    BY <1>3 DEF ServerAfter
  <2>2. rst' \in [Conns -> BOOLEAN]
    BY <2>1 DEF TypeOK
  <2>3. srv' \in [Conns -> [state : {"none", "backlog", "open", "closed"}, d : ConnData]]
    BY <1>1, <2>1, ZenonT(30) DEF TypeOK
  <2>4. /\ srv'[k].d = config_wait(d)
        /\ \A j \in Conns \ {k} : srv'[j] = srv[j]
    BY <2>1 DEF TypeOK
  <2>. QED
    BY <1>1, <2>2, <2>3, <2>4 DEF EventMatchesOp
<1>. QED
  BY <1>2, <1>3

\* Bytes on their way fit into a stream, and what is taken from one was in it.
LEMMA LeastType ==
  ASSUME NEW a \in Nat, NEW b \in Nat
  PROVE  Least(a, b) \in Nat /\ Least(a, b) <= a /\ Least(a, b) <= b
  BY DEF Least

\* A step of the server.
LEMMA ServerPreserves == IInv /\ ServerStep => IInv'
<1>1. SUFFICES ASSUME IInv, ServerStep PROVE IInv'
  OBVIOUS
<1>2. /\ eops' = eops /\ opt' = opt /\ ConnData' = ConnData
      /\ eops_sz' = eops_sz /\ Steps' = Steps
  BY <1>1, SequenceStep DEF Next
<1>3. UNCHANGED ClientSide
  BY <1>1 DEF ServerStep, Listen, AcceptConn, ServerHangup, ServerSend, ServerRecv
<1> DEFINE Matches == \A j \in Conns : srv'[j].state = "open" =>
                         srv'[j].d.last_epoll = Interest(srv'[j].d.step)
           Goal ==
             /\ listening' \in BOOLEAN
             /\ srv' \in [Conns -> [state : {"none", "backlog", "open", "closed"}, d : ConnData]]
             /\ up' \in [Conns -> 0..Capacity] /\ down' \in [Conns -> 0..Capacity]
             /\ rst' \in [Conns -> BOOLEAN]
             /\ Matches
<1>4. SUFFICES Goal
  BY <1>1, <1>2, <1>3 DEF IInv, TypeOK, EventMatchesOp, ClientInv, Interest, ClientSide
<1> USE DEF IInv, TypeOK
<1>5. CASE Listen
  <2>1. listening' \in BOOLEAN
    BY <1>5 DEF Listen
  <2>. QED
    BY <1>1, <1>5, <2>1 DEF Listen, EventMatchesOp
<1>6. ASSUME NEW k \in Conns, AcceptConn(k)
      PROVE  Goal
  <2>1. Fresh \in ConnData /\ Fresh.last_epoll = Interest(Fresh.step)
    BY <1>1, FreshType DEF Fresh
  <2>2. /\ srv'[k] = [state |-> "open", d |-> Fresh]
        /\ \A j \in Conns \ {k} : srv'[j] = srv[j]
        /\ srv' \in [Conns -> [state : {"none", "backlog", "open", "closed"}, d : ConnData]]
    BY <1>1, <1>6, <2>1 DEF AcceptConn
  <2>. QED
    BY <1>1, <1>6, <2>1, <2>2 DEF AcceptConn, EventMatchesOp
<1>7. ASSUME NEW k \in Conns, ServerHangup(k)
      PROVE  Goal
  <2>1. rst' \in [Conns -> BOOLEAN]
    BY <1>1, <1>7 DEF ServerHangup, Unregistered
  <2>2. srv' = [srv EXCEPT ![k].state = "closed"]
    BY <1>7 DEF ServerHangup, Unregistered
  <2>3. srv' \in [Conns -> [state : {"none", "backlog", "open", "closed"}, d : ConnData]]
    BY <1>1, <2>2, ZenonT(30)
  <2>4. Matches
    BY <1>1, <2>2 DEF EventMatchesOp
  <2>. QED
    BY <1>1, <1>7, <2>1, <2>3, <2>4 DEF ServerHangup
<1>8. ASSUME NEW k \in Conns, ServerSend(k)
      PROVE  Goal
  <2> DEFINE d == srv[k].d
             sz == Least(eops[d.step].sz, Capacity - down[k])
  <2>0. d \in ConnData /\ down[k] \in 0..Capacity /\ up[k] \in Int
    BY <1>1
  <2>1. d.step \in Steps /\ eops[d.step].sz \in Nat
    BY <1>1, <2>0, SequenceType DEF ConnData
  <2>2. Capacity - down[k] \in Nat
    BY <2>0
  <2>3. sz \in Nat /\ sz <= Capacity - down[k]
    BY <2>1, <2>2, LeastType
  <2>4. down' = [down EXCEPT ![k] = IF ClientGone(k) THEN @ ELSE @ + sz]
    BY <1>8 DEF ServerSend
  <2>5. down' \in [Conns -> 0..Capacity]
    <3> HIDE DEF sz
    <3>. QED
      BY <1>1, <2>0, <2>3, <2>4
  <2>6. ServerAfter(k, ServerAdvance(d), up[k], ClientGone(k))
    BY <1>8 DEF ServerSend
  <2>7. ServerAdvance(d) \in ConnData /\ ClientGone(k) \in BOOLEAN
    BY <1>1, <2>0, AdvanceType DEF ClientGone
  <2>8. /\ srv' \in [Conns -> [state : {"none", "backlog", "open", "closed"}, d : ConnData]]
        /\ rst' \in [Conns -> BOOLEAN]
        /\ Matches
    <3> HIDE DEF d
    <3>. QED
      BY <1>1, <1>2, <2>0, <2>6, <2>7, ServerAfterStep, SMTT(30)
  <2>. QED
    BY <1>1, <1>8, <2>5, <2>8 DEF ServerSend
<1>9. ASSUME NEW k \in Conns, ServerRecv(k)
      PROVE  Goal
  <2> DEFINE d == srv[k].d
             sz == Least(eops[d.step].sz, up[k])
  <2>0. d \in ConnData /\ up[k] \in 0..Capacity /\ up[k] \in Nat
    BY <1>1
  <2>1. d.step \in Steps /\ eops[d.step].sz \in Nat
    BY <1>1, <2>0, SequenceType DEF ConnData
  <2>2. sz \in Nat /\ sz <= up[k]
    BY <2>0, <2>1, LeastType
  <2>3. up' = [up EXCEPT ![k] = @ - sz]
    BY <1>9 DEF ServerRecv
  <2>4. up' \in [Conns -> 0..Capacity] /\ up[k] - sz \in Int
    <3> HIDE DEF sz
    <3>. QED
      BY <1>1, <2>0, <2>2, <2>3
  <2>5. ServerAfter(k, ServerAdvance(d), up[k] - sz, FALSE)
    BY <1>9 DEF ServerRecv
  <2>6. ServerAdvance(d) \in ConnData
    BY <1>1, <2>0, AdvanceType
  <2>7. /\ srv' \in [Conns -> [state : {"none", "backlog", "open", "closed"}, d : ConnData]]
        /\ rst' \in [Conns -> BOOLEAN]
        /\ Matches
    <3> HIDE DEF d, sz
    <3>. QED
      BY <1>1, <1>2, <2>4, <2>5, <2>6, ServerAfterStep
  <2>. QED
    BY <1>1, <1>9, <2>4, <2>7 DEF ServerRecv
<1>. QED
  BY <1>1, <1>5, <1>6, <1>7, <1>8, <1>9 DEF ServerStep

\* A step of the client.
LEMMA ClientPreserves == IInv /\ (ClientStep \/ ClientKilled) => IInv'
<1>1. SUFFICES ASSUME IInv, ClientStep \/ ClientKilled PROVE IInv'
  OBVIOUS
<1>2. /\ eops' = eops /\ opt' = opt /\ ConnData' = ConnData
      /\ eops_sz' = eops_sz /\ Steps' = Steps
  BY <1>1, SequenceStep DEF Next
<1>3. \A st : Interest(st)' = Interest(st)
  BY <1>2 DEF Interest
<1> USE DEF IInv, TypeOK, EventMatchesOp, ClientInv
<1> DEFINE SrvType == [Conns -> [state : {"none", "backlog", "open", "closed"}, d : ConnData]]
<1>4. ASSUME NEW k \in Conns, Registered(k), listening' = listening,
             UNCHANGED <<up, down, rst>>, cpc' \in {"poll", "batch"}
      PROVE  IInv'
  <2>1. Fresh \in ConnData /\ Fresh.last_epoll = Interest(Fresh.step)
    BY <1>1, FreshType DEF Fresh
  <2>2. srv' = [srv EXCEPT ![k].state = "backlog"] /\ cli' = Fresh /\ cur' = k
    BY <1>4 DEF Registered
  <2>3. srv' \in SrvType /\ \A j \in Conns : srv'[j].state = "open" => srv'[j] = srv[j]
    <3>1. srv' \in SrvType
      BY <1>1, <2>2, ZenonT(30)
    <3>2. srv'[k].state = "backlog" /\ \A j \in Conns \ {k} : srv'[j] = srv[j]
      BY <1>1, <2>2
    <3>. QED
      BY <3>1, <3>2
  <2>4. used' \in [Conns -> {"unused", "open", "closed"}]
    BY <1>1, <1>4 DEF Registered
  <2>5. TypeOK'
    BY <1>1, <1>2, <1>4, <2>1, <2>2, <2>3, <2>4
  <2>. QED
    BY <1>1, <1>2, <1>3, <1>4, <2>1, <2>2, <2>3, <2>5
<1>5. ASSUME NEW k \in Conns, ClientCloses(k), UNCHANGED <<listening, srv, up, down, cli>>,
             cpc' \in {"batch", "exited"}
      PROVE  IInv'
  <2>1. rst' \in [Conns -> BOOLEAN]
    BY <1>1, <1>5 DEF ClientCloses
  <2>2. used' \in [Conns -> {"unused", "open", "closed"}] /\ cur' = 0
    BY <1>1, <1>5 DEF ClientCloses
  <2>3. TypeOK'
    BY <1>1, <1>2, <1>5, <2>1, <2>2
  <2>. QED
    BY <1>1, <1>2, <1>3, <1>5, <2>2, <2>3
<1>6. CASE ClientConnects \/ Reconnects
  <2>1. CASE ClientConnects
    BY <1>4, <2>1 DEF ClientConnects, Unused
  <2>2. CASE Reconnects
    BY <1>4, <2>2 DEF Reconnects, Unused
  <2>. QED
    BY <1>6, <2>1, <2>2
<1>7. CASE ClientHangup \/ ClientFails \/ ClientKilled
  <2>1. cur \in Conns /\ ClientCloses(cur) /\ UNCHANGED <<listening, srv, up, down, cli>>
    BY <1>1, <1>7 DEF ClientHangup, ClientFails, ClientKilled, ServerSide
  <2>2. cpc' \in {"batch", "exited"}
    BY <1>7 DEF ClientHangup, ClientFails, ClientKilled
  <2>. QED
    BY <1>5, <2>1, <2>2
<1>8. CASE Exits
  <2>1. CASE cur # 0
    <3>1. cur \in Conns /\ ClientCloses(cur) /\ UNCHANGED <<listening, srv, up, down, cli>>
      BY <1>1, <1>8, <2>1 DEF Exits, ServerSide
    <3>. QED
      BY <1>5, <1>8, <3>1 DEF Exits
  <2>2. CASE cur = 0
    <3>1. UNCHANGED <<listening, srv, up, down, cli, used, rst, cur>> /\ cpc' = "exited"
      BY <1>8, <2>2 DEF Exits, ServerSide
    <3>. QED
      BY <1>1, <1>2, <1>3, <3>1
  <2>. QED
    BY <2>1, <2>2
<1>9. CASE ConnectRefused \/ ClientEvent \/ GoesOn
  <2>1. UNCHANGED <<listening, srv, up, down, rst, cur, cli, used>>
    BY <1>9 DEF ConnectRefused, ClientEvent, GoesOn, ServerSide
  <2>2. \/ cpc' = "exited"
        \/ cpc = "poll" /\ cpc' = "rw"
        \/ cpc = "batch" /\ cur # 0 /\ cpc' = "poll"
    BY <1>9 DEF ConnectRefused, ClientEvent, GoesOn
  <2>. QED
    BY <1>1, <1>2, <1>3, <2>1, <2>2
<1>10. CASE ClientSend \/ ClientRecv
  <2>1. cpc = "rw" /\ cur \in Conns /\ cli' = ClientAdvance(cli) /\ UNCHANGED <<listening, srv, cpc, cur, used>>
    BY <1>1, <1>10 DEF ClientSend, ClientRecv, InLoop, ServerSide
  <2>2. cli' \in ConnData
    BY <1>1, <2>1, AdvanceType
  <2>3. eops[cli.step].sz \in Nat
    BY <1>1, SequenceType DEF ConnData
  <2>4. up' \in [Conns -> 0..Capacity] /\ down' \in [Conns -> 0..Capacity] /\ rst' \in [Conns -> BOOLEAN]
    <3>1. CASE ClientSend
      <4> DEFINE sz == Least(eops[cli.step].sz, Capacity - up[cur])
      <4>1. Capacity - up[cur] \in Nat
        BY <1>1, <2>1
      <4>2. sz \in Nat /\ sz <= Capacity - up[cur]
        BY <2>3, <4>1, LeastType
      <4>3. up' = [up EXCEPT ![cur] = IF ServerGone THEN @ ELSE @ + sz] /\ down' = down
        BY <3>1 DEF ClientSend
      <4>4. rst' \in [Conns -> BOOLEAN]
        BY <1>1, <3>1 DEF ClientSend, ServerGone
      <4> HIDE DEF sz
      <4>5. up[cur] \in 0..Capacity /\ up[cur] + sz \in 0..Capacity
        BY <1>1, <2>1, <4>2
      <4>6. up' \in [Conns -> 0..Capacity]
        BY <1>1, <2>1, <4>3, <4>5
      <4>. QED
        BY <1>1, <4>3, <4>4, <4>6
    <3>2. CASE ClientRecv
      <4> DEFINE sz == Least(eops[cli.step].sz, down[cur])
      <4>1. down[cur] \in Nat
        BY <1>1, <2>1
      <4>2. sz \in Nat /\ sz <= down[cur]
        BY <2>3, <4>1, LeastType
      <4>3. down' = [down EXCEPT ![cur] = @ - sz] /\ UNCHANGED <<up, rst>>
        BY <3>2 DEF ClientRecv
      <4> HIDE DEF sz
      <4>. QED
        BY <1>1, <2>1, <4>2, <4>3, SMTT(30)
    <3>. QED
      BY <1>10, <3>1, <3>2
  <2>5. TypeOK'
    BY <1>1, <1>2, <2>1, <2>2, <2>4
  <2>. QED
    BY <1>1, <1>2, <1>3, <2>1, <2>5
<1>11. CASE ClientWaits
  <2>1. /\ cpc' = "batch" /\ cli' = config_wait(cli)
        /\ UNCHANGED <<listening, srv, up, down, rst, cur, used>>
    BY <1>11 DEF ClientWaits, AfterLoop, ServerSide
  <2>2. cli' \in ConnData /\ cli'.last_epoll = Interest(cli'.step)
    BY <1>1, <2>1, AdvanceType
  <2>3. TypeOK'
    BY <1>1, <1>2, <2>1, <2>2
  <2>. QED
    BY <1>1, <1>2, <1>3, <2>1, <2>2, <2>3
<1>. QED
  BY <1>1, <1>6, <1>7, <1>8, <1>9, <1>10, <1>11 DEF ClientStep

-----------------------------------------------------------------------------
(* Counting the operations of a connection. *)

\* The sum of the counts, step by step.
LEMMA BeforeStep ==
  ASSUME eops \in Sequences
  PROVE  /\ Before(0) = 0
         /\ \A s \in Steps : Before(s) \in Int /\ Before(s + 1) = Before(s) + eops[s].n
         /\ Before(eops_sz) = SumFunction(Counts)
<1>1. eops_sz \in Nat \ {0} /\ \A s \in Steps : Counts[s] \in Int /\ Counts[s] = eops[s].n
  BY SequenceType DEF Counts
<1>2. Before(0) = 0
  <2>1. 0..0 - 1 = {}
    OBVIOUS
  <2>. QED
    BY <2>1, SumEmpty DEF Before
<1>3. ASSUME NEW s \in Steps
      PROVE  Before(s) \in Int /\ Before(s + 1) = Before(s) + eops[s].n
  <2>1. /\ (0..s - 1) \cup {s} = 0..(s + 1) - 1 /\ s \notin 0..s - 1
        /\ 0..s - 1 \subseteq Steps
    BY <1>1 DEF Steps
  <2>2. IsFiniteSet(0..s - 1)
    BY <1>1, FS_Interval DEF Steps
  <2>3. SumFunctionOnSet(Counts, (0..s - 1) \cup {s}) = SumFunctionOnSet(Counts, 0..s - 1) + Counts[s]
    BY <1>1, <2>1, <2>2, SumAdd
  <2>4. SumFunctionOnSet(Counts, 0..s - 1) \in Int
    BY <1>1, <2>1, <2>2, SumInt
  <2>. QED
    BY <1>1, <2>1, <2>3, <2>4 DEF Before
<1>4. Before(eops_sz) = SumFunction(Counts)
  <2>1. DOMAIN Counts = 0..eops_sz - 1
    BY DEF Counts, Steps
  <2>. QED
    BY <2>1 DEF Before, SumFunction
<1>. QED
  BY <1>2, <1>3, <1>4

\* An operation of the server, when the first one is not repeated.
LEMMA AdvanceCount ==
  ASSUME eops \in Sequences, eops[0].n = 1, NEW d \in ConnData, d.done = Before(d.step) + d.n
  PROVE  LET e == ServerAdvance(d)
         IN  IF e.step = 0 THEN e.done = SumFunction(Counts)
                           ELSE e.done = Before(e.step) + e.n
<1>1. /\ d \in [step : Steps, n : Nat, last_epoll : {"EPOLLIN", "EPOLLOUT"}, done : Nat]
      /\ d.n < eops[d.step].n
  BY DEF ConnData
<1>2. eops[d.step].n \in Nat /\ Before(d.step) \in Int
  BY <1>1, SequenceType, BeforeStep
<1>3. CASE d.n + 1 = eops[d.step].n
  <2>1. /\ ServerAdvance(d).step = NextStep(d) /\ ServerAdvance(d).n = 0
        /\ ServerAdvance(d).done = d.done + 1
    BY <1>3 DEF ServerAdvance, Advance
  <2>2. d.done + 1 = Before(d.step + 1) /\ d.done + 1 = Before(d.step + 1) + 0
    <3>1. Before(d.step + 1) = Before(d.step) + eops[d.step].n
      BY <1>1, BeforeStep
    <3>. QED
      BY <1>1, <1>2, <1>3, <3>1
  <2>3. NextStep(d) = IF d.step + 1 = eops_sz THEN 0 ELSE d.step + 1
    BY NextStepType
  <2>4. d.step + 1 # 0
    BY <1>1 DEF Steps
  <2>. QED
    BY <2>1, <2>2, <2>3, <2>4, BeforeStep
<1>4. CASE d.n + 1 # eops[d.step].n
  <2>1. /\ ServerAdvance(d).step = d.step /\ ServerAdvance(d).n = d.n + 1
        /\ ServerAdvance(d).done = d.done + 1
    BY <1>4 DEF ServerAdvance, Advance
  <2>2. d.step # 0
    BY <1>1, <1>4
  <2>. QED
    BY <1>1, <1>2, <2>1, <2>2
<1>. QED
  BY <1>3, <1>4

\* An operation of the server on connection k.
LEMMA ServerOperation ==
  ASSUME IInv, NEW k \in Conns, ServerSend(k) \/ ServerRecv(k)
  PROVE  LET e == ServerAdvance(srv[k].d)
         IN  /\ srv[k].state = "open"
             /\ IF e.step = 0 THEN srv'[k].state = "closed" /\ srv'[k].d = e
                              ELSE /\ srv'[k].state = "open" /\ srv'[k].d.step = e.step
                                   /\ srv'[k].d.n = e.n /\ srv'[k].d.done = e.done
             /\ \A j \in Conns \ {k} : srv'[j] = srv[j]
<1> DEFINE e == ServerAdvance(srv[k].d)
<1>1. e \in ConnData
  BY AdvanceType DEF IInv, TypeOK
<1>2. /\ config_wait(e).step = e.step /\ config_wait(e).n = e.n
      /\ config_wait(e).done = e.done
  <2> HIDE DEF e
  <2>. QED
    BY <1>1 DEF config_wait, ConnData
<1>3. \E unread, reset : ServerAfter(k, e, unread, reset)
  BY DEF ServerSend, ServerRecv
<1>4. srv[k].state = "open"
  BY DEF ServerSend, ServerRecv
<1>5. IF e.step = 0 THEN srv' = [srv EXCEPT ![k] = [state |-> "closed", d |-> e]]
                    ELSE srv' = [srv EXCEPT ![k].d = config_wait(e)]
  BY <1>3 DEF ServerAfter
<1> HIDE DEF e
<1>6. CASE e.step = 0
  BY <1>4, <1>5, <1>6 DEF e, IInv, TypeOK
<1>7. CASE e.step # 0
  <2>1. srv'[k].d = config_wait(e) /\ srv'[k].state = "open" /\ \A j \in Conns \ {k} : srv'[j] = srv[j]
    BY <1>4, <1>5, <1>7 DEF IInv, TypeOK
  <2>. QED
    BY <1>2, <1>4, <1>7, <2>1 DEF e
<1>. QED
  BY <1>6, <1>7

\* Every other step leaves an open connection alone, opens a fresh one, or closes
\* one that has been reset.
LEMMA NoOperation ==
  ASSUME IInv, [Next]_vars, NEW k \in Conns, ~ ServerSend(k), ~ ServerRecv(k)
  PROVE  /\ srv'[k].state = "open" => srv'[k] = srv[k] \/ srv'[k].d = Fresh
         /\ srv[k].state = "open" /\ srv'[k].state = "closed" => rst[k]
<1> DEFINE Goal == /\ srv'[k].state = "open" => srv'[k] = srv[k] \/ srv'[k].d = Fresh
                   /\ srv[k].state = "open" /\ srv'[k].state = "closed" => rst[k]
<1> SUFFICES Goal
  OBVIOUS
<1>1. CASE UNCHANGED srv
  BY <1>1
<1>2. CASE \E j \in Conns : AcceptConn(j)
  BY <1>2 DEF AcceptConn, IInv, TypeOK
<1>3. CASE \E j \in Conns : ServerHangup(j)
  BY <1>3 DEF ServerHangup, Unregistered, IInv, TypeOK
<1>4. CASE \E j \in Conns : ServerSend(j) \/ ServerRecv(j)
  <2>1. PICK j \in Conns : ServerSend(j) \/ ServerRecv(j)
    BY <1>4
  <2>2. k # j
    BY <2>1
  <2>3. srv'[k] = srv[k]
    BY <2>1, <2>2, ServerOperation
  <2>. QED
    BY <2>3
<1>5. CASE \E j \in Conns : Registered(j)
  BY <1>5 DEF Registered, IInv, TypeOK
<1>6. CASE ServerStep
  BY <1>1, <1>2, <1>3, <1>4, <1>6 DEF ServerStep, Listen
<1>7. CASE ClientStep \/ ClientKilled
  <2>1. UNCHANGED srv \/ \E j \in Conns : Registered(j)
    BY <1>7 DEF ClientStep, ClientKilled, ClientConnects, ConnectRefused, ClientHangup,
      ClientEvent, ClientSend, ClientRecv, ClientWaits, ClientFails, Reconnects, GoesOn,
      Exits, ServerSide, Unused
  <2>. QED
    BY <1>1, <1>5, <2>1
<1>. QED
  BY <1>1, <1>6, <1>7 DEF Next, vars

\* The count of operations follows the step.
LEMMA CountStep ==
  ASSUME IInv, CountInv, [Next]_vars
  PROVE  CountInv'
<1>1. eops' = eops /\ Steps' = Steps /\ eops \in Sequences
  BY SequenceStep DEF IInv, TypeOK
<1>2. SUFFICES ASSUME eops[0].n = 1, NEW k \in Conns, srv'[k].state = "open"
               PROVE  srv'[k].d.done = Before(srv'[k].d.step) + srv'[k].d.n
  BY <1>1 DEF CountInv, Before, Counts
<1>3. CASE ServerSend(k) \/ ServerRecv(k)
  <2> DEFINE e == ServerAdvance(srv[k].d)
  <2>1. /\ srv[k].state = "open" /\ e.step # 0 /\ srv'[k].d.step = e.step
        /\ srv'[k].d.n = e.n /\ srv'[k].d.done = e.done
    BY <1>2, <1>3, ServerOperation
  <2>2. srv[k].d \in ConnData /\ srv[k].d.done = Before(srv[k].d.step) + srv[k].d.n
    BY <1>2, <2>1 DEF IInv, TypeOK, CountInv
  <2>3. e.done = Before(e.step) + e.n
    BY <1>1, <1>2, <2>1, <2>2, AdvanceCount
  <2>. QED
    BY <2>1, <2>3
<1>4. CASE srv'[k].d = Fresh
  <2>1. srv'[k].d.step = 0 /\ srv'[k].d.n = 0 /\ srv'[k].d.done = 0
    BY <1>4 DEF Fresh
  <2>. QED
    BY <1>1, <2>1, BeforeStep
<1>5. CASE srv'[k] = srv[k]
  BY <1>2, <1>5 DEF CountInv
<1>. QED
  BY <1>2, <1>3, <1>4, <1>5, NoOperation

-----------------------------------------------------------------------------
(* The theorems. *)

\* The invariant holds in every reachable state.
THEOREM NetInvariant == Spec => []IInv
<1>1. IInv /\ [Next]_vars => IInv'
  <2>1. SUFFICES ASSUME IInv, UNCHANGED vars PROVE IInv'
    BY ServerPreserves, ClientPreserves DEF Next
  <2>. QED
    BY <2>1 DEF IInv, TypeOK, EventMatchesOp, ClientInv, Interest, ConnData, Steps, eops_sz, vars
<1>. QED
  BY InitIInv, <1>1, PTL DEF Spec

\* Type correctness: an operation is never repeated more often than its count, and
\* no stream holds more than its capacity (advance_step of both programs).
THEOREM NetTypeCorrect == Spec => []TypeOK
<1>1. IInv => TypeOK
  BY DEF IInv
<1>. QED
  BY <1>1, NetInvariant, PTL

\* The assertions of both readwrite functions never fail, whatever the sequence
\* and however transfers are cut, peers disappear and clients reconnect.
THEOREM AssertionsHold == Spec => []EventMatchesOp
<1>1. IInv => EventMatchesOp
  BY DEF IInv
<1>. QED
  BY <1>1, NetInvariant, PTL

\* The server performs the whole sequence on every connection that is not reset,
\* for every set of sequences that begin with an unrepeated operation: the end of
\* the sequence is recognised by the step alone (readwrite in server.c).
THEOREM SequenceCompleted ==
  ASSUME \A seq \in Sequences : seq[0].n = 1
  PROVE  Spec => WholeSequence
<1>1. Init => CountInv
  <2> SUFFICES ASSUME Init PROVE CountInv
    OBVIOUS
  <2>. QED
    BY DEF Init, CountInv
<1>2. IInv /\ CountInv /\ [Next]_vars =>
        [\A k \in Conns :
            srv[k].state = "open" /\ srv'[k].state = "closed" /\ ~ rst[k]
              => srv'[k].d.done = SumFunction(Counts)]_vars
  <2> SUFFICES ASSUME IInv, CountInv, [Next]_vars, NEW k \in Conns, srv[k].state = "open",
                      srv'[k].state = "closed", ~ rst[k]
               PROVE  srv'[k].d.done = SumFunction(Counts)
    OBVIOUS
  <2> DEFINE e == ServerAdvance(srv[k].d)
  <2>1. ServerSend(k) \/ ServerRecv(k)
    BY NoOperation
  <2>2. e.step = 0 /\ srv'[k].d = e
    BY <2>1, ServerOperation
  <2>3. eops \in Sequences /\ eops[0].n = 1
    BY DEF IInv, TypeOK
  <2>4. srv[k].d \in ConnData /\ srv[k].d.done = Before(srv[k].d.step) + srv[k].d.n
    BY <2>3 DEF IInv, TypeOK, CountInv
  <2>5. e.done = SumFunction(Counts)
    BY <2>2, <2>3, <2>4, AdvanceCount
  <2>. QED
    BY <2>2, <2>5
<1>3. IInv /\ CountInv /\ [Next]_vars => CountInv'
  BY CountStep
<1>. QED
  BY <1>1, <1>2, <1>3, NetInvariant, PTL DEF Spec, WholeSequence

\* With any sequence that begins with a repeated operation the server closes every
\* connection that is not reset after a single call, because step == 0 also holds
\* while the first operation is repeated (readwrite in server.c).  The example of
\* the usage text, '2r1023-1w32', is such a sequence.
THEOREM SequenceCutShort ==
  ASSUME \A seq \in Sequences : seq[0].n > 1
  PROVE  Spec => [][\A k \in Conns :
                      srv[k].state = "open" /\ srv'[k].state = "closed" /\ ~ rst[k]
                        => srv'[k].d.done = 1]_vars
<1> DEFINE AtStart == \A k \in Conns : srv[k].state = "open" =>
                         srv[k].d.step = 0 /\ srv[k].d.n = 0 /\ srv[k].d.done = 0
<1>1. Init => AtStart
  BY DEF Init
<1>2. ASSUME IInv, AtStart, [Next]_vars, NEW k \in Conns, ServerSend(k) \/ ServerRecv(k)
      PROVE  srv'[k].state = "closed" /\ srv'[k].d.done = 1
  <2> DEFINE d == srv[k].d
  <2>1. d \in ConnData /\ d.step = 0 /\ d.n = 0 /\ d.done = 0
    BY <1>2, ServerOperation DEF IInv, TypeOK
  <2>2. d.n + 1 # eops[d.step].n
    BY <1>2, <2>1 DEF IInv, TypeOK
  <2>3. ServerAdvance(d).step = 0 /\ ServerAdvance(d).done = 1
    BY <2>1, <2>2 DEF ServerAdvance, Advance
  <2>. QED
    BY <1>2, <2>3, ServerOperation
<1>3. IInv /\ AtStart /\ [Next]_vars => AtStart'
  <2> SUFFICES ASSUME IInv, AtStart, [Next]_vars, NEW k \in Conns, srv'[k].state = "open"
               PROVE  srv'[k].d.step = 0 /\ srv'[k].d.n = 0 /\ srv'[k].d.done = 0
    OBVIOUS
  <2>1. srv'[k] = srv[k] \/ srv'[k].d = Fresh
    BY <1>2, NoOperation
  <2>. QED
    BY <2>1 DEF Fresh
<1>4. IInv /\ AtStart /\ [Next]_vars =>
        [\A k \in Conns :
            srv[k].state = "open" /\ srv'[k].state = "closed" /\ ~ rst[k]
              => srv'[k].d.done = 1]_vars
  BY <1>2, NoOperation
<1>. QED
  BY <1>1, <1>3, <1>4, NetInvariant, PTL DEF Spec
=============================================================================
