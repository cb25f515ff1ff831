---------------------------- MODULE RedisProofs ----------------------------
(***************************************************************************)
(* Proofs about RedisTarget, for any number of threads, clients and        *)
(* descriptors and any length of the event array.                          *)
(***************************************************************************)
EXTENDS RedisTarget, SumTheorems

USE RedisAssumption

-----------------------------------------------------------------------------
(* Sets of descriptors. *)

\* A set of descriptors is finite, and handling an event makes it smaller.
LEMMA EventsFinite ==
  ASSUME NEW E \in SUBSET ({g_socket} \cup Fds)
  PROVE  /\ IsFiniteSet(E) /\ Cardinality(E) \in Nat
         /\ \A f \in E : Cardinality(E \ {f}) = Cardinality(E) - 1
<1>1. IsFiniteSet({g_socket} \cup Fds)
  <2>1. IsFiniteSet(Fds)
    BY FS_Interval DEF Fds
  <2>. QED
    BY <2>1, FS_Singleton, FS_Union
<1>2. IsFiniteSet(E)
  BY <1>1, FS_Subset
<1>. QED
  BY <1>2, FS_CardinalityType, FS_RemoveElement

\* The lowest of some free descriptors is one of them.
LEMMA LowestFree ==
  ASSUME FreeFds # {}
  PROVE  Min(FreeFds) \in FreeFds
<1>1. FreeFds \subseteq Nat
  BY DEF FreeFds, Fds
<1>2. \E m \in FreeFds : \A k \in FreeFds : m <= k
  BY <1>1, LeastNumber
<1>. QED
  BY <1>2 DEF Min

\* epoll_wait reports at most MAX_EVENTS descriptors.
LEMMA NumEventsBound == NumEvents <= MAX_EVENTS
<1>1. Cardinality(Ready) \in Nat
  BY EventsFinite DEF Ready
<1>2. \E m \in {MAX_EVENTS, Cardinality(Ready)} : \A k \in {MAX_EVENTS, Cardinality(Ready)} : m <= k
  BY <1>1
<1>3. \A k \in {MAX_EVENTS, Cardinality(Ready)} : NumEvents <= k
  BY <1>2 DEF NumEvents, Min
<1>. QED
  BY <1>3

-----------------------------------------------------------------------------
(* The initial states. *)

LEMMA InitIInv == Init => IInv
<1> SUFFICES ASSUME Init PROVE IInv
  OBVIOUS
<1>1. TypeOK
  BY DEF Init, TypeOK, NoResult
<1>2. OwnerInv
  BY DEF Init, OwnerInv
<1>3. ResultInv
  BY FS_EmptySet DEF Init, ResultInv, NoResult, Pending
<1>. QED
  BY <1>1, <1>2, <1>3 DEF IInv

-----------------------------------------------------------------------------
(* Every step preserves the invariant. *)

\* The steps of the clients.
LEMMA ClientPreserves ==
  ASSUME IInv, NEW c \in Clients, ClientStep(c), UNCHANGED workers
  PROVE  IInv'
<1> USE DEF IInv
<1>1. UNCHANGED <<owner, reads, replied, threadVars>>
  BY DEF ClientStep, Connect, SendCommand, HangUp
<1>2. TypeOK'
  <2>1. conn' \in [Clients -> {"idle", "backlog", "open", "closed"}] /\ hungup' \in [Clients -> BOOLEAN]
    BY DEF ClientStep, Connect, SendCommand, HangUp, TypeOK
  <2>2. sent' \in [Clients -> 0..MaxCommands] /\ unread' \in [Clients -> 0..MaxCommands]
    <3>1. CASE SendCommand(c)
      <4>1. sent[c] + 1 \in 0..MaxCommands /\ unread[c] + 1 \in 0..MaxCommands
        BY <3>1 DEF SendCommand, TypeOK, OwnerInv
      <4>. QED
        BY <3>1, <4>1 DEF SendCommand, TypeOK
    <3>. QED
      BY <3>1 DEF ClientStep, Connect, HangUp, TypeOK
  <2>. QED
    BY <1>1, <2>1, <2>2 DEF TypeOK, threadVars
<1>3. OwnerInv'
  <2>1. \A f \in Fds : owner[f] # None => conn'[owner[f]] = "open"
    BY DEF ClientStep, Connect, SendCommand, HangUp, TypeOK, OwnerInv
  <2>2. \A d \in Clients : unread'[d] <= sent'[d]
    BY DEF ClientStep, Connect, SendCommand, HangUp, TypeOK, OwnerInv
  <2>. QED
    BY <1>1, <2>1, <2>2 DEF OwnerInv
<1>4. ResultInv'
  BY <1>1 DEF ResultInv, Pending, threadVars
<1>. QED
  BY <1>2, <1>3, <1>4

\* The results of the threads: what thread t has left to count becomes less by as
\* much as it counts.
LEMMA ResultPreserves ==
  ASSUME IInv, NEW t \in Threads, ThreadStep(t)
  PROVE  /\ ResultInv'
         /\ events' \in [Threads -> SUBSET ({g_socket} \cup Fds)]
         /\ fd' \in [Threads -> {g_socket} \cup Fds]
         /\ result' \in [Threads -> [op_count : 0..2*MAX_EVENTS, succ_count : 0..2*MAX_EVENTS]]
         /\ \A u \in Threads \ {t} : result'[u] = result[u]
<1> USE DEF IInv, TypeOK
<1> DEFINE Kept ==
             /\ ResultInv'
             /\ events' \in [Threads -> SUBSET ({g_socket} \cup Fds)]
             /\ fd' \in [Threads -> {g_socket} \cup Fds]
             /\ result' \in [Threads -> [op_count : 0..2*MAX_EVENTS, succ_count : 0..2*MAX_EVENTS]]
             /\ \A u \in Threads \ {t} : result'[u] = result[u]
           Fits(r, E, p) == /\ r.op_count \in Nat /\ r.succ_count \in Nat
                            /\ r.succ_count <= r.op_count
                            /\ r.op_count + 2 * Cardinality(E) + p <= 2 * MAX_EVENTS
<1> SUFFICES Kept
  OBVIOUS
<1>1. /\ events[t] \in SUBSET ({g_socket} \cup Fds) /\ Cardinality(events[t]) \in Nat
      /\ \A f \in events[t] : Cardinality(events[t] \ {f}) = Cardinality(events[t]) - 1
  BY EventsFinite
<1>2. Fits(result[t], events[t], Pending(t))
  BY DEF ResultInv
<1>3. ASSUME NEW r \in [op_count : Int, succ_count : Int],
             NEW E \in SUBSET ({g_socket} \cup Fds), NEW f \in {g_socket} \cup Fds,
             Fits(r, E, IF f # g_socket THEN 1 ELSE 0),
             result' = [result EXCEPT ![t] = r], events' = [events EXCEPT ![t] = E],
             fd' = [fd EXCEPT ![t] = f]
      PROVE  Kept
  <2>1. Cardinality(E) \in Nat
    BY EventsFinite
  <2>2. r \in [op_count : 0..2*MAX_EVENTS, succ_count : 0..2*MAX_EVENTS]
    <3>1. r.op_count \in 0..2*MAX_EVENTS /\ r.succ_count \in 0..2*MAX_EVENTS
      BY <1>3, <2>1
    <3>. QED
      BY <3>1
  <2>3. /\ result'[t] = r /\ events'[t] = E /\ fd'[t] = f
        /\ \A u \in Threads \ {t} : result'[u] = result[u] /\ events'[u] = events[u] /\ fd'[u] = fd[u]
    BY <1>3
  <2>4. ResultInv'
    BY <1>3, <2>3 DEF ResultInv, Pending
  <2>5. result' \in [Threads -> [op_count : 0..2*MAX_EVENTS, succ_count : 0..2*MAX_EVENTS]]
    BY <1>3, <2>2
  <2>6. /\ events' \in [Threads -> SUBSET ({g_socket} \cup Fds)]
        /\ fd' \in [Threads -> {g_socket} \cup Fds]
    BY <1>3
  <2>. QED
    BY <2>3, <2>4, <2>5, <2>6
<1>4. CASE EpollWait(t)
  <2>1. PICK E \in SUBSET Ready : Cardinality(E) = NumEvents /\ events' = [events EXCEPT ![t] = E]
    BY <1>4 DEF EpollWait
  <2>2. E \in SUBSET ({g_socket} \cup Fds) /\ Cardinality(E) \in Nat
    BY EventsFinite DEF Ready
  <2>3. Cardinality(E) <= MAX_EVENTS
    BY <2>1, NumEventsBound
  <2>4. fd[t] = g_socket /\ fd' = [fd EXCEPT ![t] = g_socket]
    BY <1>4 DEF EpollWait, AtWait
  <2>5. result' = [result EXCEPT ![t] = NoResult] /\ NoResult \in [op_count : Int, succ_count : Int]
    BY <1>4 DEF EpollWait, FreshResult, NoResult
  <2>6. Fits(NoResult, E, IF g_socket # g_socket THEN 1 ELSE 0)
    BY <2>2, <2>3 DEF NoResult
  <2>. QED
    BY <1>3, <2>1, <2>2, <2>4, <2>5, <2>6
<1>5. ASSUME NEW f \in events[t], Handled(t, f), fd[t] = g_socket, fd' = fd,
             NEW n \in {0, 1}, result' = [result EXCEPT ![t] = Add(result[t], 1, n)]
      PROVE  Kept
  <2> DEFINE r == Add(result[t], 1, n)
             E == events[t] \ {f}
  <2>1. /\ r.op_count = result[t].op_count + 1 /\ r.succ_count = result[t].succ_count + n
        /\ r \in [op_count : Int, succ_count : Int]
    BY DEF Add
  <2>2. Cardinality(E) = Cardinality(events[t]) - 1
    BY <1>1, <1>5
  <2>3. Pending(t) = 0
    BY <1>5 DEF Pending
  <2>4. Fits(r, E, IF g_socket # g_socket THEN 1 ELSE 0)
    <3> HIDE DEF r, E
    <3>. QED
      BY <1>1, <1>2, <2>1, <2>2, <2>3
  <2>5. events' = [events EXCEPT ![t] = E] /\ fd' = [fd EXCEPT ![t] = g_socket]
    BY <1>5 DEF Handled
  <2>6. E \in SUBSET ({g_socket} \cup Fds) /\ g_socket \in {g_socket} \cup Fds
    BY <1>1
  <2> HIDE DEF r, E
  <2>7. result' = [result EXCEPT ![t] = r]
    BY <1>5 DEF r
  <2>. QED
    BY <1>3, <2>1, <2>4, <2>5, <2>6, <2>7
<1>6. CASE Accept(t)
  <2>1. g_socket \in events[t] /\ Handled(t, g_socket) /\ fd[t] = g_socket /\ fd' = fd
    BY <1>6 DEF Accept, HandlesEvent
  <2>2. \E n \in {0, 1} : result' = [result EXCEPT ![t] = Add(result[t], 1, n)]
    BY <1>6 DEF Accept
  <2>. QED
    BY <1>5, <2>1, <2>2
<1>7. ASSUME NEW f \in Fds, CloseAtRead(t, f)
      PROVE  Kept
  <2>1. f \in events[t] /\ Handled(t, f) /\ fd[t] = g_socket /\ fd' = fd
    BY <1>7 DEF CloseAtRead, HandlesEvent
  <2>2. result' = [result EXCEPT ![t] = Add(result[t], 1, 0)]
    BY <1>7 DEF CloseAtRead
  <2>. QED
    BY <1>5, <2>1, <2>2
<1>8. ASSUME NEW f \in Fds, Read(t, f)
      PROVE  Kept
  <2> DEFINE r == Add(result[t], 1, 1)
             E == events[t] \ {f}
  <2>1. /\ r.op_count = result[t].op_count + 1 /\ r.succ_count = result[t].succ_count + 1
        /\ r \in [op_count : Int, succ_count : Int]
    BY DEF Add
  <2>2. f \in events[t] /\ fd[t] = g_socket
    BY <1>8 DEF Read, HandlesEvent
  <2>3. Cardinality(E) = Cardinality(events[t]) - 1 /\ Pending(t) = 0
    BY <1>1, <2>2 DEF Pending
  <2>4. (IF f # g_socket THEN 1 ELSE 0) = 1
    BY DEF Fds, g_socket
  <2>5. Fits(r, E, 1)
    <3> HIDE DEF r, E
    <3>. QED
      BY <1>1, <1>2, <2>1, <2>3
  <2>6. events' = [events EXCEPT ![t] = E] /\ fd' = [fd EXCEPT ![t] = f] /\ result' = [result EXCEPT ![t] = r]
    BY <1>8 DEF Read, Handled
  <2>7. E \in SUBSET ({g_socket} \cup Fds)
    BY <1>1
  <2> HIDE DEF r, E
  <2>. QED
    BY <1>3, <2>1, <2>4, <2>5, <2>6, <2>7
<1>9. CASE Respond(t)
  <2> DEFINE n == WriteCounts(owner[fd[t]] # None)
             r == Add(result[t], n, n)
  <2>1. n \in {0, 1}
    BY DEF WriteCounts
  <2>2. /\ r.op_count = result[t].op_count + n /\ r.succ_count = result[t].succ_count + n
        /\ r \in [op_count : Int, succ_count : Int]
    <3> HIDE DEF n
    <3>. QED
      BY <2>1 DEF Add
  <2>3. Pending(t) = 1
    BY <1>9 DEF Respond, Pending
  <2>4. Fits(r, events[t], IF g_socket # g_socket THEN 1 ELSE 0)
    <3> HIDE DEF n, r
    <3>. QED
      BY <1>1, <1>2, <2>1, <2>2, <2>3
  <2>5. events' = [events EXCEPT ![t] = events[t]] /\ fd' = [fd EXCEPT ![t] = g_socket]
    BY <1>9 DEF Respond
  <2>6. result' = [result EXCEPT ![t] = r]
    BY <1>9 DEF Respond
  <2> HIDE DEF n, r
  <2>. QED
    BY <1>1, <1>3, <2>2, <2>4, <2>5, <2>6
<1>. QED
  BY <1>4, <1>6, <1>7, <1>8, <1>9 DEF ThreadStep

\* What accepting does: a client leaves the backlog for a free descriptor, or only
\* the attempt is counted.
LEMMA AcceptEffect ==
  ASSUME NEW t \in Threads, Accept(t)
  PROVE  \/ \E f \in FreeFds, c \in Backlog :
               /\ owner' = [owner EXCEPT ![f] = c] /\ conn' = [conn EXCEPT ![c] = "open"]
               /\ result' = [result EXCEPT ![t] = Add(result[t], 1, 1)]
         \/ /\ UNCHANGED <<owner, conn>>
            /\ result' = [result EXCEPT ![t] = Add(result[t], 1, 0)]
<1>1. FreeFds # {} => Min(FreeFds) \in FreeFds
  BY LowestFree
<1>. QED
  BY <1>1 DEF Accept

\* The steps of the threads.
LEMMA ThreadPreserves ==
  ASSUME IInv, NEW t \in Threads, ThreadStep(t), UNCHANGED workers
  PROVE  IInv'
<1> USE DEF IInv
<1>1. /\ ResultInv'
      /\ events' \in [Threads -> SUBSET ({g_socket} \cup Fds)]
      /\ fd' \in [Threads -> {g_socket} \cup Fds]
      /\ result' \in [Threads -> [op_count : 0..2*MAX_EVENTS, succ_count : 0..2*MAX_EVENTS]]
  BY ResultPreserves
<1>2. UNCHANGED <<hungup, sent>>
  BY DEF ThreadStep, EpollWait, Accept, Respond, Read, CloseAtRead, clientVars
<1>3. /\ reads' \in [Clients -> Nat] /\ replied' \in [Clients -> Nat] /\ counted' \in Nat
      /\ unread' \in [Clients -> 0..MaxCommands] /\ \A c \in Clients : unread'[c] <= sent[c]
  <2>1. CASE EpollWait(t)
    BY <2>1 DEF EpollWait, clientVars, TypeOK, OwnerInv
  <2>2. CASE Accept(t)
    BY <2>2 DEF Accept, TypeOK, OwnerInv
  <2>3. CASE Respond(t)
    BY <2>3 DEF Respond, TypeOK, OwnerInv
  <2>4. CASE \E f \in Fds : Read(t, f)
    <3>1. PICK f \in Fds : Read(t, f)
      BY <2>4
    <3>2. owner[f] \in Clients
      BY <3>1 DEF Read, HasRequest, TypeOK
    <3>. QED
      BY <3>1, <3>2 DEF Read, TypeOK, OwnerInv
  <2>5. CASE \E f \in Fds : CloseAtRead(t, f)
    BY <2>5 DEF CloseAtRead, TypeOK, OwnerInv
  <2>. QED
    BY <2>1, <2>2, <2>3, <2>4, <2>5 DEF ThreadStep
<1>4. /\ owner' \in [Fds -> Clients \cup {None}]
      /\ conn' \in [Clients -> {"idle", "backlog", "open", "closed"}]
      /\ \A f \in Fds : owner'[f] # None => conn'[owner'[f]] = "open"
      /\ \A f, g \in Fds : owner'[f] # None /\ owner'[f] = owner'[g] => f = g
  <2>1. CASE UNCHANGED <<owner, conn>>
    BY <2>1 DEF TypeOK, OwnerInv
  <2>2. CASE Accept(t) /\ ~ UNCHANGED <<owner, conn>>
    <3>1. PICK f \in FreeFds, c \in Backlog :
             owner' = [owner EXCEPT ![f] = c] /\ conn' = [conn EXCEPT ![c] = "open"]
      BY <2>2, AcceptEffect
    <3>2. f \in Fds /\ owner[f] = None /\ c \in Clients /\ conn[c] = "backlog"
      BY DEF FreeFds, Backlog
    <3>3. \A g \in Fds : owner[g] # c
      BY <3>2 DEF OwnerInv
    <3>4. /\ owner'[f] = c /\ conn'[c] = "open"
          /\ \A g \in Fds \ {f} : owner'[g] = owner[g]
          /\ \A d \in Clients \ {c} : conn'[d] = conn[d]
      BY <3>1, <3>2 DEF TypeOK
    <3>5. /\ owner' \in [Fds -> Clients \cup {None}]
          /\ conn' \in [Clients -> {"idle", "backlog", "open", "closed"}]
      BY <3>1, <3>2 DEF TypeOK
    <3>6. \A g \in Fds : owner'[g] # None => conn'[owner'[g]] = "open"
      BY <3>2, <3>3, <3>4 DEF TypeOK, OwnerInv
    <3>. QED
      BY <3>2, <3>3, <3>4, <3>5, <3>6 DEF OwnerInv
  <2>3. CASE \E f \in Fds : CloseAtRead(t, f)
    <3>1. PICK f \in Fds : CloseAtRead(t, f)
      BY <2>3
    <3>2. /\ owner' = [owner EXCEPT ![f] = None]
          /\ conn' = [c \in Clients |-> IF c = owner[f] THEN "closed" ELSE conn[c]]
      BY <3>1 DEF CloseAtRead
    <3>3. /\ owner' \in [Fds -> Clients \cup {None}]
          /\ conn' \in [Clients -> {"idle", "backlog", "open", "closed"}]
      BY <3>2 DEF TypeOK
    <3>4. owner'[f] = None /\ \A g \in Fds \ {f} : owner'[g] = owner[g]
      BY <3>2 DEF TypeOK
    <3>5. \A g \in Fds : owner'[g] # None => conn'[owner'[g]] = "open"
      BY <3>2, <3>4 DEF TypeOK, OwnerInv
    <3>. QED
      BY <3>3, <3>4, <3>5 DEF OwnerInv
  <2>. QED
    BY <2>1, <2>2, <2>3 DEF ThreadStep, EpollWait, Respond, Read, clientVars
<1>5. TypeOK'
  BY <1>1, <1>2, <1>3, <1>4 DEF TypeOK
<1>6. OwnerInv'
  BY <1>2, <1>3, <1>4 DEF OwnerInv
<1>. QED
  BY <1>1, <1>5, <1>6

LEMMA IInvStep ==
  ASSUME IInv, [Next]_vars
  PROVE  IInv'
<1>1. CASE UNCHANGED vars
  BY <1>1 DEF vars, IInv, TypeOK, OwnerInv, ResultInv, Pending
<1>2. ASSUME NEW t \in workers, ThreadStep(t), UNCHANGED workers
      PROVE  IInv'
  BY <1>2, ThreadPreserves DEF IInv, TypeOK
<1>3. ASSUME NEW c \in Clients, ClientStep(c), UNCHANGED workers
      PROVE  IInv'
  BY <1>3, ClientPreserves
<1>. QED
  BY <1>1, <1>2, <1>3 DEF Next

-----------------------------------------------------------------------------
(* The successes. *)

\* The sums of SuccessesAreReal are numbers.
LEMMA SumsInt ==
  ASSUME TypeOK
  PROVE  /\ SumFunction([u \in Threads |-> result[u].succ_count]) \in Int
         /\ SumFunction([d \in Clients |-> reads[d] + replied[d]]) \in Int
<1>1. \A u \in Threads : [v \in Threads |-> result[v].succ_count][u] \in Int
  BY DEF TypeOK
<1>2. \A d \in Clients : [e \in Clients |-> reads[e] + replied[e]][d] \in Int
  BY DEF TypeOK
<1>. QED
  BY <1>1, <1>2, SumInt DEF SumFunction

\* The sums of SuccessesAreReal, when one thread's result or one client's counts
\* change.
LEMMA ResultSum ==
  ASSUME TypeOK, TypeOK', NEW t \in Threads, \A u \in Threads \ {t} : result'[u] = result[u]
  PROVE  /\ SumFunction([u \in Threads |-> result[u].succ_count]) \in Int
         /\ SumFunction([u \in Threads |-> result'[u].succ_count]) =
              SumFunction([u \in Threads |-> result[u].succ_count])
                + (result'[t].succ_count - result[t].succ_count)
<1> DEFINE f1 == [u \in Threads |-> result[u].succ_count]
           f2 == [u \in Threads |-> result'[u].succ_count]
<1>1. \A u \in Threads : f1[u] \in Int /\ f2[u] \in Int
  BY DEF TypeOK
<1>2. f1[t] = result[t].succ_count /\ f2[t] = result'[t].succ_count
  OBVIOUS
<1>3. \A u \in Threads \ {t} : f1[u] = f2[u]
  OBVIOUS
<1>4. SumFunction(f1) = SumFunctionOnSet(f1, Threads) /\ SumFunction(f2) = SumFunctionOnSet(f2, Threads)
  BY DEF SumFunction
<1> HIDE DEF f1, f2
<1>5. SumFunctionOnSet(f2, Threads) = SumFunctionOnSet(f1, Threads) + (f2[t] - f1[t])
  BY <1>1, <1>3, SumChange
<1>6. SumFunctionOnSet(f1, Threads) \in Int
  BY <1>1, SumInt
<1>7. SumFunction(f1) \in Int /\ SumFunction(f2) = SumFunction(f1) + (result'[t].succ_count - result[t].succ_count)
  BY <1>2, <1>4, <1>5, <1>6
<1>. QED
  BY <1>7 DEF f1, f2

LEMMA ServedSum ==
  ASSUME TypeOK, TypeOK', NEW c \in Clients,
         \A d \in Clients \ {c} : reads'[d] = reads[d] /\ replied'[d] = replied[d]
  PROVE  /\ SumFunction([d \in Clients |-> reads[d] + replied[d]]) \in Int
         /\ SumFunction([d \in Clients |-> reads'[d] + replied'[d]]) =
              SumFunction([d \in Clients |-> reads[d] + replied[d]])
                + ((reads'[c] + replied'[c]) - (reads[c] + replied[c]))
<1> DEFINE f1 == [d \in Clients |-> reads[d] + replied[d]]
           f2 == [d \in Clients |-> reads'[d] + replied'[d]]
<1>1. \A d \in Clients : f1[d] \in Int /\ f2[d] \in Int
  BY DEF TypeOK
<1>2. f1[c] = reads[c] + replied[c] /\ f2[c] = reads'[c] + replied'[c]
  OBVIOUS
<1>3. \A d \in Clients \ {c} : f1[d] = f2[d]
  OBVIOUS
<1>4. SumFunction(f1) = SumFunctionOnSet(f1, Clients) /\ SumFunction(f2) = SumFunctionOnSet(f2, Clients)
  BY DEF SumFunction
<1> HIDE DEF f1, f2
<1>5. SumFunctionOnSet(f2, Clients) = SumFunctionOnSet(f1, Clients) + (f2[c] - f1[c])
  BY <1>1, <1>3, SumChange
<1>6. SumFunctionOnSet(f1, Clients) \in Int
  BY <1>1, SumInt
<1>7. SumFunction(f1) \in Int /\ SumFunction(f2) = SumFunction(f1) + ((reads'[c] + replied'[c]) - (reads[c] + replied[c]))
  BY <1>2, <1>4, <1>5, <1>6
<1>. QED
  BY <1>7 DEF f1, f2

\* Every success that is counted is a connection, a command or a reply more.
LEMMA SuccessStep ==
  ASSUME IInv, IInv', SuccessesAreReal, [Next]_vars
  PROVE  SuccessesAreReal'
<1> DEFINE Succ == SumFunction([u \in Threads |-> result[u].succ_count])
           Served == SumFunction([d \in Clients |-> reads[d] + replied[d]])
<1>0. /\ SuccessesAreReal <=> counted + Succ = Cardinality(Accepted) + Served
      /\ SuccessesAreReal' <=> counted' + Succ' = Cardinality(Accepted') + Served'
  BY DEF SuccessesAreReal
<1>1. IsFiniteSet(Accepted) /\ Cardinality(Accepted) \in Nat /\ counted \in Nat
  BY FS_Subset, FS_CardinalityType DEF Accepted, IInv, TypeOK
<1>5. Served \in Int
  BY SumsInt DEF IInv
<1>2. CASE UNCHANGED <<counted, result, reads, replied>> /\ Accepted' = Accepted
  BY <1>0, <1>2
<1>3. CASE \E c \in Clients : ClientStep(c)
  <2>1. Accepted' = Accepted
    BY <1>3 DEF ClientStep, Connect, SendCommand, HangUp, Accepted, IInv, TypeOK
  <2>. QED
    BY <1>2, <1>3, <2>1 DEF ClientStep, Connect, SendCommand, HangUp, threadVars
<1>4. ASSUME NEW t \in workers, ThreadStep(t)
      PROVE  SuccessesAreReal'
  <2>1. t \in Threads /\ \A u \in Threads \ {t} : result'[u] = result[u]
    BY <1>4, ResultPreserves DEF IInv, TypeOK
  <2>2. Succ \in Int /\ Succ' = Succ + (result'[t].succ_count - result[t].succ_count)
    BY <2>1, ResultSum DEF IInv
  <2> HIDE DEF Succ, Served
  <2>3. CASE EpollWait(t)
    <3>1. result'[t].succ_count = 0 /\ counted' = counted + result[t].succ_count
      BY <2>1, <2>3 DEF EpollWait, FreshResult, NoResult, IInv, TypeOK
    <3>2. Accepted' = Accepted /\ Served' = Served
      BY <2>3 DEF EpollWait, clientVars, Accepted, Served
    <3>3. result[t].succ_count \in Nat
      BY <2>1 DEF IInv, TypeOK
    <3>. QED
      BY <1>0, <1>1, <1>5, <2>2, <3>1, <3>2, <3>3
  <2>4. ASSUME NEW c \in Backlog, conn' = [conn EXCEPT ![c] = "open"],
               result' = [result EXCEPT ![t] = Add(result[t], 1, 1)],
               UNCHANGED <<counted, reads, replied>>
        PROVE  SuccessesAreReal'
    <3>1. Accepted' = Accepted \cup {c} /\ c \notin Accepted
      BY <2>4 DEF Backlog, Accepted, IInv, TypeOK
    <3>2. Cardinality(Accepted') = Cardinality(Accepted) + 1
      BY <1>1, <3>1, FS_AddElement
    <3>3. result'[t].succ_count = result[t].succ_count + 1 /\ result[t].succ_count \in Nat
      BY <2>1, <2>4 DEF Add, IInv, TypeOK
    <3>4. counted' = counted /\ Served' = Served
      BY <2>4 DEF Served
    <3>. QED
      BY <1>0, <1>1, <1>5, <2>2, <3>2, <3>3, <3>4
  <2>5. ASSUME result' = [result EXCEPT ![t] = Add(result[t], 1, 0)],
               UNCHANGED <<counted, reads, replied>>, Accepted' = Accepted
        PROVE  SuccessesAreReal'
    <3>1. result'[t].succ_count = result[t].succ_count /\ result[t].succ_count \in Nat
      BY <2>1, <2>5 DEF Add, IInv, TypeOK
    <3>2. counted' = counted /\ Served' = Served
      BY <2>5 DEF Served
    <3>. QED
      BY <1>0, <1>1, <1>5, <2>2, <2>5, <3>1, <3>2
  <2>6. CASE Accept(t)
    <3>1. UNCHANGED <<counted, reads, replied>>
      BY <2>6 DEF Accept
    <3>2. UNCHANGED <<owner, conn>> => Accepted' = Accepted
      BY DEF Accepted
    <3>. QED
      BY <2>1, <2>4, <2>5, <2>6, <3>1, <3>2, AcceptEffect
  <2>7. ASSUME NEW f \in Fds, CloseAtRead(t, f)
        PROVE  SuccessesAreReal'
    <3>1. Accepted' = Accepted
      BY <2>7 DEF CloseAtRead, Accepted, IInv, TypeOK, OwnerInv
    <3>. QED
      BY <2>5, <2>7, <3>1 DEF CloseAtRead
  <2>8. ASSUME NEW c \in Clients, reads'[c] + replied'[c] = reads[c] + replied[c] + 1,
               \A d \in Clients \ {c} : reads'[d] = reads[d] /\ replied'[d] = replied[d],
               result'[t].succ_count = result[t].succ_count + 1,
               UNCHANGED <<counted, conn>>
        PROVE  SuccessesAreReal'
    <3>1. Served' = Served + ((reads'[c] + replied'[c]) - (reads[c] + replied[c]))
      BY <2>8, ServedSum DEF Served, IInv
    <3>2. reads[c] + replied[c] \in Nat /\ result[t].succ_count \in Nat
      BY <2>1 DEF IInv, TypeOK
    <3>3. counted' = counted /\ Accepted' = Accepted
      BY <2>8 DEF Accepted
    <3>. QED
      BY <1>0, <1>1, <1>5, <2>2, <2>8, <3>1, <3>2, <3>3
  <2>9. ASSUME NEW f \in Fds, Read(t, f)
        PROVE  SuccessesAreReal'
    <3>1. owner[f] \in Clients
      BY <2>9 DEF Read, HasRequest, IInv, TypeOK
    <3>2. /\ reads'[owner[f]] = reads[owner[f]] + 1 /\ replied' = replied
          /\ \A d \in Clients \ {owner[f]} : reads'[d] = reads[d]
      BY <2>9, <3>1 DEF Read, IInv, TypeOK
    <3>3. reads'[owner[f]] + replied'[owner[f]] = reads[owner[f]] + replied[owner[f]] + 1
      BY <3>1, <3>2 DEF IInv, TypeOK
    <3>4. result'[t].succ_count = result[t].succ_count + 1 /\ UNCHANGED <<counted, conn>>
      BY <2>1, <2>9 DEF Read, Add, IInv, TypeOK
    <3>. QED
      BY <2>8, <3>1, <3>2, <3>3, <3>4
  <2>10. CASE Respond(t)
    <3> DEFINE c == owner[fd[t]]
    <3>1. /\ replied' = [d \in Clients |-> IF d = c THEN replied[d] + 1 ELSE replied[d]]
          /\ result' = [result EXCEPT ![t] = Add(result[t], WriteCounts(c # None), WriteCounts(c # None))]
          /\ UNCHANGED <<conn, reads, counted>>
      BY <2>10 DEF Respond
    <3>2. c \in Clients \cup {None}
      BY <2>1, <2>10 DEF Respond, IInv, TypeOK
    <3> HIDE DEF c
    <3>3. CASE c = None
      <4>1. replied' = replied
        BY <3>1, <3>3 DEF IInv, TypeOK
      <4>2. result'[t].succ_count = result[t].succ_count /\ result[t].succ_count \in Nat
        BY <2>1, <3>1, <3>3 DEF WriteCounts, Add, IInv, TypeOK
      <4>3. counted' = counted /\ Served' = Served /\ Accepted' = Accepted
        BY <3>1, <4>1 DEF Served, Accepted
      <4>. QED
        BY <1>0, <1>1, <1>5, <2>2, <4>2, <4>3
    <3>4. CASE c \in Clients
      <4>1. c # None /\ result'[t].succ_count = result[t].succ_count + 1
        BY <2>1, <3>1, <3>4 DEF WriteCounts, Add, IInv, TypeOK
      <4>2. /\ replied'[c] = replied[c] + 1 /\ reads' = reads
            /\ \A d \in Clients \ {c} : replied'[d] = replied[d]
        BY <3>1, <3>4
      <4>3. reads'[c] + replied'[c] = reads[c] + replied[c] + 1
        BY <3>4, <4>2 DEF IInv, TypeOK
      <4>. QED
        BY <2>8, <3>1, <3>4, <4>1, <4>2, <4>3
    <3>. QED
      BY <3>2, <3>3, <3>4
  <2>. QED
    BY <1>4, <2>3, <2>6, <2>7, <2>9, <2>10 DEF ThreadStep
<1>6. CASE UNCHANGED vars
  BY <1>2, <1>6 DEF vars, Accepted
<1>. QED
  BY <1>3, <1>4, <1>6 DEF Next

-----------------------------------------------------------------------------
(* A server with one thread. *)

\* There is no other worker.
LEMMA AloneWorker ==
  ASSUME IInv, Alone, NEW t \in workers, NEW u \in workers
  PROVE  t = u
<1>1. IsFiniteSet(workers) /\ Cardinality(workers) = 1
  BY FS_Subset DEF IInv, TypeOK, Alone
<1>2. \E x : workers = {x}
  BY <1>1, FS_Singleton
<1>. QED
  BY <1>2

LEMMA AloneStep ==
  ASSUME IInv, AloneInv, [Next]_vars
  PROVE  AloneInv'
<1>1. workers' = workers /\ workers \subseteq Threads
  BY DEF Next, vars, IInv, TypeOK
<1>2. SUFFICES ASSUME Alone, NEW t \in workers
               PROVE  /\ (\A f \in events[t] \cap Fds : owner[f] # None /\ Readable(owner[f]))'
                      /\ \A c \in Clients : replied'[c] + unread'[c] + Owes(t, c)' <= sent'[c]
  BY <1>1 DEF AloneInv, Alone
<1>3. /\ \A f \in events[t] \cap Fds : owner[f] # None /\ Readable(owner[f])
      /\ \A c \in Clients : replied[c] + unread[c] + Owes(t, c) <= sent[c]
      /\ t \in Threads
  BY <1>1, <1>2 DEF AloneInv
<1> DEFINE Goal ==
             /\ (\A f \in events[t] \cap Fds : owner[f] # None /\ Readable(owner[f]))'
             /\ \A c \in Clients : replied'[c] + unread'[c] + Owes(t, c)' <= sent'[c]
<1> USE DEF IInv
<1>4. CASE UNCHANGED vars
  BY <1>3, <1>4 DEF vars, Readable, Owes
<1>5. ASSUME NEW d \in Clients, ClientStep(d)
      PROVE  Goal
  <2>1. UNCHANGED <<owner, replied, events, fd>>
    BY <1>5 DEF ClientStep, Connect, SendCommand, HangUp, threadVars
  <2>2. \A f \in events[t] \cap Fds : Readable(owner[f]) => Readable(owner[f])'
    <3> SUFFICES ASSUME NEW f \in events[t] \cap Fds, Readable(owner[f])
                 PROVE  Readable(owner[f])'
      OBVIOUS
    <3>1. owner[f] \in Clients
      BY <1>3 DEF TypeOK
    <3>. QED
      BY <1>5, <2>1, <3>1 DEF Readable, ClientStep, Connect, SendCommand, HangUp, TypeOK
  <2>3. \A c \in Clients : unread'[c] - unread[c] = sent'[c] - sent[c]
    BY <1>5 DEF ClientStep, Connect, SendCommand, HangUp, TypeOK
  <2>4. \A c \in Clients : /\ Owes(t, c)' = Owes(t, c) /\ Owes(t, c) \in Nat
                            /\ replied[c] \in Nat /\ unread[c] \in Nat /\ sent[c] \in Nat
                            /\ unread'[c] \in Int /\ sent'[c] \in Int
    BY <1>5, <2>1 DEF Owes, ClientStep, Connect, SendCommand, HangUp, TypeOK
  <2>5. \A c \in Clients : replied'[c] + unread'[c] + Owes(t, c)' <= sent'[c]
    BY <1>3, <2>1, <2>3, <2>4
  <2>. QED
    BY <1>3, <2>1, <2>2, <2>5
<1>6. CASE EpollWait(t)
  <2>1. PICK E \in SUBSET Ready : events' = [events EXCEPT ![t] = E]
    BY <1>6 DEF EpollWait
  <2>2. UNCHANGED <<conn, hungup, sent, unread, reads, replied, owner, fd>>
    BY <1>6 DEF EpollWait, clientVars
  <2>3. events'[t] = E
    BY <1>3, <2>1 DEF TypeOK
  <2>4. \A f \in E \cap Fds : owner[f] # None /\ Readable(owner[f])
    BY DEF Ready, Fds, g_socket
  <2>. QED
    BY <1>3, <2>2, <2>3, <2>4 DEF Readable, Owes
<1>7. CASE Accept(t)
  <2>1. /\ events'[t] = events[t] \ {g_socket} /\ fd[t] = g_socket
        /\ UNCHANGED <<hungup, sent, unread, reads, replied, fd>>
    BY <1>3, <1>7 DEF Accept, Handled, HandlesEvent, TypeOK
  <2>2. \A f \in events[t] \cap Fds : owner'[f] = owner[f]
    BY <1>3, <1>7, AcceptEffect DEF FreeFds, TypeOK
  <2>3. \A c : Owes(t, c)' = Owes(t, c)
    BY <2>1 DEF Owes
  <2>. QED
    BY <1>3, <2>1, <2>2, <2>3 DEF Readable
<1>8. CASE Respond(t)
  <2> DEFINE c == owner[fd[t]]
  <2>1. /\ replied' = [d \in Clients |-> IF d = c THEN replied[d] + 1 ELSE replied[d]]
        /\ UNCHANGED <<hungup, owner, sent, unread, reads, events>> /\ fd[t] # g_socket /\ fd'[t] = g_socket
    BY <1>3, <1>8 DEF Respond, TypeOK
  <2>2. \A d \in Clients : Owes(t, d)' = 0 /\ Owes(t, d) = IF d = c THEN 1 ELSE 0
    BY <2>1 DEF Owes
  <2>3. \A d \in Clients : replied[d] \in Nat /\ unread[d] \in Nat /\ sent[d] \in Nat
    BY DEF TypeOK
  <2>4. \A d \in Clients : replied'[d] + unread'[d] + Owes(t, d)' <= sent'[d]
    <3> HIDE DEF c
    <3>. QED
      BY <1>3, <2>1, <2>2, <2>3
  <2>. QED
    BY <1>3, <2>1, <2>4 DEF Readable
<1>9. ASSUME NEW f \in Fds, Read(t, f)
      PROVE  Goal
  <2> DEFINE c == owner[f]
  <2>1. /\ f \in events[t] /\ fd[t] = g_socket /\ events'[t] = events[t] \ {f} /\ fd'[t] = f
        /\ UNCHANGED <<hungup, owner, sent, replied>>
        /\ c \in Clients /\ unread[c] > 0 /\ unread' = [unread EXCEPT ![c] = 0]
    BY <1>3, <1>9 DEF Read, Handled, HandlesEvent, HasRequest, TypeOK
  <2>2. \A g \in events'[t] \cap Fds : owner[g] # c
    BY <1>3, <2>1 DEF OwnerInv
  <2>3. (\A g \in events[t] \cap Fds : owner[g] # None /\ Readable(owner[g]))'
    BY <1>3, <2>1, <2>2 DEF Readable, TypeOK
  <2>4. f # g_socket
    BY DEF Fds, g_socket
  <2>5. \A d \in Clients : Owes(t, d) = 0 /\ Owes(t, d)' = IF d = c THEN 1 ELSE 0
    BY <2>1, <2>4 DEF Owes
  <2>6. \A d \in Clients : /\ replied[d] \in Nat /\ unread[d] \in Nat /\ sent[d] \in Nat
                            /\ unread'[d] = IF d = c THEN 0 ELSE unread[d]
    BY <2>1 DEF TypeOK
  <2>7. \A d \in Clients : replied'[d] + unread'[d] + Owes(t, d)' <= sent'[d]
    <3> HIDE DEF c
    <3>. QED
      BY <1>3, <2>1, <2>5, <2>6
  <2>. QED
    BY <2>3, <2>7
<1>10. ASSUME NEW f \in Fds, CloseAtRead(t, f)
       PROVE  Goal
  <2>1. /\ events'[t] = events[t] \ {f} /\ fd[t] = g_socket
        /\ UNCHANGED <<hungup, sent, unread, reads, replied, fd>>
        /\ \A g \in Fds \ {f} : owner'[g] = owner[g]
    BY <1>3, <1>10 DEF CloseAtRead, Handled, HandlesEvent, TypeOK
  <2>2. \A c : Owes(t, c)' = Owes(t, c)
    BY <2>1 DEF Owes
  <2>. QED
    BY <1>3, <2>1, <2>2 DEF Readable
<1>11. \A u \in workers : ThreadStep(u) => u = t
  BY <1>2, AloneWorker
<1>. QED
  BY <1>2, <1>4, <1>5, <1>6, <1>7, <1>8, <1>9, <1>10, <1>11 DEF Next, ThreadStep

-----------------------------------------------------------------------------
(* The theorems. *)

\* The invariant holds in every reachable state.
THEOREM RedisInvariant == Spec => []IInv
<1>1. IInv /\ [Next]_vars => IInv'
  BY IInvStep
<1>. QED
  BY InitIInv, <1>1, PTL DEF Spec

\* Type correctness: a dispatch counts no more than two operations per event, and
\* no socket holds more commands than were sent (bm_dispatch_operation).
THEOREM RedisTypeCorrect == Spec => []TypeOK
<1>1. IInv => TypeOK
  BY DEF IInv
<1>. QED
  BY <1>1, RedisInvariant, PTL

\* The successes reported by any number of threads are the connections accepted,
\* the commands read and the replies written, however the threads close, reuse
\* and answer on each other's descriptors (bm_dispatch_operation).
THEOREM SuccessesReal == Spec => []SuccessesAreReal
<1>1. Init => SuccessesAreReal
  <2> SUFFICES ASSUME Init PROVE SuccessesAreReal
    OBVIOUS
  <2>1. Accepted = {}
    BY DEF Init, Accepted
  <2>2. SumFunction([u \in Threads |-> result[u].succ_count]) = 0
    <3>1. \A u \in Threads : [v \in Threads |-> result[v].succ_count][u] = 0
      BY DEF Init, NoResult
    <3>. QED
      BY <3>1, SumZero DEF SumFunction
  <2>3. SumFunction([d \in Clients |-> reads[d] + replied[d]]) = 0
    <3>1. \A d \in Clients : [e \in Clients |-> reads[e] + replied[e]][d] = 0
      BY DEF Init
    <3>. QED
      BY <3>1, SumZero DEF SumFunction
  <2>4. counted = 0 /\ Cardinality(Accepted) = 0
    BY <2>1, FS_EmptySet DEF Init
  <2>. QED
    BY <2>2, <2>3, <2>4 DEF SuccessesAreReal
<1>2. IInv /\ IInv' /\ SuccessesAreReal /\ [Next]_vars => SuccessesAreReal'
  BY SuccessStep
<1>. QED
  BY <1>1, <1>2, RedisInvariant, PTL DEF Spec

\* What one thread keeps true of the descriptors reported to it.
THEOREM AloneInvariant == Spec => []AloneInv
<1>1. Init => AloneInv
  BY DEF Init, AloneInv, Owes
<1>2. IInv /\ AloneInv /\ [Next]_vars => AloneInv'
  BY AloneStep
<1>. QED
  BY <1>1, <1>2, RedisInvariant, PTL DEF Spec

\* A server with one thread replies only to clients that have sent a command
\* (_bm_respond).
THEOREM RepliesSolicited == Spec => []NoUnsolicitedReply
<1>1. IInv /\ AloneInv => NoUnsolicitedReply
  <2> SUFFICES ASSUME IInv, AloneInv, Alone, NEW c \in Clients
               PROVE  replied[c] <= sent[c]
    BY DEF NoUnsolicitedReply
  <2>1. PICK t \in workers : TRUE
    <3>1. IsFiniteSet(workers) /\ Cardinality(workers) = 1
      BY FS_Subset DEF IInv, TypeOK, Alone
    <3>. QED
      BY <3>1, FS_Singleton
  <2>2. replied[c] + unread[c] + Owes(t, c) <= sent[c]
    BY <2>1 DEF AloneInv
  <2>3. replied[c] \in Nat /\ unread[c] \in Nat /\ sent[c] \in Nat /\ Owes(t, c) \in Nat
    BY DEF IInv, TypeOK, Owes
  <2>. QED
    BY <2>2, <2>3
<1>. QED
  BY <1>1, RedisInvariant, AloneInvariant, PTL

\* A server with one thread closes only the connections of clients that have hung
\* up (the test of read's result in bm_dispatch_operation).
THEOREM ConnectionsKept == Spec => ConnectionKeptAlone
<1>1. IInv /\ AloneInv /\ [Next]_vars => [Alone => ~ DropsLiveClient]_vars
  <2> SUFFICES ASSUME IInv, AloneInv, [Next]_vars, Alone, NEW c \in Clients,
                      conn[c] = "open", conn'[c] = "closed", ~ hungup[c]
               PROVE  FALSE
    BY DEF DropsLiveClient
  <2>1. PICK t \in workers, f \in Fds : CloseAtRead(t, f)
    <3>1. ASSUME NEW d \in Clients, ClientStep(d)
          PROVE  FALSE
      BY <3>1 DEF ClientStep, Connect, SendCommand, HangUp, IInv, TypeOK
    <3>2. ASSUME NEW t \in workers, EpollWait(t) \/ Respond(t) \/ \E f \in Fds : Read(t, f)
          PROVE  FALSE
      BY <3>2 DEF EpollWait, Respond, Read, clientVars
    <3>3. ASSUME NEW t \in workers, Accept(t)
          PROVE  FALSE
      <4>1. t \in Threads
        BY DEF IInv, TypeOK
      <4>. QED
        BY <3>3, <4>1, AcceptEffect DEF Backlog, IInv, TypeOK
    <3>. QED
      BY <3>1, <3>2, <3>3 DEF Next, ThreadStep, vars
  <2>2. owner[f] = c /\ f \in events[t] /\ ~ HasRequest(f)
    BY <2>1 DEF CloseAtRead, HandlesEvent, IInv, TypeOK
  <2>3. Readable(c)
    BY <2>1, <2>2 DEF AloneInv
  <2>4. c # None /\ unread[c] > 0
    BY <2>3 DEF Readable
  <2>. QED
    BY <2>2, <2>4 DEF HasRequest
<1>. QED
  BY <1>1, RedisInvariant, AloneInvariant, PTL DEF Spec, ConnectionKeptAlone
=============================================================================
