---------------------------- MODULE RedisTarget ----------------------------
(***************************************************************************)
(* The target bench/targets/bm_server_redis.h: worker threads that serve   *)
(* connections out of one epoll set they all share, and the clients of     *)
(* bench/network/redis-client.c, which send a command and wait for the     *)
(* reply.                                                                  *)
(*                                                                         *)
(* The sockets are the operating system's.  The epoll set is level         *)
(* triggered: a descriptor is reported to every thread that asks while it  *)
(* has something to read.  A descriptor number is free as soon as it is    *)
(* closed, and accept returns the lowest free one.                         *)
(***************************************************************************)
EXTENDS Integers, FiniteSets, FiniteSetsExt, Functions

CONSTANTS
    Threads,      \* the threads that may be there to dispatch
    Clients,      \* the clients
    NumFds,       \* bound: descriptors the process may have open
    MAX_EVENTS,   \* length of the array given to epoll_wait
    MaxCommands,  \* bound: commands a client sends
    MaxLoad,      \* bound: clients that connect, times threads
    None          \* no client

ASSUME RedisAssumption ==
    /\ NumFds \in Nat \ {0} /\ MAX_EVENTS \in Nat \ {0} /\ MaxCommands \in Nat
    /\ MaxLoad \in Nat
    /\ None \notin Clients /\ IsFiniteSet(Clients) /\ IsFiniteSet(Threads)

g_socket == 0
Fds == 1..NumFds

VARIABLES
    workers,  \* the threads of this process (never changes)
    conn,     \* "idle", "backlog" (connected, not accepted), "open", "closed"
    hungup,   \* the client has closed its end
    owner,    \* the client behind every open descriptor, None if not open
    sent,     \* commands the client has sent
    unread,   \* commands in the socket that have not been read
    reads,    \* successful reads from the client's socket (history)
    replied,  \* replies written to the client's socket
    events,   \* thread: reported descriptors it has still to handle
    fd,       \* thread: the descriptor it has read from, g_socket if none
    result,   \* thread: the bm_op_res_t of the dispatch
    counted   \* the successes of all dispatches that have returned

vars == <<workers, conn, hungup, owner, sent, unread, reads, replied, events, fd, result, counted>>

NoResult == [op_count |-> 0, succ_count |-> 0]

TypeOK ==
    /\ workers \subseteq Threads
    /\ conn \in [Clients -> {"idle", "backlog", "open", "closed"}]
    /\ hungup \in [Clients -> BOOLEAN]
    /\ owner \in [Fds -> Clients \cup {None}]
    /\ sent \in [Clients -> 0..MaxCommands]
    /\ unread \in [Clients -> 0..MaxCommands]
    /\ reads \in [Clients -> Nat]
    /\ replied \in [Clients -> Nat]
    /\ events \in [Threads -> SUBSET ({g_socket} \cup Fds)]
    /\ fd \in [Threads -> {g_socket} \cup Fds]
    /\ result \in [Threads -> [op_count : 0..2*MAX_EVENTS, succ_count : 0..2*MAX_EVENTS]]
    /\ counted \in Nat

\* bm_target_init has returned and the threads are registered.
Init ==
    /\ workers \in (SUBSET Threads) \ {{}}
    /\ conn = [c \in Clients |-> "idle"]
    /\ hungup = [c \in Clients |-> FALSE]
    /\ owner = [f \in Fds |-> None]
    /\ sent = [c \in Clients |-> 0]
    /\ unread = [c \in Clients |-> 0]
    /\ reads = [c \in Clients |-> 0]
    /\ replied = [c \in Clients |-> 0]
    /\ events = [t \in Threads |-> {}]
    /\ fd = [t \in Threads |-> g_socket]
    /\ result = [t \in Threads |-> NoResult]
    /\ counted = 0

clientVars == <<conn, hungup, sent, unread, reads, replied>>
threadVars == <<events, fd, result, counted>>

-----------------------------------------------------------------------------
(***************************************************************************)
(* Clients.                                                                *)
(***************************************************************************)

Connected == {c \in Clients : conn[c] # "idle"}

\* redisConnect succeeds as soon as the server listens.
Connect(c) ==
    /\ conn[c] = "idle"
    /\ (Cardinality(Connected) + 1) * Cardinality(workers) <= MaxLoad
    /\ conn' = [conn EXCEPT ![c] = "backlog"]
    /\ UNCHANGED <<hungup, owner, sent, unread, reads, replied, threadVars>>

\* communicate: the next command is sent when the last one has its reply.
SendCommand(c) ==
    /\ conn[c] \in {"backlog", "open"} /\ ~ hungup[c]
    /\ replied[c] >= sent[c] /\ sent[c] < MaxCommands
    /\ sent' = [sent EXCEPT ![c] = @ + 1]
    /\ unread' = [unread EXCEPT ![c] = @ + 1]
    /\ UNCHANGED <<conn, hungup, owner, reads, replied, threadVars>>

\* redisFree, or the end of the client.
HangUp(c) ==
    /\ conn[c] # "idle" /\ ~ hungup[c]
    /\ hungup' = [hungup EXCEPT ![c] = TRUE]
    /\ UNCHANGED <<conn, owner, sent, unread, reads, replied, threadVars>>

-----------------------------------------------------------------------------
(***************************************************************************)
(* bm_dispatch_operation.                                                  *)
(***************************************************************************)
Backlog == {c \in Clients : conn[c] = "backlog"}
Readable(c) == unread[c] > 0 \/ hungup[c]
Ready == {f \in Fds : owner[f] # None /\ Readable(owner[f])}
            \cup IF Backlog # {} THEN {g_socket} ELSE {}

Add(res, ops, succs) == [op_count |-> res.op_count + ops,
                         succ_count |-> res.succ_count + succs]

\* The thread is at epoll_wait.  (A dispatch in which it times out changes
\* nothing.)
AtWait(t) == events[t] = {} /\ fd[t] = g_socket

\* Fault variant: the array is taken for one entry shorter.
NumEventsShort == Min({MAX_EVENTS, Cardinality(Ready)}) - 1

NumEvents == Min({MAX_EVENTS, Cardinality(Ready)})

\* Fault variant: only one field of the result is initialised.
FreshResultKeepsOps(old) == [old EXCEPT !.succ_count = 0]

\* A dispatch begins with an empty result, whatever the last one returned.
FreshResult(old) == NoResult

\* epoll_wait reports up to MAX_EVENTS of the ready descriptors.
EpollWait(t) ==
    /\ AtWait(t) /\ Ready # {}
    /\ \E evs \in SUBSET Ready :
          /\ Cardinality(evs) = NumEvents
          /\ events' = [events EXCEPT ![t] = evs]
    /\ counted' = counted + result[t].succ_count
    /\ result' = [result EXCEPT ![t] = FreshResult(@)]
    /\ UNCHANGED <<clientVars, owner, fd>>

\* The for loop takes the events in the order of the array.
HandlesEvent(t, f) == fd[t] = g_socket /\ f \in events[t]
Handled(t, f) == events' = [events EXCEPT ![t] = @ \ {f}]

FreeFds == {f \in Fds : owner[f] = None}

\* _bm_accept_connection; there is no descriptor left (EMFILE), or another
\* thread was faster (EAGAIN).  One step, since nobody else is told of the new
\* descriptor before epoll_ctl has added it.
Accept(t) ==
    /\ HandlesEvent(t, g_socket) /\ Handled(t, g_socket)
    /\ \/ /\ FreeFds # {}
          /\ \E c \in Backlog :
                /\ owner' = [owner EXCEPT ![Min(FreeFds)] = c]
                /\ conn' = [conn EXCEPT ![c] = "open"]
          /\ result' = [result EXCEPT ![t] = Add(@, 1, 1)]
       \/ /\ FreeFds = {} \/ Backlog = {}
          /\ result' = [result EXCEPT ![t] = Add(@, 1, 0)]
          /\ UNCHANGED <<owner, conn>>
    /\ UNCHANGED <<hungup, sent, unread, reads, replied, fd, counted>>

\* Fault variant: the end of the stream (0) is taken for a command.
HasRequestAtEnd(f) == owner[f] # None
\* Fault variant: the test of read's result is the wrong way round.
HasRequestInverted(f) == owner[f] # None /\ unread[owner[f]] = 0

\* read(fd) would return a positive count.
HasRequest(f) == owner[f] # None /\ unread[owner[f]] > 0

\* read returns all the commands that are there: more than one when the client
\* took a reply meant for another one for its own.  They get one reply.
Read(t, f) ==
    /\ HandlesEvent(t, f) /\ Handled(t, f) /\ HasRequest(f)
    /\ unread' = [unread EXCEPT ![owner[f]] = 0]
    /\ reads' = [reads EXCEPT ![owner[f]] = @ + 1]
    /\ fd' = [fd EXCEPT ![t] = f]
    /\ result' = [result EXCEPT ![t] = Add(@, 1, 1)]
    /\ UNCHANGED <<conn, hungup, owner, sent, replied, counted>>

\* read returns no data: the client has hung up (0), the descriptor is closed
\* (EBADF), or another thread has read the command (EAGAIN).  In every case
\* close(fd).
CloseAtRead(t, f) ==
    /\ HandlesEvent(t, f) /\ Handled(t, f) /\ ~ HasRequest(f)
    /\ owner' = [owner EXCEPT ![f] = None]
    /\ conn' = [c \in Clients |-> IF c = owner[f] THEN "closed" ELSE conn[c]]
    /\ result' = [result EXCEPT ![t] = Add(@, 1, 0)]
    /\ UNCHANGED <<hungup, sent, unread, reads, replied, fd, counted>>

\* Fault variant: the write is counted although it failed.
WriteCountsAnyway(ok) == 1

\* ret > 0: the write is counted as a success.
WriteCounts(ok) == IF ok THEN 1 ELSE 0

\* _bm_respond writes to the descriptor the command was read from, whoever is
\* behind it now.
Respond(t) ==
    /\ fd[t] # g_socket
    /\ fd' = [fd EXCEPT ![t] = g_socket]
    /\ LET c == owner[fd[t]] IN
          /\ replied' = [d \in Clients |-> IF d = c THEN replied[d] + 1 ELSE replied[d]]
          /\ result' = [result EXCEPT ![t] = Add(@, WriteCounts(c # None), WriteCounts(c # None))]
    /\ UNCHANGED <<conn, hungup, owner, sent, unread, reads, events, counted>>

ThreadStep(t) ==
    EpollWait(t) \/ Accept(t) \/ Respond(t) \/ \E f \in Fds : Read(t, f) \/ CloseAtRead(t, f)

ClientStep(c) == Connect(c) \/ SendCommand(c) \/ HangUp(c)

Next ==
    /\ (\E t \in workers : ThreadStep(t)) \/ (\E c \in Clients : ClientStep(c))
    /\ UNCHANGED workers

Spec == Init /\ [][Next]_vars

\* Workers dispatch again and again while the benchmark runs.
FairSpec ==
    Spec /\ \A t \in Threads : WF_vars(t \in workers /\ ThreadStep(t) /\ UNCHANGED workers)

-----------------------------------------------------------------------------
(***************************************************************************)
(* Properties.                                                             *)
(***************************************************************************)

\* The successes the threads report are exactly the connections accepted, the
\* commands read and the replies written, whatever the threads do to each
\* other's descriptors (bm_dispatch_operation, _bm_accept_connection).
Accepted == {c \in Clients : conn[c] \in {"open", "closed"}}
SuccessesAreReal ==
    counted + SumFunction([t \in Threads |-> result[t].succ_count])
      = Cardinality(Accepted) + SumFunction([c \in Clients |-> reads[c] + replied[c]])

\* One thread serves the clients: the configuration in which the promises to
\* the clients hold.
Alone == Cardinality(workers) = 1

\* Nobody gets a reply without having sent a command (_bm_respond).
NoUnsolicitedReply == Alone => \A c \in Clients : replied[c] <= sent[c]

DropsLiveClient ==
    \E c \in Clients : conn[c] = "open" /\ conn'[c] = "closed" /\ ~ hungup[c]

\* "send messages non-stop": the server closes only the connections that the
\* client has given up (bm_dispatch_operation, redis-client.c:99).
ConnectionKept == [][~ DropsLiveClient]_vars

\* The same for a server with one thread.
ConnectionKeptAlone == [][Alone => ~ DropsLiveClient]_vars

\* A client that does not hang up gets its reply, also when more descriptors are
\* ready than one epoll_wait reports; or it stays in the backlog for good, since
\* others hold every descriptor (bm_dispatch_operation, _bm_accept_connection).
LeftInBacklog(c) == conn[c] = "backlog" /\ FreeFds = {}
CommandsAnswered ==
    \A c \in Clients :
        \/ <>[]LeftInBacklog(c)
        \/ Alone /\ sent[c] > replied[c] ~> sent[c] = replied[c] \/ hungup[c]

-----------------------------------------------------------------------------
(***************************************************************************)
(* The inductive invariants.                                               *)
(***************************************************************************)

\* An open descriptor belongs to one accepted client, and to one only; what is
\* in a socket was sent.
OwnerInv ==
    /\ \A f \in Fds : owner[f] # None => conn[owner[f]] = "open"
    /\ \A f, g \in Fds : owner[f] # None /\ owner[f] = owner[g] => f = g
    /\ \A c \in Clients : unread[c] <= sent[c]

\* An event still to be handled may be counted twice more, a command that was read
\* once more.
Pending(t) == IF fd[t] # g_socket THEN 1 ELSE 0
ResultInv ==
    \A t \in Threads :
        /\ result[t].succ_count <= result[t].op_count
        /\ result[t].op_count + 2 * Cardinality(events[t]) + Pending(t) <= 2 * MAX_EVENTS

IInv == TypeOK /\ OwnerInv /\ ResultInv

\* With one thread the reported descriptors stay open and readable until it
\* handles them, and the client behind the one it has read from waits.
Owes(t, c) == IF fd[t] # g_socket /\ owner[fd[t]] = c THEN 1 ELSE 0
AloneInv ==
    Alone => \A t \in workers :
        /\ \A f \in events[t] \cap Fds : owner[f] # None /\ Readable(owner[f])
        /\ \A c \in Clients : replied[c] + unread[c] + Owes(t, c) <= sent[c]
=============================================================================
