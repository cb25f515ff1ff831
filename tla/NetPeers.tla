------------------------------ MODULE NetPeers ------------------------------
(***************************************************************************)
(* The network peers bench/network/server.c and client.c as they are run   *)
(* against each other by test-comm.sh: both execute the same operation     *)
(* sequence, sending on `r' and receiving on `w' (a peer does the opposite *)
(* of the application it stands for).  The server performs one call per    *)
(* event, the client calls until one of them fails.                        *)
(*                                                                         *)
(* A connection is two bounded byte streams, of which only the lengths     *)
(* matter.  Closing an end with unread bytes, or sending to a closed end,  *)
(* resets the connection.                                                  *)
(***************************************************************************)
EXTENDS Integers, FiniteSets, Functions

CONSTANTS
    Conns,          \* bound: connections there will be, 1..N
    Sequences,      \* the operation sequences both may be started with
    Capacity,       \* bytes a stream can hold
    Options         \* the client options: only_once (-O), retry_on_fail (-R)

Op == [n : Nat \ {0}, is_write : BOOLEAN, sz : Nat \ {0}]

ASSUME NetAssumption ==
    /\ \A seq \in Sequences : LET sz == Cardinality(DOMAIN seq)
                              IN  sz \in Nat \ {0} /\ seq \in [0..sz - 1 -> Op]
    /\ Conns \subseteq Nat \ {0} /\ Capacity \in Nat \ {0}
    /\ Options \subseteq [only_once : BOOLEAN, retry_on_fail : BOOLEAN]

VARIABLES
    eops,       \* the operation sequence
    opt,        \* the options the client was started with
    listening,  \* the server accepts connections
    srv,        \* server: conn_data of every connection
    up, down,   \* bytes on the way to the server, to the client
    rst,        \* the connection has been reset
    cpc,        \* client: "connect", "poll", "rw", "batch", "exited"
    cur,        \* client: its connection, 0 if it has none
    cli,        \* client: conn_data of that connection
    used        \* the connections there have been, and whether the client
                \* still has them open

vars == <<eops, opt, listening, srv, up, down, rst, cpc, cur, cli, used>>

eops_sz == Cardinality(DOMAIN eops)
Steps == 0..eops_sz - 1

Interest(step) == IF eops[step].is_write THEN "EPOLLIN" ELSE "EPOLLOUT"

\* A new conn_data; `done' is not in the code, it counts the operations of the connection.
Fresh == [step |-> 0, n |-> 0, last_epoll |-> Interest(0), done |-> 0]
ConnData == {d \in [step : Steps, n : Nat, last_epoll : {"EPOLLIN", "EPOLLOUT"},
                   done : Nat] : d.n < eops[d.step].n}

TypeOK ==
    /\ eops \in Sequences /\ opt \in Options
    /\ listening \in BOOLEAN
    /\ srv \in [Conns -> [state : {"none", "backlog", "open", "closed"}, d : ConnData]]
    /\ up \in [Conns -> 0..Capacity] /\ down \in [Conns -> 0..Capacity]
    /\ rst \in [Conns -> BOOLEAN]
    /\ cpc \in {"connect", "poll", "rw", "batch", "exited"}
    /\ cur \in Conns \cup {0} /\ cli \in ConnData
    /\ used \in [Conns -> {"unused", "open", "closed"}]

Init ==
    /\ eops \in Sequences /\ opt \in Options
    /\ listening = FALSE
    /\ srv = [k \in Conns |-> [state |-> "none", d |-> Fresh]]
    /\ up = [k \in Conns |-> 0] /\ down = [k \in Conns |-> 0]
    /\ rst = [k \in Conns |-> FALSE]
    /\ cpc = "connect" /\ cur = 0 /\ cli = Fresh
    /\ used = [k \in Conns |-> "unused"]

Least(a, b) == IF a < b THEN a ELSE b

-----------------------------------------------------------------------------
(***************************************************************************)
(* conn_data.                                                              *)
(***************************************************************************)

\* advance_step.  The server compares with ==, the client with >=.
NextStep(d) == (d.step + 1) % eops_sz
Advance(d, full) ==
    [step |-> IF full THEN NextStep(d) ELSE d.step,
     n |-> IF full THEN 0 ELSE d.n + 1,
     last_epoll |-> d.last_epoll, done |-> d.done + 1]
\* Fault variants: one operation too many per step, the counts not looked at.
ServerAdvanceLate(d) == Advance(d, d.n = eops[d.step].n)
ServerAdvanceEachTime(d) == Advance(d, TRUE)

ServerAdvance(d) == Advance(d, d.n + 1 = eops[d.step].n)
ClientAdvance(d) == Advance(d, d.n + 1 >= eops[d.step].n)

\* Fault variant: the interest is not changed.
config_wait_missing(d) == d

\* EPOLL_CTL_MOD, if the next operation waits for the other event.
config_wait(d) == [d EXCEPT !.last_epoll = Interest(d.step)]

-----------------------------------------------------------------------------
(***************************************************************************)
(* The server.                                                             *)
(***************************************************************************)
ClientSide == <<eops, opt, cpc, cur, cli, used>>

Listen ==
    /\ ~ listening /\ listening' = TRUE
    /\ UNCHANGED <<srv, up, down, rst, ClientSide>>

\* accept, malloc and EPOLL_CTL_ADD.
AcceptConn(k) ==
    /\ srv[k].state = "backlog"
    /\ srv' = [srv EXCEPT ![k] = [state |-> "open", d |-> Fresh]]
    /\ UNCHANGED <<listening, up, down, rst, ClientSide>>

ClientGone(k) == used[k] = "closed"

\* unregister, with `unread' bytes in the receive buffer.
Unregistered(k, unread) ==
    /\ srv' = [srv EXCEPT ![k].state = "closed"]
    /\ rst' = [rst EXCEPT ![k] = @ \/ unread > 0]

\* EPOLLHUP or EPOLLERR.
ServerHangup(k) ==
    /\ srv[k].state = "open" /\ rst[k]
    /\ Unregistered(k, up[k])
    /\ UNCHANGED <<listening, up, down, ClientSide>>

\* The end of readwrite: the sequence is over when the step is the first one.
ServerAfter(k, d, unread, reset) ==
    IF d.step = 0
      THEN /\ srv' = [srv EXCEPT ![k] = [state |-> "closed", d |-> d]]
           /\ rst' = [rst EXCEPT ![k] = @ \/ reset \/ unread > 0]
      ELSE /\ srv' = [srv EXCEPT ![k].d = config_wait(d)]
           /\ rst' = [rst EXCEPT ![k] = @ \/ reset]

\* An EPOLLOUT event: send takes what the stream has room for.  (A reset that
\* arrives between the event and the send, which may end the server with
\* SIGPIPE, is not represented.)
ServerSend(k) ==
    LET d == srv[k].d
        sz == Least(eops[d.step].sz, Capacity - down[k])
    IN  /\ srv[k].state = "open" /\ ~ rst[k] /\ d.last_epoll = "EPOLLOUT"
        /\ sz > 0
        /\ down' = [down EXCEPT ![k] = IF ClientGone(k) THEN @ ELSE @ + sz]
        /\ ServerAfter(k, ServerAdvance(d), up[k], ClientGone(k))
        /\ UNCHANGED <<listening, up, ClientSide>>

\* Fault variant: the end of the stream is not counted as an operation.
ServerReceivesOnlyBytes(k) == up[k] > 0

\* An EPOLLIN event: there are bytes, or the client has closed its end.
ServerReceives(k) == up[k] > 0 \/ ClientGone(k)

\* recv returns what there is, 0 at the end of the stream.
ServerRecv(k) ==
    LET d == srv[k].d
        sz == Least(eops[d.step].sz, up[k])
    IN  /\ srv[k].state = "open" /\ ~ rst[k] /\ d.last_epoll = "EPOLLIN"
        /\ ServerReceives(k)
        /\ up' = [up EXCEPT ![k] = @ - sz]
        /\ ServerAfter(k, ServerAdvance(d), up[k] - sz, FALSE)
        /\ UNCHANGED <<listening, down, ClientSide>>

ServerStep ==
    \/ Listen
    \/ \E k \in Conns : AcceptConn(k) \/ ServerHangup(k) \/ ServerSend(k) \/ ServerRecv(k)

-----------------------------------------------------------------------------
(***************************************************************************)
(* The client.                                                             *)
(***************************************************************************)
ServerSide == <<eops, opt, listening, srv>>

Unused == {k \in Conns : used[k] = "unused"}

\* register_new when connect succeeds.
Registered(k) ==
    /\ srv' = [srv EXCEPT ![k].state = "backlog"]
    /\ used' = [used EXCEPT ![k] = "open"]
    /\ cur' = k /\ cli' = Fresh

\* The first connection; -R repeats connect until it succeeds.
ClientConnects ==
    /\ cpc = "connect" /\ listening
    /\ \E k \in Unused : Registered(k)
    /\ cpc' = "poll"
    /\ UNCHANGED <<eops, opt, listening, up, down, rst>>

ConnectRefused ==
    /\ cpc = "connect" /\ ~ listening /\ ~ opt.retry_on_fail
    /\ cpc' = "exited"
    /\ UNCHANGED <<ServerSide, up, down, rst, cur, cli, used>>

\* The client's end is closed, by unregister or by the end of the process.
ClientCloses(k) ==
    /\ used' = [used EXCEPT ![k] = "closed"]
    /\ rst' = [rst EXCEPT ![k] = @ \/ down[k] > 0]
    /\ cur' = 0

ServerGone == srv[cur].state = "closed"

\* epoll_wait reports EPOLLHUP or EPOLLERR: unregister.
ClientHangup ==
    /\ cpc = "poll" /\ rst[cur]
    /\ ClientCloses(cur)
    /\ cpc' = "batch"
    /\ UNCHANGED <<ServerSide, up, down, cli>>

\* epoll_wait reports the event the client waits for.
ClientEvent ==
    /\ cpc = "poll" /\ ~ rst[cur]
    /\ IF cli.last_epoll = "EPOLLOUT" THEN up[cur] < Capacity \/ ServerGone
                                      ELSE down[cur] > 0 \/ ServerGone
    /\ cpc' = "rw"
    /\ UNCHANGED <<ServerSide, up, down, rst, cur, cli, used>>

InLoop(is_write) == cpc = "rw" /\ eops[cli.step].is_write = is_write

\* send succeeds; the first one after the server closed is answered by a reset.
ClientSend ==
    LET sz == Least(eops[cli.step].sz, Capacity - up[cur])
    IN  /\ InLoop(FALSE) /\ ~ rst[cur]
        /\ sz > 0 \/ ServerGone
        /\ up' = [up EXCEPT ![cur] = IF ServerGone THEN @ ELSE @ + sz]
        /\ rst' = [rst EXCEPT ![cur] = ServerGone]
        /\ cli' = ClientAdvance(cli)
        /\ UNCHANGED <<ServerSide, down, cpc, cur, used>>

\* recv succeeds, with 0 at the end of the stream.
ClientRecv ==
    LET sz == Least(eops[cli.step].sz, down[cur])
    IN  /\ InLoop(TRUE) /\ ~ rst[cur]
        /\ sz > 0 \/ ServerGone
        /\ down' = [down EXCEPT ![cur] = @ - sz]
        /\ cli' = ClientAdvance(cli)
        /\ UNCHANGED <<ServerSide, up, rst, cpc, cur, used>>

\* The next call would block.
WouldBlock ==
    /\ cpc = "rw" /\ ~ rst[cur] /\ ~ ServerGone
    /\ IF eops[cli.step].is_write THEN down[cur] = 0 ELSE up[cur] = Capacity

\* Fault variant: the loop goes on after EAGAIN.
LoopPolls == "rw"

\* `while (r != -1)' ends with the first failure.
AfterLoop == "batch"

\* EAGAIN, or ECONNRESET, after which the next event is EPOLLHUP.
ClientWaits ==
    /\ WouldBlock \/ (cpc = "rw" /\ rst[cur])
    /\ cli' = config_wait(cli)
    /\ cpc' = AfterLoop
    /\ UNCHANGED <<ServerSide, up, down, rst, cur, used>>

\* Any other error (EPIPE): unregister.
ClientFails ==
    /\ cpc = "rw" /\ rst[cur]
    /\ ClientCloses(cur)
    /\ cpc' = "batch"
    /\ UNCHANGED <<ServerSide, up, down, cli>>

\* The rest of the main loop: a lost connection is replaced if connect
\* succeeds at once, -O ends the loop, and so does having no connection.
Reconnects ==
    /\ cpc = "batch" /\ cur = 0
    /\ \E k \in Unused : Registered(k)
    /\ UNCHANGED <<eops, opt, listening, up, down, rst, cpc>>

GoesOn ==
    /\ cpc = "batch" /\ cur # 0 /\ ~ opt.only_once
    /\ cpc' = "poll"
    /\ UNCHANGED <<ServerSide, up, down, rst, cur, cli, used>>

Exits ==
    /\ cpc = "batch"
    /\ \/ cur # 0 /\ opt.only_once /\ ClientCloses(cur)
       \/ cur = 0 /\ UNCHANGED <<used, rst, cur>>
    /\ cpc' = "exited"
    /\ UNCHANGED <<ServerSide, up, down, cli>>

\* The process is killed: scripts/plugins/generic-network-client.sh runs clients
\* under a plugin, and stop_process kills a plugin with all its children.
ClientKilled ==
    /\ cpc \notin {"connect", "exited"} /\ cur # 0
    /\ ClientCloses(cur)
    /\ cpc' = "exited"
    /\ UNCHANGED <<ServerSide, up, down, cli>>

ClientStep ==
    \/ ClientConnects \/ ConnectRefused \/ ClientHangup \/ ClientEvent
    \/ ClientSend \/ ClientRecv \/ ClientWaits \/ ClientFails
    \/ Reconnects \/ GoesOn \/ Exits

Next == ServerStep \/ ClientStep \/ ClientKilled

Spec == Init /\ [][Next]_vars

\* Both programs are runnable whenever an event is there for them.
FairSpec ==
    /\ Spec /\ WF_vars(ClientStep) /\ WF_vars(Listen)
    /\ \A k \in Conns : WF_vars(AcceptConn(k)) /\ WF_vars(ServerHangup(k))
                        /\ WF_vars(ServerSend(k)) /\ WF_vars(ServerRecv(k))

-----------------------------------------------------------------------------
(***************************************************************************)
(* Properties.                                                             *)
(***************************************************************************)

\* The assertions of both readwrite functions: when an event arrives, it is the
\* one that the operation at the current step waits for.
EventMatchesOp ==
    /\ \A k \in Conns : srv[k].state = "open" => srv[k].d.last_epoll = Interest(srv[k].d.step)
    /\ cpc = "poll" => cli.last_epoll = Interest(cli.step)

\* The client's readwrite returns: its loop `while (r != -1)' meets a call that
\* would block or fails.
ReadwriteReturns == cpc = "rw" ~> cpc # "rw"

\* The server lets go of every connection whose client has gone, whatever step
\* it is at (readwrite, unregister).
ServerReleases ==
    \A k \in Conns : ClientGone(k) ~> srv[k].state = "closed"

Counts == [s \in Steps |-> eops[s].n]

\* The server performs the whole sequence on a connection that is not reset
\* before it closes it ("Operation sequence: <NUM_TIME>[rw]<NUM_BYTES>...",
\* usage in server.c:108-113).  This is so for sequences that begin with an
\* operation that is not repeated, and never for the others: see
\* SequenceCompleted and SequenceCutShort.
WholeSequence ==
    [][\A k \in Conns :
          srv[k].state = "open" /\ srv'[k].state = "closed" /\ ~ rst[k]
            => srv'[k].d.done = SumFunction(Counts)]_vars

-----------------------------------------------------------------------------
(***************************************************************************)
(* The inductive invariants behind EventMatchesOp and WholeSequence.       *)
(***************************************************************************)

\* The client waits for events, and calls, on a connection it has open.
ClientInv ==
    /\ cpc \in {"poll", "rw"} => cur # 0
    /\ cpc = "batch" /\ cur # 0 => cli.last_epoll = Interest(cli.step)

IInv == TypeOK /\ EventMatchesOp /\ ClientInv

\* The operations before a step of the sequence.
Before(step) == SumFunctionOnSet(Counts, 0..step - 1)

\* If the first operation is not repeated, an open connection is at its first
\* step only before its first operation.
CountInv ==
    eops[0].n = 1 =>
        \A k \in Conns : srv[k].state = "open" =>
            srv[k].d.done = Before(srv[k].d.step) + srv[k].d.n
=============================================================================
