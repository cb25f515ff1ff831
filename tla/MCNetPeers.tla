---------------------------- MODULE MCNetPeers ----------------------------
(***************************************************************************)
(* Small instances of NetPeers.                                            *)
(***************************************************************************)
EXTENDS NetPeers, TLC

Sends(n, sz) == [n |-> n, is_write |-> FALSE, sz |-> sz]
Receives(n, sz) == [n |-> n, is_write |-> TRUE, sz |-> sz]

\* Like '1r2-2w1-1r1', which both can finish, '1r2-3w1', in which both wait for
\* a third byte until the client is killed, and '1w1-1r1', in which both wait
\* from the beginning.
ThreeSequences == {(0 :> Sends(1, 2)) @@ (1 :> Receives(2, 1)) @@ (2 :> Sends(1, 1)),
                   (0 :> Sends(1, 2)) @@ (1 :> Receives(3, 1)),
                   (0 :> Receives(1, 1)) @@ (1 :> Sends(1, 1))}

\* The client with every combination of -O and -R.
AllOptions == [only_once : BOOLEAN, retry_on_fail : BOOLEAN]
=============================================================================
