----------------------------- MODULE MCStartup -----------------------------
(***************************************************************************)
(* Startup for a target with two operations, four slots and parameters of  *)
(* three bits.                                                             *)
(***************************************************************************)
EXTENDS Startup

\* Negative shares, shares that are too large and a missing or an extra
\* operation are things a configuration file may contain.
SmallLists == UNION {[1 .. n -> -1 .. 5] : n \in 0 .. 2} \cup [1 .. 3 -> {0, 2}]

Arg(opt, idx, val) == [opt |-> opt, idx |-> idx, val |-> val]
Default(n, s) == <<Arg("t", 0, 2), Arg("n", 0, n), Arg("d", 0, 1), Arg("s", 0, s)>>

\* What a user may write instead of or after one of the default arguments.
Extra ==
  {Arg("t", 0, 3), Arg("s", 0, UINT32_MAX + 2), Arg("x", 0, 0), Arg("d", 0, -1)}
    \cup {Arg("op", o, v) : o \in (0 .. NumOps) \cup {UINT32_MAX + 1}, v \in {1, 6, UINT32_MAX}}

SmallArgLists ==
  {Default(n, s) : n, s \in {0, UINT32_MAX}}
    \cup {[Default(0, 0) EXCEPT ![k] = a] : k \in 1 .. 4, a \in Extra}
    \cup {Append(Default(0, 0), a) : a \in Extra}
    \cup {Default(0, 0) \o <<a, b>> : a, b \in Extra}
=============================================================================
