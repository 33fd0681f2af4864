---------------------------- MODULE MCShaderCore ----------------------------
(***************************************************************************)
(* Small kernels for ShaderCore: branches that reconverge and branches     *)
(* that end in an exit, barriers for all warps and for a number of them,   *)
(* and a producer that waits for its consumer.                             *)
(***************************************************************************)
EXTENDS ShaderCore

Plain(op) ==
  [op |-> op, regs |-> {}, writes |-> {}, to |-> None, rpc |-> None, cond |-> None,
   id |-> None, sync |-> FALSE, count |-> None]
Exit == Plain("exit")
Membar == Plain("membar")
Load == [Plain("load") EXCEPT !.regs = {"r"}, !.writes = {"r"}]
Use == [Plain("alu") EXCEPT !.regs = {"r"}]
Bra(cond, to, rpc) == [Plain("bra") EXCEPT !.cond = cond, !.to = to, !.rpc = rpc]
Jump(to) == Bra("all", to, to)
Sync(id, count) == [Plain("bar") EXCEPT !.id = id, !.sync = TRUE, !.count = count]
Arrive(id, count) == [Plain("bar") EXCEPT !.id = id, !.count = count]

\* if (..) use(); else load();
IfThenElse == <<Bra("some", 4, 5), Load, Jump(5), Use, Exit>>

\* if (..) { if (..) use(); use(); } __syncthreads();
NestedIf == <<Bra("some", 5, 5), Bra("some", 4, 4), Use, Use, Sync(0, None), Exit>>

\* if (..) return; __syncthreads();
EarlyReturn == <<Bra("any", 3, 0), Exit, Sync(0, None), Exit>>

\* Two rounds of a counted barrier behind a memory barrier.
TwoRounds == <<Load, Membar, Sync(0, 2), Sync(0, 2), Exit>>

\* Even warps produce, odd warps wait for them.
Produce == <<Bra("odd", 4, 5), Arrive(0, 2), Jump(5), Sync(0, 2), Exit>>

\* Even warps produce and wait until odd warps have consumed.  BarriersHold
\* fails for this kernel, with BarIds = {0, 1}: a warp that has arrived at one
\* barrier and waits at the other is released when the first is complete.
ProduceConsume ==
  <<Bra("odd", 5, 7), Arrive(0, 2), Sync(1, 2), Jump(7),
    Sync(0, 2), Arrive(1, 2), Exit>>

BarrierPair == {ProduceConsume}

Kernels == {IfThenElse, NestedIf, EarlyReturn, TwoRounds, Produce}
=============================================================================
