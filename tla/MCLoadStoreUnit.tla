--------------------------- MODULE MCLoadStoreUnit ---------------------------
(***************************************************************************)
(* A small program for LoadStoreUnit: a load of two blocks, which two      *)
(* warps may merge, a load through each of the other paths, and a store    *)
(* that may stay in the L1 cache or not.                                   *)
(***************************************************************************)
EXTENDS LoadStoreUnit

LoadOf(path, blocks) == [path |-> path, store |-> FALSE, blocks |-> blocks]
StoreOf(path, blocks) == [path |-> path, store |-> TRUE, blocks |-> blocks]

SmallProgram ==
  {LoadOf("global", <<1, 2>>), LoadOf("const", <<1>>), LoadOf("tex", <<1>>),
   LoadOf("const", <<2>>), LoadOf("bypass", <<1>>), LoadOf("shared", <<>>), StoreOf("local", <<1>>)}

\* L1 caches allocate on a miss; the compressed data cache allocates on a fill,
\* which is where its lines learn their size (gpu-cache.cc:1355).
Policies == [off |-> Cached, adaptive |-> {"const"}]
=============================================================================
