----------------------------- MODULE ShaderCore -----------------------------
(***************************************************************************)
(* The warps of one core between launch and retirement: fetch() and        *)
(* decode() fill the instruction buffers, scheduler_unit::cycle() issues   *)
(* from them along the SIMT stack, barrier_set_t holds warps at barriers.  *)
(* Translated from shader.cc, shader.h and abstract_hardware_model.cc.     *)
(* Memory instructions only leave the pipeline and write their registers   *)
(* later: LoadStoreUnit has the rest.                                      *)
(***************************************************************************)
EXTENDS Integers, SequencesExt, FiniteSets, Bags

CONSTANTS
  NumSlots,   \* CTAs a core holds (max_cta())
  PerCta,     \* warps of a CTA
  Lanes,      \* threads of a warp
  Programs,   \* kernels the core may run, see ShaderCoreAssumption
  BarIds,     \* barriers of a CTA
  None,       \* no program counter, no count, an empty buffer
  MaxCtas,    \* bound: CTAs launched
  MaxMisses   \* bound: instruction cache accesses that do not hit

Slots == 0 .. NumSlots - 1
NumWarps == NumSlots * PerCta
Warps == 0 .. NumWarps - 1
WarpsOf(s) == s * PerCta .. s * PerCta + PerCta - 1
SlotOf(w) == w \div PerCta

\* A program is a sequence of instructions whose index is their pc.  A branch
\* goes to "to" and reconverges at rpc, 0 if only at the end of the kernel; cond
\* tells which lanes may take it.  A barrier counts warps, or all of the CTA
\* (None).
Instruction ==
  [op : {"alu", "load", "bra", "bar", "membar", "exit"},
   regs : SUBSET {"r"}, writes : SUBSET {"r"},
   to : Nat \cup {None}, rpc : Nat \cup {None}, cond : {"any", "some", "odd", "all", None},
   id : BarIds \cup {None}, sync : BOOLEAN, count : Nat \cup {None}]

Successors(p, n) ==
  IF p[n].op = "exit" THEN {0}
  ELSE IF p[n].op = "bra" THEN {p[n].to} \cup (IF p[n].cond = "all" THEN {} ELSE {n + 1})
  ELSE {n + 1}

\* find_postdominators(): the instructions from which every way to the end
\* leads through r.
Before(p, r) ==
  UNION {S \in SUBSET (DOMAIN p \ {r}) :
           \A n \in S : Successors(p, n) \subseteq S \cup {r}}

\* find_ipostdominators(): the first instruction that all ways from n have in
\* common.
Reconverges(p, n, r) ==
  /\ r \in DOMAIN p \cup {0} /\ n \in Before(p, r)
  /\ \A q \in DOMAIN p \cup {0} : n \in Before(p, q) => q = r \/ r \in Before(p, q)

\* There is a way to the end from everywhere ("the flow graph does not have a
\* unique exit" otherwise, ptx_ir.cc:673), and branches on which the lanes of a
\* warp may part know where they meet.
IsProgram(p) ==
  /\ p \in Seq(Instruction) /\ p # <<>> /\ Last(p).op = "exit"
  /\ \A S \in SUBSET DOMAIN p :
       S # {} => \E n \in S : ~(Successors(p, n) \subseteq S)
  /\ \A n \in DOMAIN p : p[n].op = "bra" =>
       /\ p[n].to \in DOMAIN p
       /\ p[n].cond \in {"any", "some"} => Reconverges(p, n, p[n].rpc)

ASSUME ShaderCoreAssumption ==
  /\ NumSlots \in Nat \ {0} /\ PerCta \in Nat \ {0} /\ Lanes # {}
  /\ MaxCtas \in Nat /\ MaxMisses \in Nat
  /\ None \notin Nat /\ None \notin BarIds
  /\ \A p \in Programs : IsProgram(p)

VARIABLES
  program,   \* the kernel
  warp,      \* per warp: shd_warp_t, its threads, SIMT stack and registers
  bars,      \* barrier_set_t
  fetched,   \* m_inst_fetch_buffer: the pc and the warp, or None
  last,      \* m_last_warp_fetched
  launched,  \* bound: CTAs launched so far
  misses,    \* bound: accesses that did not hit so far
  history    \* ghost: rounds of each barrier a warp has reached, and its last sync

vars == <<program, warp, bars, fetched, last, launched, misses, history>>

\* Instruction buffers hold program counters: 0 is an invalid entry, a pc behind
\* the program a valid entry without instruction.
NoWarp ==
  [pc |-> [l \in Lanes |-> None],  \* per thread, None when done
   stack |-> <<>>,                 \* simt_stack, top last
   ibuf |-> <<0, 0>>, next |-> 1,  \* m_ibuffer, m_next
   nextPc |-> None,                \* m_next_pc
   imiss |-> FALSE,                \* m_imiss_pending
   membar |-> FALSE,               \* m_membar
   doneExit |-> TRUE,              \* m_done_exit
   inPipe |-> 0,                   \* m_inst_in_pipeline
   flying |-> EmptyBag,            \* issued and still in the pipeline
   reserved |-> {}]                \* reg_table of the scoreboard

NoHistory == [reached |-> [b \in BarIds |-> 0], sync |-> None]

Init ==
  /\ program \in Programs
  /\ warp = [w \in Warps |-> NoWarp]
  /\ bars = [ctas |-> {}, active |-> {}, at |-> {}, reached |-> [b \in BarIds |-> {}]]
  /\ fetched = None /\ last = 0
  /\ launched = 0 /\ misses = 0
  /\ history = [w \in Warps |-> NoHistory]

FunctionalDone(w) == \A l \in Lanes : warp[w].pc[l] = None
Live(w) == {l \in Lanes : warp[w].pc[l] # None}

-----------------------------------------------------------------------------
(* CTAs.                                                                   *)

\* issue_block2core(): reinit(), init_warps() and allocate_barrier() for the
\* threads of the first free slot.
Launch(s) ==
  /\ s \notin bars.ctas /\ \A t \in Slots : t < s => t \in bars.ctas
  /\ launched < MaxCtas
  /\ launched' = launched + 1
  /\ LET fresh == [NoWarp EXCEPT
                     !.pc = [l \in Lanes |-> 1],
                     !.stack = <<[pc |-> 1, rpc |-> None, mask |-> Lanes]>>,
                     !.nextPc = 1, !.doneExit = FALSE]
     IN warp' = [w \in Warps |-> IF w \in WarpsOf(s) THEN fresh ELSE warp[w]]
  /\ bars' = [ctas |-> bars.ctas \cup {s},
              active |-> bars.active \cup WarpsOf(s),
              at |-> bars.at \ WarpsOf(s),
              reached |-> [b \in BarIds |-> bars.reached[b] \ WarpsOf(s)]]
  /\ history' = [w \in Warps |-> IF w \in WarpsOf(s) THEN NoHistory ELSE history[w]]
  /\ UNCHANGED <<program, fetched, last, misses>>

-----------------------------------------------------------------------------
(* Instruction fetch.                                                      *)

\* Fault: an outstanding miss is not looked at.
FetchableTwice(w) ==
  ~FunctionalDone(w) /\ warp[w].ibuf = <<0, 0>>

\* What fetch() may fetch for.
Fetchable(w) ==
  ~FunctionalDone(w) /\ ~warp[w].imiss /\ warp[w].ibuf = <<0, 0>>

Reclaimable(w) ==
  /\ FunctionalDone(w) /\ warp[w].inPipe = 0
  /\ warp[w].reserved = {} /\ ~warp[w].doneExit

\* Warps in the order of the scan.
Scan(i) == (last + 1 + i) % NumWarps

\* How many warps fetch() looks at: up to the first it fetches for.
Scanned ==
  LET found == {i \in 0 .. NumWarps - 1 : Fetchable(Scan(i))}
  IN IF fetched # None THEN 0
     ELSE IF found = {} THEN NumWarps
     ELSE 1 + (CHOOSE i \in found : \A j \in found : i <= j)

\* fetch(): reclaims finished warps on its way to the first warp it can access
\* the instruction cache for, then hands over the answer of a miss.  The last
\* warp of a CTA frees its slot, deallocate_barrier() its barriers.
Fetch(outcome, answer) ==
  LET scan == {Scan(i) : i \in 0 .. Scanned - 1}
      target == {w \in scan : Fetchable(w)}
      exiting == {w \in scan : Reclaimable(w)}
      free == {s \in bars.ctas : WarpsOf(s) \cap exiting # {} /\
                 \A w \in WarpsOf(s) : w \in exiting \/ warp[w].doneExit}
      gone == UNION {WarpsOf(s) : s \in free}
  IN
  /\ outcome # "hit" => target # {} /\ misses < MaxMisses
  /\ answer # None => warp[answer].imiss
  /\ misses' = IF outcome # "hit" THEN misses + 1 ELSE misses
  /\ last' = IF target = {} THEN last ELSE CHOOSE w \in target : TRUE
  /\ fetched' = IF target # {} /\ outcome = "hit"
                  THEN [warp |-> last', pc |-> warp[last'].nextPc] ELSE fetched
  /\ warp' = [w \in Warps |->
       [warp[w] EXCEPT
          !.doneExit = @ \/ w \in exiting,
          !.imiss = (@ /\ w # answer) \/ (w \in target /\ outcome = "miss")]]
  /\ bars' = [ctas |-> bars.ctas \ free, active |-> bars.active \ gone,
              at |-> bars.at \ gone,
              reached |-> [b \in BarIds |-> bars.reached[b] \ gone]]
  /\ UNCHANGED <<program, launched, history>>

FetchCycle == \E outcome \in {"hit", "miss", "fail"}, answer \in Warps \cup {None} :
  Fetch(outcome, answer)

\* Fault: the second instruction is not counted.
DecodeOne ==
  /\ fetched # None
  /\ LET w == fetched.warp
         two == fetched.pc < Len(program)
     IN warp' = [warp EXCEPT
          ![w].ibuf = <<fetched.pc, IF two THEN fetched.pc + 1 ELSE @[2]>>,
          ![w].next = 1,
          ![w].inPipe = @ + 1]
  /\ fetched' = None
  /\ UNCHANGED <<program, bars, last, launched, misses, history>>

\* decode(): one or two instructions for the instruction buffer.
Decode ==
  /\ fetched # None
  /\ LET w == fetched.warp
         two == fetched.pc < Len(program)
     IN warp' = [warp EXCEPT
          ![w].ibuf = <<fetched.pc, IF two THEN fetched.pc + 1 ELSE @[2]>>,
          ![w].next = 1,
          ![w].inPipe = @ + (IF two THEN 2 ELSE 1)]
  /\ fetched' = None
  /\ UNCHANGED <<program, bars, last, launched, misses, history>>

-----------------------------------------------------------------------------
(* Barriers.                                                               *)

\* Fault: the barrier itself forgets nobody when it releases.
ReachesStale(w, i) ==
  LET arrived == bars.reached[i.id] \cup {w}
      waiting == IF i.sync THEN bars.at \cup {w} ELSE bars.at
      here == WarpsOf(SlotOf(w)) \cap arrived
      released == IF i.count = None
                    THEN here = WarpsOf(SlotOf(w)) \cap bars.active
                    ELSE Cardinality(here) = i.count
  IN [bars EXCEPT !.reached[i.id] = arrived,
                  !.at = IF released THEN waiting \ here ELSE waiting]

\* warp_reaches_barrier(): the warp that makes the barrier complete releases
\* all that have reached it.
Reaches(w, i) ==
  LET arrived == bars.reached[i.id] \cup {w}
      waiting == IF i.sync THEN bars.at \cup {w} ELSE bars.at
      here == WarpsOf(SlotOf(w)) \cap arrived
      released == IF i.count = None
                    THEN here = WarpsOf(SlotOf(w)) \cap bars.active
                    ELSE Cardinality(here) = i.count
  IN [bars EXCEPT !.reached[i.id] = IF released THEN arrived \ here ELSE arrived,
                  !.at = IF released THEN waiting \ here ELSE waiting]

\* Fault: the exit of a warp releases nobody.
WarpExitSilent(w) == [bars EXCEPT !.active = @ \ {w}]

\* barrier_set_t::warp_exit(): a barrier is complete as well when all warps
\* that are left have reached it.
WarpExit(w) ==
  LET active == bars.active \ {w}
      here(b) == WarpsOf(SlotOf(w)) \cap bars.reached[b]
      complete == {b \in BarIds : here(b) = WarpsOf(SlotOf(w)) \cap active}
  IN [bars EXCEPT
        !.active = active,
        !.reached = [b \in BarIds |-> IF b \in complete THEN @[b] \ here(b) ELSE @[b]],
        !.at = @ \ UNION {here(b) : b \in complete}]

-----------------------------------------------------------------------------
(* Issue.                                                                  *)

\* Lanes that may take a branch: any, any of an even warp and all of an odd
\* one, all of an odd one, all.
Takers(i, w, mask) ==
  IF i.op # "bra" THEN {{}}
  ELSE IF i.cond = "any" \/ (i.cond = "some" /\ w % 2 = 0) THEN SUBSET mask
  ELSE {IF i.cond = "all" \/ w % 2 = 1 THEN mask ELSE {}}

\* Next pc of every thread once the lanes of mask have executed i at pc.
Executed(w, i, pc, mask, taken) ==
  [l \in Lanes |->
     IF l \notin mask THEN warp[w].pc[l]
     ELSE IF i.op = "exit" THEN None
     ELSE IF l \in taken THEN i.to ELSE pc + 1]

\* New entries of the stack for the threads of mask that go on at one of pcs,
\* those that do not branch first.
Entries(pcs, paths, pc, mask, rpc) ==
  LET ordered == (IF pc + 1 \in paths THEN <<pc + 1>> ELSE <<>>)
                   \o SetToSeq(paths \ {pc + 1})
  IN [n \in DOMAIN ordered |->
        [pc |-> ordered[n], rpc |-> rpc, mask |-> {l \in mask : pcs[l] = ordered[n]}]]

\* Fault: the entry under a divergent branch keeps its own pc.
UpdatedLost(stack, pcs, i, pc) ==
  LET top == Last(stack)
      all == {pcs[l] : l \in top.mask} \ {None}
      paths == all \ {top.rpc}
  IN IF Cardinality(all) > 1
       THEN (IF i.rpc # top.rpc THEN stack ELSE Front(stack))
            \o Entries(pcs, paths \ {i.rpc}, pc, top.mask, i.rpc)
       ELSE Front(stack) \o Entries(pcs, paths, pc, top.mask, top.rpc)

\* simt_stack::update(): threads that are done leave the top entry, threads at
\* its reconvergence point wait in the entries below.  If the others go two
\* ways the entry itself waits for the reconvergence of the branch, and an
\* entry for each way that is not there yet comes on top.
Updated(stack, pcs, i, pc) ==
  LET top == Last(stack)
      all == {pcs[l] : l \in top.mask} \ {None}
      paths == all \ {top.rpc}
  IN IF Cardinality(all) > 1
       THEN (IF i.rpc # top.rpc THEN Append(Front(stack), [top EXCEPT !.pc = i.rpc])
             ELSE Front(stack))
            \o Entries(pcs, paths \ {i.rpc}, pc, top.mask, i.rpc)
       ELSE Front(stack) \o Entries(pcs, paths, pc, top.mask, top.rpc)

\* shd_warp_t::waiting(); a memory barrier ends with the last pending write.
Waiting(w) ==
  \/ FunctionalDone(w)
  \/ w \in bars.at
  \/ warp[w].membar /\ warp[w].reserved # {}

Valid(ibuf) == Cardinality({n \in 1 .. 2 : ibuf[n] # 0})

\* A scheduler looks at the next instruction of a warp.
Candidate(w) ==
  ~warp[w].doneExit /\ ~Waiting(w) /\ warp[w].ibuf[warp[w].next] # 0

\* issue_warp(): the instruction is executed and sent into the pipeline.  A
\* thread that is done flushes the buffer; the last one makes the warp exit.
Issue(w) ==
  LET u == warp[w]
      pc == u.ibuf[u.next]
      i == program[pc]
      mask == Last(u.stack).mask
      freed == [u.ibuf EXCEPT ![u.next] = 0]
  IN
  /\ Candidate(w) /\ pc \in DOMAIN program
  /\ pc = Last(u.stack).pc
  /\ i.regs \cap u.reserved = {}
  /\ \E taken \in Takers(i, w, mask) :
       LET pcs == Executed(w, i, pc, mask, taken)
           exits == \A l \in Lanes : pcs[l] = None
       IN
       /\ warp' = [warp EXCEPT ![w] = [u EXCEPT
            !.pc = pcs,
            !.stack = Updated(@, pcs, i, pc),
            !.ibuf = IF i.op = "exit" THEN <<0, 0>> ELSE freed,
            !.inPipe = IF i.op = "exit" THEN @ - Valid(freed) ELSE @,
            !.next = 3 - @,
            !.nextPc = pc + 1,
            !.membar = (i.op = "membar"),
            !.flying = @ (+) SetToBag({pc}),
            !.reserved = @ \cup i.writes]]
       /\ bars' = IF exits THEN WarpExit(w)
                  ELSE IF i.op = "bar" THEN Reaches(w, i)
                  ELSE bars
  /\ history' = IF i.op # "bar" THEN history
                ELSE LET round == history[w].reached[i.id] + 1
                     IN [history EXCEPT
                           ![w].reached[i.id] = round,
                           ![w].sync = IF i.sync
                             THEN [id |-> i.id, round |-> round, count |-> i.count]
                             ELSE @]
  /\ UNCHANGED <<program, fetched, last, launched, misses>>

\* The next instruction is not the one on top of the stack, or there is none:
\* the buffer is flushed and fetching starts again at the top of the stack.
Flush(w) ==
  LET u == warp[w] IN
  /\ Candidate(w)
  /\ u.ibuf[u.next] \notin DOMAIN program \/ u.ibuf[u.next] # Last(u.stack).pc
  /\ warp' = [warp EXCEPT
       ![w].ibuf = <<0, 0>>,
       ![w].inPipe = @ - Valid(u.ibuf),
       ![w].nextPc = Last(u.stack).pc,
       ![w].membar = FALSE]
  /\ UNCHANGED <<program, bars, fetched, last, launched, misses, history>>

-----------------------------------------------------------------------------
\* An instruction leaves the pipeline: writeback() releases its registers, a
\* load releases them when its data has come.
Complete(w) == \E pc \in BagToSet(warp[w].flying) :
  /\ warp' = [warp EXCEPT
       ![w].flying = @ (-) SetToBag({pc}),
       ![w].inPipe = @ - 1,
       ![w].reserved = IF program[pc].op = "load" THEN @ ELSE @ \ program[pc].writes]
  /\ UNCHANGED <<program, bars, fetched, last, launched, misses, history>>

\* The last answer of a load releases a register.
Written(w) == \E r \in warp[w].reserved :
  /\ \A pc \in BagToSet(warp[w].flying) : r \notin program[pc].writes
  /\ warp' = [warp EXCEPT ![w].reserved = @ \ {r}]
  /\ UNCHANGED <<program, bars, fetched, last, launched, misses, history>>

Step ==
  \/ Decode
  \/ \E w \in Warps : Issue(w) \/ Flush(w) \/ Complete(w) \/ Written(w)
  \/ FetchCycle

Next == Step \/ \E s \in Slots : Launch(s)

Spec == Init /\ [][Next]_vars

\* The core is clocked and the memory answers; which warp comes next is open.
FairSpec == Spec /\ WF_vars(Step)

-----------------------------------------------------------------------------
\* The assertions of deallocate_barrier(): when all warps of a CTA have exited,
\* none of them is left in a barrier.
NobodyLeftAtBarrier == \A s \in Slots :
  WarpsOf(s) \cap bars.active = {} =>
    /\ WarpsOf(s) \cap bars.at = {}
    /\ \A b \in BarIds : WarpsOf(s) \cap bars.reached[b] = {}

\* "release waiting warps" when the "required number of warps have reached
\* barrier": a warp that has gone on after bar.sync finds that as many warps as
\* the barrier counts have reached it as often as itself, or all warps of the
\* CTA that are still running; and no warp is left behind when the CTA ends.
BarriersHold == NobodyLeftAtBarrier /\ \A w \in Warps \ bars.at :
  LET s == history[w].sync
      with == {v \in WarpsOf(SlotOf(w)) : history[v].reached[s.id] >= s.round}
  IN s # None =>
       \/ s.count # None /\ Cardinality(with) >= s.count
       \/ WarpsOf(SlotOf(w)) \cap bars.active \subseteq with

\* The assertions of ptx_exec_inst() and simt_stack::update(): the stack holds
\* the running threads and no others, but for an entry that waits for the end of
\* the kernel, a thread stands at the pc of the topmost entry it is in, and each
\* of its entries reconverges where the next one waits.
StackMatchesThreads == \A w \in Warps :
  LET u == warp[w]
      entries(l) == {n \in DOMAIN u.stack : l \in u.stack[n].mask}
  IN
  /\ \A n \in DOMAIN u.stack :
       u.stack[n].mask # {} /\ (u.stack[n].pc # 0 => u.stack[n].mask \subseteq Live(w))
  /\ \A l \in Live(w) : entries(l) # {}
  /\ \A l \in Live(w) : \A n \in entries(l) :
       LET above == {m \in entries(l) : m > n}
       IN IF above = {} THEN u.pc[l] = u.stack[n].pc
          ELSE \A m \in above :
                 (\A k \in above : m <= k) => u.stack[m].rpc = u.stack[n].pc

\* inst_in_pipeline(), on which the retirement of a warp depends, counts what is
\* in its buffer and in the pipeline through flushes by branches and exits.
PipelineCountMatches == \A w \in Warps :
  warp[w].inPipe = Valid(warp[w].ibuf) + BagCardinality(warp[w].flying)

\* What is fetched or awaited from the instruction cache is for a running warp
\* with an empty buffer, which decode() may overwrite, and still its next pc.
FetchIsCurrent == \A w \in Warps :
  LET mine == fetched # None /\ fetched.warp = w IN
  /\ mine \/ warp[w].imiss => ~FunctionalDone(w) /\ warp[w].ibuf = <<0, 0>>
  /\ mine => fetched.pc = warp[w].nextPc /\ ~warp[w].imiss

\* Every CTA ends, whatever its warps do at branches and barriers.
CtasComplete == \A s \in Slots : []<>(s \notin bars.ctas)
=============================================================================
