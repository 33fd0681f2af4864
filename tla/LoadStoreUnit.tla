---------------------------- MODULE LoadStoreUnit ----------------------------
(***************************************************************************)
(* Memory instructions in the cores of one cluster: from their issue,      *)
(* through ldst_unit and the L1 caches, to the write-back of registers and *)
(* the retirement of warps.  Translated from ldst_unit and the scoreboard  *)
(* (shader.cc, scoreboard.cc).  L1 tags, port conflicts and the memory     *)
(* beyond the core are left open, but for the lines reserved in a set; the  *)
(* decompressor of compressed L1 lines is one per cluster, as in the code. *)
(***************************************************************************)
EXTENDS Integers, SequencesExt, FiniteSets, Bags

CONSTANTS
  Cores,         \* cores of the cluster
  Warps,         \* warp slots of a core
  Regs,          \* registers of a warp
  Blocks,        \* cache blocks, all of one set of an L1 cache
  Ways,          \* lines of that set
  Program,       \* memory instructions a warp may issue
  None,          \* an empty register or stage
  Depth,         \* hpcl_dsc_lwm_decomp_cycle
  FifoSize,      \* ldst_unit_response_queue_size
  Compressions,  \* configurations of hpcl_cache_comp_en and hpcl_adaptive_comp_en
  OnMiss,        \* per configuration: paths whose L1 cache allocates on a miss
  MaxIssued      \* bound: memory instructions of a behaviour

Cached == {"const", "local", "global"}
Paths == Cached \cup {"shared", "tex", "bypass"}

\* Instructions behind their issue, with the blocks still to be accessed, last
\* one first; accesses, which are also the answers to them; acknowledgements.
Instructions ==
  [warp : Warps, reg : Regs, path : Paths, store : BOOLEAN, blocks : Seq(Blocks),
   fired : BOOLEAN]
Accesses ==
  [path : Paths \ {"shared"}, warp : Warps, reg : Regs, block : Blocks]
Acks == [path : {"ack"}, warp : Warps]

ASSUME LoadStoreAssumption ==
  /\ Depth \in Nat \ {0} /\ FifoSize \in Nat \ {0} /\ MaxIssued \in Nat
  /\ Program \subseteq [path : Paths, store : BOOLEAN, blocks : Seq(Blocks)]
  /\ \A p \in Program :
       /\ p.store => p.path \notin {"const", "tex"}
       /\ p.path = "shared" => p.blocks = <<>>
       /\ IsInjective(p.blocks)
  /\ Compressions \subseteq {"off", "on", "adaptive"}
  /\ Ways \in Nat \ {0} /\ OnMiss \in [Compressions -> SUBSET Cached]
  /\ None \notin Instructions \cup Accesses

VARIABLES
  compression,  \* the configuration
  mode,         \* what hpcl_dyn_comp::run() returns is CACHE_COMP_ON
  phase,        \* per core and warp slot: "idle", "running", "done" (exited)
  core,         \* per core: ldst_unit, scoreboard and counters of warps
  unit,         \* stages of g_hpcl_decomp_dsc_pl_l1D of the cluster
  issued        \* bound: instructions issued so far

vars == <<compression, mode, phase, core, unit, issued>>

IdleCore ==
  [collecting |-> EmptyBag,  \* instructions in the operand collector
   dispatch |-> None,     \* m_dispatch_reg
   pipe |-> <<None, None, None>>,  \* m_pipeline_reg
   fifo |-> <<>>,         \* m_response_fifo
   tex |-> <<>>,          \* m_fragment_fifo of m_L1T
   waiting |-> {},        \* accesses in MSHRs whose block is being fetched
   ready |-> {},          \* accesses in MSHRs whose block has arrived
   lost |-> {},           \* lines reserved that no fill will come for
   nextGlobal |-> None,   \* m_next_global
   nextWb |-> None,       \* m_next_wb
   arb |-> 0,             \* m_writeback_arb
   pending |-> <<>>,      \* m_pending_writes, by warp and register
   reserved |-> {},       \* reg_table of the scoreboard
   stores |-> [w \in Warps |-> 0],  \* m_stores_outstanding
   inPipe |-> [w \in Warps |-> 0],  \* m_inst_in_pipeline, issued ones
   reads |-> {},          \* read requests in the network and the memory
   writes |-> [w \in Warps |-> 0]]  \* write requests there

Init ==
  /\ compression \in Compressions
  /\ mode = (compression = "on")
  /\ phase = [c \in Cores |-> [w \in Warps |-> "idle"]]
  /\ core = [c \in Cores |-> IdleCore]
  /\ unit = [i \in 1 .. Depth |-> None]
  /\ issued = 0

\* An instruction, an access or a response belongs to a register of a warp.
Key(m) == <<m.warp, m.reg>>

\* The access at the back of the queue of an instruction.
AccessOf(d) ==
  [path |-> d.path, warp |-> d.warp, reg |-> d.reg, block |-> Last(d.blocks)]

-----------------------------------------------------------------------------
(* Warps.                                                                  *)

\* A sample of the predictor may switch compression on.
SwitchOn ==
  /\ compression = "adaptive" /\ ~mode
  /\ mode' = TRUE
  /\ UNCHANGED <<compression, phase, core, unit, issued>>

\* A CTA of one warp takes the slot.  Only a core without threads gets another
\* kernel, and with it what the predictor has learnt of that kernel.
Launch(c, w) ==
  /\ phase[c][w] = "idle"
  /\ phase' = [phase EXCEPT ![c][w] = "running"]
  /\ mode' \in IF compression = "adaptive" /\ \A v \in Warps : phase[c][v] = "idle"
                 THEN BOOLEAN ELSE {mode}
  /\ UNCHANGED <<compression, core, unit, issued>>

\* scheduler_unit::cycle() issues a memory instruction whose registers are
\* not reserved; a load reserves its destination.
Issue(c, w) == \E p \in Program, r \in Regs :
  /\ phase[c][w] = "running" /\ issued < MaxIssued
  /\ <<w, r>> \notin core[c].reserved
  /\ issued' = issued + 1
  /\ core' = [core EXCEPT
       ![c].collecting = @ (+) SetToBag(
          {[warp |-> w, reg |-> r, path |-> p.path, store |-> p.store,
            blocks |-> p.blocks, fired |-> FALSE]}),
       ![c].reserved = IF p.store THEN @ ELSE @ \cup {<<w, r>>},
       ![c].inPipe[w] = @ + 1]
  /\ UNCHANGED <<compression, mode, phase, unit>>

\* All threads of the warp have executed exit.
Exit(c, w) ==
  /\ phase[c][w] = "running"
  /\ phase' = [phase EXCEPT ![c][w] = "done"]
  /\ UNCHANGED <<compression, mode, core, unit, issued>>

HardwareDone(c, w) ==
  phase[c][w] = "done" /\ core[c].stores[w] = 0 /\ core[c].inPipe[w] = 0

PendingWrites(c, w) == \E r \in Regs : <<w, r>> \in core[c].reserved

\* Fault: the scoreboard is not asked.
RetireEarly(c, w) ==
  /\ HardwareDone(c, w)
  /\ phase' = [phase EXCEPT ![c][w] = "idle"]
  /\ UNCHANGED <<compression, mode, core, unit, issued>>

\* fetch() gives up a warp that has exited.
Retire(c, w) ==
  /\ HardwareDone(c, w) /\ ~PendingWrites(c, w)
  /\ phase' = [phase EXCEPT ![c][w] = "idle"]
  /\ UNCHANGED <<compression, mode, core, unit, issued>>

\* ldst_unit::issue(): an instruction leaves the operand collector, whose
\* order is left open.  A load counts an access for each that will be answered.
IssueToUnit(c) == \E d \in BagToSet(core[c].collecting) :
  /\ core[c].dispatch = None
  /\ core' = [core EXCEPT
       ![c].collecting = @ (-) SetToBag({d}),
       ![c].dispatch = d,
       ![c].pending = IF d.store \/ d.path = "shared" THEN @
                      ELSE [k \in DOMAIN @ \cup {Key(d)} |->
                              (IF k \in DOMAIN @ THEN @[k] ELSE 0)
                              + (IF k = Key(d) THEN Len(d.blocks) ELSE 0)]]
  /\ UNCHANGED <<compression, mode, phase, unit, issued>>

-----------------------------------------------------------------------------
(* ldst_unit::cycle() in its order, each stage a function of the core it   *)
(* finds, or the set of cores it may leave.                                *)

WithoutKey(f, k) == [j \in DOMAIN f \ {k} |-> f[j]]

\* Fault: the first answer of a load releases its register.
WrittenFirst(u) ==
  LET k == Key(u.nextWb) IN
  IF u.nextWb.path = "shared" \/ u.pending[k] = 1
    THEN [u EXCEPT !.nextWb = None, !.reserved = @ \ {k},
                   !.pending = WithoutKey(@, k)]
    ELSE [u EXCEPT !.nextWb = None, !.reserved = @ \ {k}, !.pending[k] = @ - 1]

\* writeback(), first part: the register in m_next_wb is written; the last
\* answer releases it.
Written(u) ==
  LET k == Key(u.nextWb) IN
  IF u.nextWb.path = "shared" \/ u.pending[k] = 1
    THEN [u EXCEPT !.nextWb = None, !.reserved = @ \ {k},
                   !.pending = WithoutKey(@, k)]
    ELSE [u EXCEPT !.nextWb = None, !.pending[k] = @ - 1]

ReadyIn(u, paths) == {a \in u.ready : a.path \in paths}

\* What client n of the write-back arbiter may hand over, and what it leaves.
Offers(u, n) ==
  IF n = 0 /\ u.pipe[1] # None
    THEN {[u EXCEPT !.nextWb = u.pipe[1], !.pipe[1] = None,
                    !.inPipe[u.pipe[1].warp] = @ - 1]}
  ELSE IF n = 1 /\ u.tex # <<>> /\ Head(u.tex).here
    THEN {[u EXCEPT !.nextWb = Head(u.tex).access, !.tex = Tail(@)]}
  ELSE IF n = 3 /\ u.nextGlobal # None
    THEN {[u EXCEPT !.nextWb = u.nextGlobal, !.nextGlobal = None]}
  ELSE IF n \in {2, 4}
    THEN {[u EXCEPT !.nextWb = a, !.ready = @ \ {a}] :
            a \in ReadyIn(u, IF n = 2 THEN {"const"} ELSE {"local", "global"})}
  ELSE {}

\* Clients that have something to hand over, counted from m_writeback_arb.
Offering(u) == {i \in 0 .. 4 : Offers(u, (u.arb + i) % 5) # {}}

\* writeback(), second part: the first client from m_writeback_arb on.
NextWriteback(u) ==
  IF u.nextWb # None \/ Offering(u) = {} THEN {u}
  ELSE UNION {{[v EXCEPT !.arb = (n + 1) % 5] : v \in Offers(u, n)} :
                n \in {(u.arb + Min(Offering(u))) % 5}}

\* The shared memory pipeline moves on where the next register is empty.
MovePipe(u) ==
  LET middle == IF u.pipe[1] = None THEN None ELSE u.pipe[2]
  IN [u EXCEPT !.pipe =
        <<IF u.pipe[1] = None THEN u.pipe[2] ELSE u.pipe[1],
          IF middle = None THEN u.pipe[3] ELSE middle,
          IF middle = None THEN None ELSE u.pipe[3]>>]

SameCache(p, q) == p = q \/ {p, q} = {"local", "global"}

\* Accesses in MSHRs for the cache and block of an access.
Awaiting(u, a) ==
  {b \in u.waiting : SameCache(b.path, a.path) /\ b.block = a.block}

\* The front of m_response_fifo, if its destination takes it.
Respond(u, portFree) ==
  IF u.fifo = <<>> THEN u
  ELSE LET m == Head(u.fifo)
           rest == [u EXCEPT !.fifo = Tail(@)]
       IN CASE m.path = "ack" -> [rest EXCEPT !.stores[m.warp] = @ - 1]
            [] m.path = "bypass" ->
                 IF u.nextGlobal = None THEN [rest EXCEPT !.nextGlobal = m] ELSE u
            [] m.path = "tex" /\ portFree ->
                 [rest EXCEPT !.tex = [i \in DOMAIN @ |->
                    IF @[i].access = m THEN [@[i] EXCEPT !.here = TRUE] ELSE @[i]]]
            [] m.path \in Cached /\ portFree ->
                 [rest EXCEPT !.waiting = @ \ Awaiting(u, m),
                              !.ready = @ \cup Awaiting(u, m)]
            [] OTHER -> u

-----------------------------------------------------------------------------
(* The instruction in m_dispatch_reg: one access at a time, from the back. *)

Popped(u) == [u EXCEPT !.dispatch.blocks = Front(@), !.dispatch.fired = FALSE]

\* process_cache_access() with HIT, for a load.
Hit(u) == [Popped(u) EXCEPT !.pending[Key(u.dispatch)] = @ - 1]

\* The line of an access: the constant cache, or the data cache, and the block.
Line(a) == <<IF a.path = "const" THEN "const" ELSE "data", a.block>>

\* A miss allocates the line at once (m_alloc_policy = ON_MISS).
Allocates(a) == a.path \in OnMiss[compression]

\* Lines of the cache of an access that are RESERVED.
Reserved(u, a) ==
  {l \in u.lost \cup {Line(b) : b \in u.waiting} : l[1] = Line(a)[1]}

\* probe() finds all lines of the set reserved, for other blocks.
SetFull(u, a) ==
  Allocates(a) /\ Line(a) \notin Reserved(u, a) /\ Cardinality(Reserved(u, a)) >= Ways

\* RESERVATION_FAIL: no line is left, or MSHRs and the miss queue may be in
\* use by something.
Refused(u, a) ==
  \/ SetFull(u, a)
  \/ \E b \in u.waiting \cup u.ready : SameCache(b.path, a.path)
  \/ a.path # "const" /\ \E w \in Warps : u.writes[w] > 0

\* Fault: a miss in an MSHR entry that waits sends no request, one in an entry
\* that is answering is taken for such.
MissMerged(u) ==
  LET a == AccessOf(u.dispatch)
      waits == [Popped(u) EXCEPT !.waiting = @ \cup {a}]
      answering == \E b \in u.ready : SameCache(b.path, a.path) /\ b.block = a.block
      joined == IF Awaiting(u, a) # {} \/ answering THEN waits
                ELSE [waits EXCEPT !.reads = @ \cup {a}]
  IN {v \in {joined} : ~SetFull(u, a)} \cup {v \in {u} : Refused(u, a)}

\* cache_t::access() that does not hit: the load joins the requests of its
\* block, which is being fetched or has arrived, has it fetched, or is refused.
\* In a cache that allocates on a miss, joining requests that are only being
\* answered reserves a line that nothing fills until the block is fetched anew.
Miss(u) ==
  LET a == AccessOf(u.dispatch)
      waits == [Popped(u) EXCEPT !.waiting = @ \cup {a}]
      answering == \E b \in u.ready : SameCache(b.path, a.path) /\ b.block = a.block
      joined ==
        IF Awaiting(u, a) # {} THEN waits
        ELSE IF answering
          THEN [Popped(u) EXCEPT !.ready = @ \cup {a},
                  !.lost = @ \cup {l \in {Line(a)} : Allocates(a)}]
        ELSE [waits EXCEPT !.reads = @ \cup {a}, !.lost = @ \ {Line(a)}]
  IN {v \in {joined} : ~SetFull(u, a)} \cup {v \in {u} : Refused(u, a)}

\* A reserved line cannot hit, nor another one when all of the set are.
MayHit(u) ==
  LET a == AccessOf(u.dispatch) IN Line(a) \notin Reserved(u, a) /\ ~SetFull(u, a)

Load(u) == Miss(u) \cup {Hit(v) : v \in {v \in {u} : MayHit(v)}}

\* tex_cache::access(): "never returns HIT"; a hit waits in the fragment FIFO
\* behind earlier misses.
Texture(u) ==
  LET a == AccessOf(u.dispatch)
      entry(here) == [Popped(u) EXCEPT
                        !.tex = Append(@, [access |-> a, here |-> here])]
  IN {entry(TRUE), [entry(FALSE) EXCEPT !.reads = @ \cup {a}]}
     \cup {v \in {u} : v.tex # <<>>}

\* A store that is sent is counted until its acknowledgement.
Send(u) == [Popped(u) EXCEPT !.stores[u.dispatch.warp] = @ + 1,
                             !.writes[u.dispatch.warp] = @ + 1]

\* wr_hit_global_we_local_wb(): only local data may stay in the L1 cache, and
\* only where it hits; what misses is sent without a line.
Store(u) ==
  LET a == AccessOf(u.dispatch)
      stays == u.dispatch.path = "local" /\ MayHit(u)
  IN {Send(v) : v \in {v \in {u} : ~SetFull(v, a)}}
     \cup {Popped(v) : v \in {v \in {u} : stays}}
     \cup {v \in {u} : Refused(v, a)}

\* memory_cycle() without the L1 cache.
Bypass(u) ==
  IF u.dispatch.store THEN Send(u)
  ELSE [Popped(u) EXCEPT !.reads = @ \cup {AccessOf(u.dispatch)}]

Shifted(stages) == <<None>> \o Front(stages)

\* Fault: an access that is in the decompressor already enters it again.
CompressedAgain(c, u, stages) ==
  IF Last(stages) # None THEN {<<Hit(u), Shifted(stages)>>}
  ELSE {<<v, Shifted(stages)>> : v \in Miss(u)}
       \cup {<<v, [Shifted(stages) EXCEPT
                     ![1] = [core |-> c, access |-> AccessOf(u.dispatch)]]>> :
               v \in {v \in {u} : MayHit(v)}}

\* The L1 data cache in compressed mode: the decompressor moves on; what leaves
\* it answers the present access, whose own hit enters it once.
Compressed(c, u, stages) ==
  IF Last(stages) # None THEN {<<Hit(u), Shifted(stages)>>}
  ELSE IF u.dispatch.fired THEN {<<u, Shifted(stages)>>}
  ELSE {<<v, Shifted(stages)>> : v \in Miss(u)}
       \cup {<<[v EXCEPT !.dispatch.fired = TRUE],
               [Shifted(stages) EXCEPT
                  ![1] = [core |-> c, access |-> AccessOf(u.dispatch)]]>> :
               v \in {v \in {u} : MayHit(v)}}

\* constant_cycle(), texture_cycle() and memory_cycle(): pairs of the core and
\* the decompressor they may leave.
Accessed(c, u, stages, portFree) ==
  LET d == u.dispatch
      plain(cores) == {<<v, stages>> : v \in cores}
  IN IF d = None THEN plain({u})
     ELSE IF d.blocks = <<>> THEN plain({u})
     ELSE IF ~portFree THEN plain({u})
     ELSE CASE d.path = "bypass" -> plain({Bypass(u)})
            [] d.path = "tex" -> plain(Texture(u))
            [] d.path \in Cached /\ d.store -> plain(Store(u))
            [] d.path = "global" /\ ~d.store /\ mode -> Compressed(c, u, stages)
            [] OTHER -> plain(Load(u))

\* Fault: a load whose last access hits is always done.
LeaveHit(u, portFree) ==
  LET d == u.dispatch
      gone == [u EXCEPT !.dispatch = None, !.inPipe[d.warp] = @ - 1]
  IN IF d = None THEN u
     ELSE IF d.blocks # <<>> \/ (d.path = "shared" /\ ~portFree) THEN u
     ELSE IF d.store THEN gone
     ELSE IF d.path = "shared"
       THEN IF u.pipe[3] # None THEN u
            ELSE [u EXCEPT !.dispatch = None, !.pipe[3] = d]
     ELSE IF u.pending[Key(d)] > 1 THEN gone
     ELSE [gone EXCEPT !.pending = WithoutKey(@, Key(d)),
                       !.reserved = @ \ {Key(d)}]

\* The end of cycle(): an instruction without further accesses leaves; a load
\* that waits for no answer releases its register.
Leave(u, portFree) ==
  LET d == u.dispatch
      gone == [u EXCEPT !.dispatch = None, !.inPipe[d.warp] = @ - 1]
  IN IF d = None THEN u
     ELSE IF d.blocks # <<>> \/ (d.path = "shared" /\ ~portFree) THEN u
     ELSE IF d.store THEN gone
     ELSE IF d.path = "shared"
       THEN IF u.pipe[3] # None THEN u
            ELSE [u EXCEPT !.dispatch = None, !.pipe[3] = d]
     ELSE IF u.pending[Key(d)] > 0 THEN gone
     ELSE [gone EXCEPT !.pending = WithoutKey(@, Key(d)),
                       !.reserved = @ \ {Key(d)}]

\* bank: the register file takes m_next_wb; fill: the fill port is free; port:
\* what the present access needs is free, the data port of a cache, a bank of
\* shared memory or the network.
Cycle(c, bank, fill, port) ==
  \E written \in {IF bank /\ core[c].nextWb # None THEN Written(core[c]) ELSE core[c]} :
  \E handed \in NextWriteback(written) :
  \E moved \in {MovePipe(handed)} :
  \E answered \in {Respond(moved, fill)} :
  \E accessed \in Accessed(c, answered, unit, port) :
    /\ core' = [core EXCEPT ![c] = Leave(accessed[1], port)]
    /\ unit' = accessed[2]
    /\ UNCHANGED <<compression, mode, phase, issued>>

\* Free or not, as far as it makes a difference to somebody.
MayBeFree(wanted) == IF wanted THEN BOOLEAN ELSE {TRUE}

LdstCycle(c) ==
  \E bank \in MayBeFree(core[c].nextWb # None),
     fill \in MayBeFree(core[c].fifo # <<>>),
     port \in MayBeFree(core[c].dispatch # None) : Cycle(c, bank, fill, port)

-----------------------------------------------------------------------------
\* The memory answers a request, and the cluster hands the answer to the core
\* when its response FIFO has room.
Reply(c) ==
  /\ Len(core[c].fifo) < FifoSize
  /\ \/ \E a \in core[c].reads :
          core' = [core EXCEPT ![c].reads = @ \ {a}, ![c].fifo = Append(@, a)]
     \/ \E w \in Warps :
          /\ core[c].writes[w] > 0
          /\ core' = [core EXCEPT ![c].writes[w] = @ - 1,
                                  ![c].fifo = Append(@, [path |-> "ack", warp |-> w])]
  /\ UNCHANGED <<compression, mode, phase, unit, issued>>

Next ==
  \/ SwitchOn
  \/ \E c \in Cores :
       \/ \E w \in Warps :
            Launch(c, w) \/ Issue(c, w) \/ Exit(c, w) \/ Retire(c, w)
       \/ IssueToUnit(c) \/ LdstCycle(c) \/ Reply(c)

Spec == Init /\ [][Next]_vars

\* Cores are clocked, ports, banks and the network become free, the memory
\* answers, and fetch() comes to every warp.
FairSpec ==
  /\ Spec
  /\ \A c \in Cores :
       /\ WF_vars(Cycle(c, TRUE, TRUE, TRUE))
       /\ WF_vars(IssueToUnit(c)) /\ WF_vars(Reply(c))
       /\ \A w \in Warps : WF_vars(Retire(c, w))

-----------------------------------------------------------------------------
Keys == Warps \X Regs

\* Instructions of a core that have not left the pipeline, those in the operand
\* collector as pairs with the number of the copy.
InUnit(u) == {u.dispatch, u.pipe[1], u.pipe[2], u.pipe[3]} \ {None}
InPipe(u) == BagToSet(u.collecting) \cup InUnit(u)
Copies(bag) == UNION {{d} \X (1 .. bag[d]) : d \in BagToSet(bag)}

\* How often a warp is named by a stage, by copies and by acknowledgements.
Named(m, w) == IF m # None /\ m.warp = w THEN 1 ELSE 0
CopiesOf(bag, w) == {x \in Copies(bag) : x[1].warp = w}
AcksOf(fifo, w) == {i \in DOMAIN fifo : fifo[i].path = "ack" /\ fifo[i].warp = w}

\* Whether an instruction or access belongs to a load that memory answers.
Answered(m) == m.path \notin {"shared", "ack"} /\ ~("store" \in DOMAIN m /\ m.store)

\* Accesses of loads that have left m_dispatch_reg and are still to be written back.
Outstanding(u) ==
  u.waiting \cup u.ready \cup u.reads
  \cup {m \in ToSet(u.fifo) : m.path # "ack"}
  \cup {e.access : e \in ToSet(u.tex)}
  \cup {m \in {u.nextGlobal, u.nextWb} \ {None} : Answered(m)}

\* The assertion of ldst_unit::writeback(): m_pending_writes counts, for every
\* load in or behind m_dispatch_reg, the accesses that are still to be made or
\* answered, whatever mixture of hits, merged misses and answers they are.
PendingMatches == \A c \in Cores : \A k \in Keys :
  LET u == core[c]
      here == u.dispatch # None /\ Answered(u.dispatch) /\ Key(u.dispatch) = k
      away == {a \in Outstanding(u) : Key(a) = k}
  IN /\ k \in DOMAIN u.pending <=> here \/ away # {}
     /\ k \in DOMAIN u.pending =>
          u.pending[k] = Cardinality(away)
                         + (IF here THEN Len(u.dispatch.blocks) ELSE 0)

\* checkCollision() protects a register exactly as long as a load of it is
\* somewhere between issue and its last write-back: it is neither used before
\* its data has arrived nor blocked for ever.
ReservedUntilWritten == \A c \in Cores : \A k \in Keys :
  k \in core[c].reserved <=>
    \/ \E d \in InPipe(core[c]) : ~d.store /\ Key(d) = k
    \/ \E m \in {core[c].nextWb} \ {None} : Key(m) = k
    \/ k \in DOMAIN core[c].pending

\* inc_store_req() and store_ack(), dec_inst_in_pipeline() and what it counts,
\* with m_pending_writes: hardware_done() holds when nothing of a warp is left,
\* and not before.
CountsMatch == PendingMatches /\ \A c \in Cores : \A w \in Warps :
  LET u == core[c] IN
  /\ u.stores[w] = u.writes[w] + Cardinality(AcksOf(u.fifo, w))
  /\ u.inPipe[w] = Cardinality(CopiesOf(u.collecting, w)) + Named(u.dispatch, w)
       + Named(u.pipe[1], w) + Named(u.pipe[2], w) + Named(u.pipe[3], w)

\* What fetch() has given up for another CTA is not named by anything in the
\* core or on its way to it.
RetiredIsDrained == \A c \in Cores : \A w \in Warps : phase[c][w] = "idle" =>
  LET u == core[c] IN
  /\ \A m \in InPipe(u) \cup Outstanding(u) \cup ToSet(u.fifo)
              \cup ({u.nextWb} \ {None}) : m.warp # w
  /\ u.writes[w] = 0
  /\ \A r \in Regs : <<w, r>> \notin u.reserved

\* What leaves the decompressor answers the present access whatever it is
\* (shader.cc:1504): it holds nothing but the access at the back of the queue
\* of the instruction that put it there, and that once.
UnitHoldsOwn ==
  LET inside == {i \in 1 .. Depth : unit[i] # None} IN
  /\ Cardinality(inside) <= 1
  /\ \A i \in inside :
       LET d == core[unit[i].core].dispatch IN
       d # None /\ d.fired /\ d.blocks # <<>> /\ AccessOf(d) = unit[i].access

\* The present access finds a set full of lines that nothing will fill: only
\* fetching one of their blocks anew would end that, and it is in the way.
Starved(u) ==
  LET a == AccessOf(u.dispatch)
      lost == {l \in u.lost : l[1] = Line(a)[1]}
  IN u.dispatch # None /\ u.dispatch.path \in Cached /\ u.dispatch.blocks # <<>>
     /\ Allocates(a) /\ Line(a) \notin lost /\ Cardinality(lost) >= Ways

\* A warp that has exited is given up some time, hence all its loads write
\* their registers and all its stores are acknowledged, unless misses merged
\* into entries that were being answered (gpu-cache.cc:1467) have reserved the
\* whole set of an access: that is refused for ever, with all behind it.
WarpsRetire == \A c \in Cores : \A w \in Warps :
  []<>(phase[c][w] # "done" \/ Starved(core[c]))
=============================================================================
