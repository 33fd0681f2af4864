--------------------------- MODULE ShaderCoreProofs ---------------------------
(***************************************************************************)
(* A core, for any number of CTAs, warps and lanes and all programs.       *)
(* Between the access to the instruction cache and decode() nothing        *)
(* happens to a warp that would make the instructions the wrong ones; its  *)
(* count of instructions in the pipeline is right; and the entries of its  *)
(* SIMT stack fit its threads, which rests on the reconvergence points     *)
(* being the immediate postdominators of the branches.  Barriers for whole *)
(* CTAs hold all their warps together.                                     *)
(***************************************************************************)
EXTENDS ShaderCore, FiniteSetTheorems, WellFoundedInduction, TLAPS

Fields ==
  {"pc", "stack", "ibuf", "next", "nextPc", "imiss", "membar", "doneExit",
   "inPipe", "flying", "reserved"}

WarpTypes ==
  /\ DOMAIN warp = Warps
  /\ \A w \in Warps :
       /\ DOMAIN warp[w] = Fields
       /\ warp[w].next \in 1 .. 2

FetchTypes ==
  /\ last \in Warps
  /\ fetched # None => fetched.warp \in Warps
  /\ "ctas" \in DOMAIN bars

\* A warp is reclaimed when its threads are done, and a CTA gives its slot back
\* when all its warps are.
ReclaimedAreDone ==
  /\ \A w \in Warps : warp[w].doneExit => FunctionalDone(w)
  /\ \A s \in Slots : s \notin bars.ctas => \A w \in WarpsOf(s) : warp[w].doneExit

FetchInv == WarpTypes /\ FetchTypes /\ ReclaimedAreDone /\ FetchIsCurrent

-----------------------------------------------------------------------------
\* The warps of a CTA are warps of the core, and no others have them.
LEMMA OwnWarps == \A s \in Slots : WarpsOf(s) \subseteq Warps
<1> SUFFICES ASSUME NEW s \in Slots, NEW w \in WarpsOf(s) PROVE w \in Warps
  OBVIOUS
<1>1. PICK n \in Int, p \in Int : n = NumSlots /\ p = PerCta /\ p > 0
  BY ShaderCoreAssumption
<1>2. s \in Int /\ s >= 0 /\ s <= n - 1 /\ w \in Int /\ w >= s * p /\ w <= s * p + p - 1
  BY <1>1, ShaderCoreAssumption DEF Slots, WarpsOf
<1>3. s * p >= 0 /\ (s + 1) * p <= n * p /\ (s + 1) * p = s * p + p
  BY <1>1, <1>2
<1>4. n * p \in Int /\ s * p \in Int
  BY <1>1, <1>2
<1> QED BY <1>1, <1>2, <1>3, <1>4 DEF Warps, NumWarps

LEMMA DisjointWarps ==
  ASSUME NEW s \in Slots, NEW t \in Slots, s # t
  PROVE  WarpsOf(s) \cap WarpsOf(t) = {}
<1>1. PICK p \in Int : p = PerCta /\ p > 0
  BY ShaderCoreAssumption
<1>2. s \in Int /\ t \in Int
  BY ShaderCoreAssumption DEF Slots
<1>3. \A a, b \in Int : a < b => a * p + p <= b * p
  <2> SUFFICES ASSUME NEW a \in Int, NEW b \in Int, a < b PROVE a * p + p <= b * p
    OBVIOUS
  <2>1. (b - a - 1) * p >= 0
    BY <1>1
  <2>2. (b - a - 1) * p = b * p - a * p - p
    BY <1>1
  <2> QED BY <2>1, <2>2, <1>1
<1>4. s * p \in Int /\ t * p \in Int
  BY <1>1, <1>2
<1>5. s < t \/ t < s
  BY <1>2
<1> QED BY <1>1, <1>2, <1>3, <1>4, <1>5 DEF WarpsOf

LEMMA ScanInWarps ==
  ASSUME FetchTypes, NEW i \in Nat PROVE Scan(i) \in Warps
<1>1. NumWarps \in Nat /\ NumWarps > 0
  <2>1. PICK n \in Int, p \in Int : n = NumSlots /\ p = PerCta /\ n > 0 /\ p > 0
    BY ShaderCoreAssumption
  <2>2. n * p \in Int /\ n * p > 0
    BY <2>1
  <2> QED BY <2>1, <2>2 DEF NumWarps
<1>2. last \in Int
  BY <1>1 DEF FetchTypes, Warps
<1>3. \A x \in Int : x % NumWarps \in 0 .. NumWarps - 1
  BY <1>1
<1> QED BY <1>2, <1>3 DEF Scan, Warps

-----------------------------------------------------------------------------
LEMMA InitFetch == Init => FetchInv
<1> SUFFICES ASSUME Init PROVE FetchInv
  OBVIOUS
<1>1. \A w \in Warps : warp[w] = NoWarp
  BY DEF Init
<1>2. 0 \in Warps
  <2>1. PICK n \in Int, p \in Int : n = NumSlots /\ p = PerCta /\ n > 0 /\ p > 0
    BY ShaderCoreAssumption
  <2>2. n * p \in Int /\ n * p > 0
    BY <2>1
  <2> QED BY <2>1, <2>2 DEF NumWarps, Warps
<1>3. WarpTypes
  BY <1>1 DEF Init, WarpTypes, NoWarp, Fields
<1>4. FetchTypes
  BY <1>2 DEF Init, FetchTypes
<1>5. ReclaimedAreDone
  BY <1>1, OwnWarps DEF ReclaimedAreDone, NoWarp, FunctionalDone
<1>6. FetchIsCurrent
  BY <1>1 DEF Init, FetchIsCurrent, NoWarp
<1> QED BY <1>3, <1>4, <1>5, <1>6 DEF FetchInv

\* issue_block2core() gets warps that are done, so nothing is fetched for them.
LEMMA LaunchFetch ==
  ASSUME FetchInv, NEW s \in Slots, Launch(s) PROVE FetchInv'
<1> DEFINE fresh == [NoWarp EXCEPT
                     !.pc = [l \in Lanes |-> 1],
                     !.stack = <<[pc |-> 1, rpc |-> None, mask |-> Lanes]>>,
                     !.nextPc = 1, !.doneExit = FALSE]
<1>1. /\ warp' = [w \in Warps |-> IF w \in WarpsOf(s) THEN fresh ELSE warp[w]]
      /\ s \notin bars.ctas /\ bars'.ctas = bars.ctas \cup {s}
      /\ "ctas" \in DOMAIN bars'
      /\ UNCHANGED <<fetched, last>>
  BY DEF Launch
<1>2. /\ DOMAIN fresh = Fields /\ fresh.next = 1
      /\ fresh.imiss = FALSE /\ fresh.doneExit = FALSE
  BY DEF NoWarp, Fields
<1> HIDE DEF fresh
<1>3. \A w \in WarpsOf(s) : w \in Warps /\ warp[w].doneExit /\ FunctionalDone(w)
  BY <1>1, OwnWarps DEF FetchInv, ReclaimedAreDone
<1>4. /\ \A w \in WarpsOf(s) : warp'[w] = fresh
      /\ \A w \in Warps : w \notin WarpsOf(s) => warp'[w] = warp[w]
  BY <1>1, <1>3
<1>5. WarpTypes'
  BY <1>1, <1>2, <1>4 DEF FetchInv, WarpTypes
<1>6. FetchTypes'
  BY <1>1 DEF FetchInv, FetchTypes
<1>7. ReclaimedAreDone'
  <2>1. \A w \in Warps : warp'[w].doneExit => FunctionalDone(w)'
    BY <1>2, <1>4 DEF FetchInv, ReclaimedAreDone, FunctionalDone
  <2>2. ASSUME NEW t \in Slots, t \notin bars'.ctas, NEW w \in WarpsOf(t)
        PROVE  warp'[w].doneExit
    <3>1. t # s /\ t \notin bars.ctas
      BY <1>1, <2>2
    <3>2. w \notin WarpsOf(s) /\ w \in Warps
      BY <3>1, DisjointWarps, OwnWarps
    <3> QED BY <3>1, <3>2, <1>4 DEF FetchInv, ReclaimedAreDone
  <2> QED BY <2>1, <2>2 DEF ReclaimedAreDone
<1>8. FetchIsCurrent'
  <2> SUFFICES ASSUME NEW w \in Warps
               PROVE  LET mine == fetched # None /\ fetched.warp = w IN
                      /\ mine \/ warp'[w].imiss
                           => ~FunctionalDone(w)' /\ warp'[w].ibuf = <<0, 0>>
                      /\ mine => fetched.pc = warp'[w].nextPc /\ ~warp'[w].imiss
    BY <1>1 DEF FetchIsCurrent
  <2>1. CASE w \in WarpsOf(s)
    BY <2>1, <1>2, <1>3, <1>4 DEF FetchInv, FetchIsCurrent
  <2>2. CASE w \notin WarpsOf(s)
    BY <2>2, <1>4 DEF FetchInv, FetchIsCurrent, FunctionalDone
  <2> QED BY <2>1, <2>2
<1> QED BY <1>5, <1>6, <1>7, <1>8 DEF FetchInv

\* A step that leaves the fetch buffer and the slots alone and touches one warp,
\* which has instructions to issue or of which only the registers, the stages
\* and the counts change.
LEMMA OneWarpFetch ==
  ASSUME FetchInv, NEW w \in Warps, NEW new,
         warp' = [warp EXCEPT ![w] = new],
         UNCHANGED <<fetched, last>>,
         bars'.ctas = bars.ctas, "ctas" \in DOMAIN bars',
         DOMAIN new = Fields, new.next \in 1 .. 2,
         new.imiss = warp[w].imiss, new.doneExit = warp[w].doneExit,
         \/ ~warp[w].doneExit /\ warp[w].ibuf # <<0, 0>>
         \/ /\ new.pc = warp[w].pc
            /\ new.ibuf = warp[w].ibuf /\ new.nextPc = warp[w].nextPc
  PROVE  FetchInv'
<1>1. warp'[w] = new /\ \A v \in Warps : v # w => warp'[v] = warp[v]
  BY DEF FetchInv, WarpTypes
<1>2. WarpTypes'
  BY <1>1 DEF FetchInv, WarpTypes
<1>3. FetchTypes'
  BY DEF FetchInv, FetchTypes
<1>4. \A v \in Warps : warp'[v].doneExit = warp[v].doneExit
  BY <1>1
<1>5. ReclaimedAreDone'
  <2>1. \A v \in Warps : warp'[v].doneExit => FunctionalDone(v)'
    BY <1>1, <1>4 DEF FetchInv, ReclaimedAreDone, FunctionalDone
  <2>2. \A t \in Slots : t \notin bars'.ctas => \A v \in WarpsOf(t) : warp'[v].doneExit
    BY <1>4, OwnWarps DEF FetchInv, ReclaimedAreDone
  <2> QED BY <2>1, <2>2 DEF ReclaimedAreDone
<1>6. FetchIsCurrent'
  <2> SUFFICES ASSUME NEW v \in Warps
               PROVE  LET mine == fetched # None /\ fetched.warp = v IN
                      /\ mine \/ warp'[v].imiss
                           => ~FunctionalDone(v)' /\ warp'[v].ibuf = <<0, 0>>
                      /\ mine => fetched.pc = warp'[v].nextPc /\ ~warp'[v].imiss
    BY DEF FetchIsCurrent
  <2>1. CASE v # w
    BY <2>1, <1>1 DEF FetchInv, FetchIsCurrent, FunctionalDone
  <2>2. CASE v = w /\ warp[w].ibuf # <<0, 0>>
    BY <2>2, <1>1 DEF FetchInv, FetchIsCurrent
  <2>3. CASE /\ v = w /\ new.pc = warp[w].pc
             /\ new.ibuf = warp[w].ibuf /\ new.nextPc = warp[w].nextPc
    BY <2>3, <1>1 DEF FetchInv, FetchIsCurrent, FunctionalDone
  <2> QED BY <2>1, <2>2, <2>3
<1> QED BY <1>2, <1>3, <1>5, <1>6 DEF FetchInv

\* An instruction buffer with something to issue is not empty.
LEMMA CandidateHas ==
  ASSUME FetchInv, NEW w \in Warps, Candidate(w)
  PROVE  ~warp[w].doneExit /\ warp[w].ibuf # <<0, 0>>
  BY DEF Candidate, FetchInv, WarpTypes

LEMMA IssueFetch ==
  ASSUME FetchInv, NEW w \in Warps, Issue(w) PROVE FetchInv'
<1> DEFINE u == warp[w]
           pc == u.ibuf[u.next]
           i == program[pc]
           mask == Last(u.stack).mask
           freed == [u.ibuf EXCEPT ![u.next] = 0]
           new(pcs) == [u EXCEPT
             !.pc = pcs,
             !.stack = Updated(@, pcs, i, pc),
             !.ibuf = IF i.op = "exit" THEN <<0, 0>> ELSE freed,
             !.inPipe = IF i.op = "exit" THEN @ - Valid(freed) ELSE @,
             !.next = 3 - @,
             !.nextPc = pc + 1,
             !.membar = (i.op = "membar"),
             !.flying = @ (+) SetToBag({pc}),
             !.reserved = @ \cup i.writes]
<1>1. PICK pcs :
        /\ warp' = [warp EXCEPT ![w] = new(pcs)]
        /\ bars' = IF \A l \in Lanes : pcs[l] = None THEN WarpExit(w)
                   ELSE IF i.op = "bar" THEN Reaches(w, i)
                   ELSE bars
  BY Zenon DEF Issue
<1>2. Candidate(w) /\ UNCHANGED <<fetched, last>>
  BY DEF Issue
<1>3. bars'.ctas = bars.ctas /\ "ctas" \in DOMAIN bars'
  <2>1. "ctas" \in DOMAIN bars
    BY DEF FetchInv, FetchTypes
  <2>2. CASE bars' = WarpExit(w)
    BY <2>1, <2>2 DEF WarpExit
  <2>3. CASE bars' = Reaches(w, i)
    BY <2>1, <2>3 DEF Reaches
  <2>4. CASE bars' = bars
    BY <2>1, <2>4
  <2> QED BY <1>1, <2>2, <2>3, <2>4, Zenon
<1>4. DOMAIN u = Fields /\ u.next \in 1 .. 2
  BY DEF FetchInv, WarpTypes
<1>5. /\ DOMAIN new(pcs) = Fields
      /\ new(pcs).imiss = u.imiss /\ new(pcs).doneExit = u.doneExit
      /\ new(pcs).next \in 1 .. 2
  <2> DEFINE g(a, b, c, d, e, f, x, y) == [u EXCEPT
                !.pc = a, !.stack = b, !.ibuf = c, !.inPipe = d, !.next = 3 - u.next,
                !.nextPc = e, !.membar = f, !.flying = x, !.reserved = y]
  <2>1. ASSUME NEW a, NEW b, NEW c, NEW d, NEW e, NEW f, NEW x, NEW y, NEW z,
               z = g(a, b, c, d, e, f, x, y)
        PROVE  /\ DOMAIN z = Fields /\ z.imiss = u.imiss /\ z.doneExit = u.doneExit
               /\ z.next = 3 - u.next
    <3> HIDE DEF u
    <3>1. DOMAIN z = Fields
      BY <1>4, <2>1
    <3>2. z.imiss = u.imiss
      BY <1>4, <2>1 DEF Fields
    <3>3. z.doneExit = u.doneExit
      BY <1>4, <2>1 DEF Fields
    <3>4. z.next = 3 - u.next
      BY <1>4, <2>1 DEF Fields
    <3> QED BY <3>1, <3>2, <3>3, <3>4
  <2>2. new(pcs) = g(pcs, Updated(u.stack, pcs, i, pc),
                     IF i.op = "exit" THEN <<0, 0>> ELSE freed,
                     IF i.op = "exit" THEN u.inPipe - Valid(freed) ELSE u.inPipe,
                     pc + 1, i.op = "membar", u.flying (+) SetToBag({pc}),
                     u.reserved \cup i.writes)
    OBVIOUS
  <2> HIDE DEF g
  <2> HIDE DEF new, pc, i, mask, freed
  <2> QED BY <1>4, <2>1, <2>2
<1>6. ~u.doneExit /\ u.ibuf # <<0, 0>>
  BY <1>2, CandidateHas
<1> HIDE DEF u, pc, i, mask, freed, new
<1>7. DOMAIN new(pcs) = Fields /\ new(pcs).imiss = warp[w].imiss
      /\ new(pcs).doneExit = warp[w].doneExit
  BY <1>5 DEF u
<1> QED BY <1>1, <1>2, <1>3, <1>5, <1>6, <1>7, OneWarpFetch DEF u

\* The other steps on one warp.
LEMMA WarpFetch ==
  ASSUME FetchInv, NEW w \in Warps, Flush(w) \/ Complete(w) \/ Written(w)
  PROVE  FetchInv'
<1>1. UNCHANGED <<fetched, last, bars>> /\ "ctas" \in DOMAIN bars
  BY DEF Flush, Complete, Written, FetchInv, FetchTypes
<1>2. DOMAIN warp[w] = Fields /\ warp[w].next \in 1 .. 2
  BY DEF FetchInv, WarpTypes
<1>3. CASE Flush(w)
  <2>1. PICK a, b : warp' = [warp EXCEPT
          ![w].ibuf = <<0, 0>>, ![w].inPipe = a, ![w].nextPc = b, ![w].membar = FALSE]
    BY <1>3, Zenon DEF Flush
  <2> DEFINE new == [warp[w] EXCEPT
          !.ibuf = <<0, 0>>, !.inPipe = a, !.nextPc = b, !.membar = FALSE]
  <2>2. /\ DOMAIN new = Fields /\ new.next = warp[w].next
        /\ new.imiss = warp[w].imiss /\ new.doneExit = warp[w].doneExit
    BY <1>2 DEF Fields
  <2>3. warp' = [warp EXCEPT ![w] = new]
    BY <2>1 DEF FetchInv, WarpTypes
  <2>4. ~warp[w].doneExit /\ warp[w].ibuf # <<0, 0>>
    BY <1>3, CandidateHas DEF Flush
  <2> HIDE DEF new
  <2> QED BY <1>1, <1>2, <2>2, <2>3, <2>4, OneWarpFetch
<1>4. CASE Complete(w)
  <2>1. PICK pc \in BagToSet(warp[w].flying) : warp' = [warp EXCEPT
          ![w].flying = @ (-) SetToBag({pc}),
          ![w].inPipe = @ - 1,
          ![w].reserved = IF program[pc].op = "load" THEN @ ELSE @ \ program[pc].writes]
    BY <1>4 DEF Complete
  <2>2. PICK a, b, c : warp' = [warp EXCEPT
          ![w].flying = a, ![w].inPipe = b, ![w].reserved = c]
    BY <2>1, Zenon
  <2> DEFINE new == [warp[w] EXCEPT !.flying = a, !.inPipe = b, !.reserved = c]
  <2>3. /\ DOMAIN new = Fields /\ new.next = warp[w].next
        /\ new.imiss = warp[w].imiss /\ new.doneExit = warp[w].doneExit
        /\ new.pc = warp[w].pc /\ new.ibuf = warp[w].ibuf
        /\ new.nextPc = warp[w].nextPc
    BY <1>2 DEF Fields
  <2>4. warp' = [warp EXCEPT ![w] = new]
    BY <2>2 DEF FetchInv, WarpTypes
  <2> HIDE DEF new
  <2> QED BY <1>1, <1>2, <2>3, <2>4, OneWarpFetch
<1>5. CASE Written(w)
  BY <1>1, <1>2, <1>5, OneWarpFetch DEF Written, FetchInv, WarpTypes, Fields
<1> QED BY <1>3, <1>4, <1>5

\* decode() empties the fetch buffer, for a warp that awaits no miss.
LEMMA DecodeFetch == ASSUME FetchInv, Decode PROVE FetchInv'
<1>1. PICK w \in Warps : w = fetched.warp /\ fetched # None /\ ~warp[w].imiss
                         /\ ~FunctionalDone(w)
  BY DEF Decode, FetchInv, FetchTypes, FetchIsCurrent
<1>2. fetched' = None /\ UNCHANGED <<last, bars>>
  BY DEF Decode
<1> DEFINE new(a, b) == [warp[w] EXCEPT !.ibuf = a, !.next = 1, !.inPipe = b]
<1>3. PICK a, b : warp' = [warp EXCEPT ![w].ibuf = a, ![w].next = 1, ![w].inPipe = b]
  BY <1>1, Zenon DEF Decode
<1>4. PICK x : x = new(a, b) /\ warp' = [warp EXCEPT ![w] = x]
  BY <1>3 DEF FetchInv, WarpTypes
<1>5. /\ DOMAIN x = DOMAIN warp[w] /\ x.next = 1 /\ x.pc = warp[w].pc
       /\ x.imiss = warp[w].imiss /\ x.doneExit = warp[w].doneExit
  BY <1>4 DEF FetchInv, WarpTypes, Fields
<1> HIDE DEF new
<1>6. warp'[w] = x /\ \A v \in Warps : v # w => warp'[v] = warp[v]
  BY <1>4 DEF FetchInv, WarpTypes
<1>7. WarpTypes'
  BY <1>4, <1>5, <1>6 DEF FetchInv, WarpTypes
<1>8. FetchTypes'
  BY <1>2 DEF FetchInv, FetchTypes
<1>9. ReclaimedAreDone'
  <2>1. \A v \in Warps : warp'[v].doneExit => FunctionalDone(v)'
    BY <1>5, <1>6 DEF FetchInv, ReclaimedAreDone, FunctionalDone
  <2>2. \A t \in Slots : t \notin bars'.ctas => \A v \in WarpsOf(t) : warp'[v].doneExit
    BY <1>2, <1>5, <1>6, OwnWarps DEF FetchInv, ReclaimedAreDone
  <2> QED BY <2>1, <2>2 DEF ReclaimedAreDone
<1>10. FetchIsCurrent'
  <2> SUFFICES ASSUME NEW v \in Warps
               PROVE  warp'[v].imiss => ~FunctionalDone(v)' /\ warp'[v].ibuf = <<0, 0>>
    BY <1>2 DEF FetchIsCurrent
  <2>1. CASE v = w
    BY <2>1, <1>1, <1>5, <1>6
  <2>2. CASE v # w
    BY <2>2, <1>6 DEF FetchInv, FetchIsCurrent, FunctionalDone
  <2> QED BY <2>1, <2>2
<1> QED BY <1>7, <1>8, <1>9, <1>10 DEF FetchInv

\* fetch() starts an access only while the buffer is empty, for a warp that
\* needs one; it reclaims warps that are done, which have none.
LEMMA FetchFetch ==
  ASSUME FetchInv, NEW outcome \in {"hit", "miss", "fail"},
         NEW answer \in Warps \cup {None}, Fetch(outcome, answer)
  PROVE  FetchInv'
<1> DEFINE scan == {Scan(i) : i \in 0 .. Scanned - 1}
           target == {w \in scan : Fetchable(w)}
           exiting == {w \in scan : Reclaimable(w)}
           free == {s \in bars.ctas : WarpsOf(s) \cap exiting # {} /\
                      \A w \in WarpsOf(s) : w \in exiting \/ warp[w].doneExit}
<1>1. /\ last' = IF target = {} THEN last ELSE CHOOSE w \in target : TRUE
      /\ fetched' = IF target # {} /\ outcome = "hit"
                      THEN [warp |-> last', pc |-> warp[last'].nextPc] ELSE fetched
      /\ warp' = [w \in Warps |->
           [warp[w] EXCEPT
              !.doneExit = @ \/ w \in exiting,
              !.imiss = (@ /\ w # answer) \/ (w \in target /\ outcome = "miss")]]
      /\ bars'.ctas = bars.ctas \ free /\ "ctas" \in DOMAIN bars'
  BY DEF Fetch
<1>2. target \subseteq Warps
  BY ScanInWarps DEF FetchInv
<1>3. target # {} => fetched = None
  BY DEF Scanned
<1>4. \A w \in target : ~FunctionalDone(w) /\ ~warp[w].imiss /\ warp[w].ibuf = <<0, 0>>
  BY DEF Fetchable
<1>5. \A w \in exiting : FunctionalDone(w)
  BY DEF Reclaimable
<1>6. \A s \in free : \A w \in WarpsOf(s) : w \in exiting \/ warp[w].doneExit
  OBVIOUS
<1>7. target # {} => last' \in target
  BY <1>1
<1> HIDE DEF target, exiting, free
<1>8. \A w \in Warps :
        /\ DOMAIN warp'[w] = DOMAIN warp[w]
        /\ warp'[w].next = warp[w].next /\ warp'[w].pc = warp[w].pc
        /\ warp'[w].ibuf = warp[w].ibuf /\ warp'[w].nextPc = warp[w].nextPc
        /\ warp'[w].doneExit <=> (warp[w].doneExit \/ w \in exiting)
        /\ warp'[w].imiss <=> ((warp[w].imiss /\ w # answer)
                               \/ (w \in target /\ outcome = "miss"))
  BY <1>1 DEF FetchInv, WarpTypes, Fields
<1>9. WarpTypes'
  <2>1. DOMAIN warp' = Warps
    BY <1>1
  <2> QED BY <2>1, <1>8 DEF FetchInv, WarpTypes
<1>10. FetchTypes'
  BY <1>1, <1>2, <1>7 DEF FetchInv, FetchTypes
<1>11. ReclaimedAreDone'
  <2>1. \A w \in Warps : warp'[w].doneExit => FunctionalDone(w)'
    BY <1>5, <1>8 DEF FetchInv, ReclaimedAreDone, FunctionalDone
  <2>2. ASSUME NEW s \in Slots, s \notin bars'.ctas, NEW w \in WarpsOf(s)
        PROVE  warp'[w].doneExit
    <3>1. w \in Warps
      BY OwnWarps
    <3>2. s \in free \/ s \notin bars.ctas
      BY <1>1, <2>2
    <3>3. w \in exiting \/ warp[w].doneExit
      BY <3>2, <1>6 DEF FetchInv, ReclaimedAreDone
    <3> QED BY <3>1, <3>3, <1>8
  <2> QED BY <2>1, <2>2 DEF ReclaimedAreDone
<1>12. FetchIsCurrent'
  <2> SUFFICES ASSUME NEW w \in Warps
               PROVE  LET mine == fetched' # None /\ fetched'.warp = w IN
                      /\ mine \/ warp'[w].imiss
                           => ~FunctionalDone(w)' /\ warp'[w].ibuf = <<0, 0>>
                      /\ mine => fetched'.pc = warp'[w].nextPc /\ ~warp'[w].imiss
    BY DEF FetchIsCurrent
  <2>1. FunctionalDone(w)' = FunctionalDone(w)
    BY <1>8 DEF FunctionalDone
  <2>2. warp'[w].imiss => warp[w].imiss \/ (w \in target /\ outcome = "miss")
    BY <1>8
  <2>3. CASE target # {} /\ outcome = "hit"
    <3>1. fetched' = [warp |-> last', pc |-> warp[last'].nextPc] /\ last' \in target
      BY <2>3, <1>1, <1>7
    <3>2. fetched'.warp = last' /\ fetched'.pc = warp[last'].nextPc
      BY <3>1
    <3>3. ~warp'[last'].imiss
      BY <3>1, <2>3, <1>2, <1>4, <1>8
    <3> QED BY <2>1, <2>2, <2>3, <3>1, <3>2, <3>3, <1>4, <1>8 DEF FetchInv, FetchIsCurrent
  <2>4. CASE ~(target # {} /\ outcome = "hit")
    <3>1. fetched' = fetched
      BY <2>4, <1>1
    <3> QED BY <2>1, <2>2, <3>1, <1>3, <1>4, <1>8 DEF FetchInv, FetchIsCurrent
  <2> QED BY <2>3, <2>4
<1> QED BY <1>9, <1>10, <1>11, <1>12 DEF FetchInv

LEMMA FetchStep ==
  ASSUME FetchInv, [Next]_vars PROVE FetchInv'
<1>1. CASE FetchCycle
  BY <1>1, FetchFetch DEF FetchCycle
<1>2. CASE Decode
  BY <1>2, DecodeFetch
<1>3. CASE \E w \in Warps : Issue(w) \/ Flush(w) \/ Complete(w) \/ Written(w)
  BY <1>3, IssueFetch, WarpFetch
<1>4. CASE \E s \in Slots : Launch(s)
  BY <1>4, LaunchFetch
<1>5. CASE UNCHANGED vars
  BY <1>5 DEF vars, FetchInv, WarpTypes, FetchTypes, ReclaimedAreDone, FetchIsCurrent,
              FunctionalDone
<1> QED BY <1>1, <1>2, <1>3, <1>4, <1>5 DEF Next, Step

LEMMA FetchInductive == Spec => []FetchInv
<1>1. FetchInv /\ [Next]_vars => FetchInv'
  BY FetchStep
<1> QED BY <1>1, InitFetch, PTL DEF Spec

\* What fetch() has got or awaits is for a running warp with an empty buffer, and
\* still its next instruction when decode() takes it (shader.cc:634, 665).
THEOREM FetchCurrent == Spec => []FetchIsCurrent
  BY FetchInductive, PTL DEF FetchInv

-----------------------------------------------------------------------------
(* How many elements a bag has, which BagCardinality computes with a        *)
(* recursive function on sets.                                              *)

\* Among sets there is a smallest one.
LEMMA SmallestSet ==
  ASSUME NEW D, IsFiniteSet(D), NEW T \in SUBSET (SUBSET D), T # {}
  PROVE  \E S \in T : \A U \in T : U \subseteq S => U = S
<1>1. IsWellFoundedOn(StrictSubsetOrdering(D), SUBSET D)
  BY FS_StrictSubsetOrderingWellFounded, FS_FiniteSubsetsOfFinite
<1>2. PICK S \in T : \A U \in T : ~(<<U, S>> \in StrictSubsetOrdering(D))
  BY <1>1, WFMin
<1>3. ASSUME NEW U \in T, U \subseteq S PROVE U = S
  BY <1>2, <1>3 DEF StrictSubsetOrdering
<1> QED BY <1>3

Some(S) == CHOOSE e \in S : TRUE

SumOf(f, B, S) == IF S = {} THEN 0 ELSE B[Some(S)] + f[S \ {Some(S)}]

Sums(f, B) == f = [S \in SUBSET DOMAIN B |-> SumOf(f, B, S)]

LEMMA BagCardinalityIs ==
  ASSUME NEW B
  PROVE  BagCardinality(B) = (CHOOSE f : Sums(f, B))[DOMAIN B]
BY DEF BagCardinality, Sums, SumOf, Some

LEMMA SomeIn == \A S : S # {} => Some(S) \in S
BY DEF Some

LEMMA SmallerSet ==
  ASSUME NEW S, IsFiniteSet(S), NEW x \in S
  PROVE  /\ IsFiniteSet(S \ {x}) /\ Cardinality(S) \in Nat
         /\ Cardinality(S \ {x}) \in Nat /\ Cardinality(S \ {x}) = Cardinality(S) - 1
BY FS_RemoveElement, FS_CardinalityType

\* A function defined for the sets of up to n elements.
Partial(f, B, n) ==
  f = [S \in {U \in SUBSET DOMAIN B : Cardinality(U) <= n} |-> SumOf(f, B, S)]

LEMMA PartialExists ==
  ASSUME NEW B, IsFiniteSet(DOMAIN B), NEW n \in Nat, NEW f, Partial(f, B, n)
  PROVE  \E g : Partial(g, B, n + 1)
<1> DEFINE D == {U \in SUBSET DOMAIN B : Cardinality(U) <= n}
           E == {U \in SUBSET DOMAIN B : Cardinality(U) <= n + 1}
<1>1. \A S \in E : IsFiniteSet(S) /\ Cardinality(S) \in Nat
  BY FS_Subset, FS_CardinalityType
<1>2. PICK g : g = [S \in E |-> IF S \in D THEN f[S] ELSE SumOf(f, B, S)]
  OBVIOUS
<1>3. \A S \in D : f[S] = SumOf(f, B, S)
  BY DEF Partial
<1>4. \A S \in E : g[S] = SumOf(f, B, S)
  BY <1>2, <1>3
<1>5. \A S \in D : S \in E /\ g[S] = f[S]
  <2>1. ASSUME NEW S \in D PROVE S \in E
    <3>1. IsFiniteSet(S)
      BY FS_Subset
    <3>2. Cardinality(S) \in Nat
      BY <3>1, FS_CardinalityType
    <3> QED BY <3>2
  <2> QED BY <1>2, <2>1
<1>6. ASSUME NEW S \in E PROVE SumOf(f, B, S) = SumOf(g, B, S)
  <2>1. CASE S = {}
    BY <2>1 DEF SumOf
  <2>2. CASE S # {}
    <3>1. Some(S) \in S
      BY <2>2, SomeIn
    <3>2. S \ {Some(S)} \in D
      BY <1>1, <3>1, SmallerSet
    <3> QED BY <1>5, <3>2, <2>2 DEF SumOf
  <2> QED BY <2>1, <2>2
<1>7. g = [S \in E |-> SumOf(g, B, S)]
  BY <1>2, <1>4, <1>6
<1> QED BY <1>7 DEF Partial

LEMMA LeastNatural ==
  ASSUME NEW T \in SUBSET Nat, T # {}
  PROVE  \E n \in T : \A m \in T : n <= m
<1>1. PICK top \in T : TRUE
  OBVIOUS
<1>2. PICK M : M = {0 .. m : m \in {k \in T : k <= top}}
  OBVIOUS
<1>3. PICK I : I = 0 .. top
  OBVIOUS
<1>4. PICK S \in M : \A U \in M : U \subseteq S => U = S
  <2>1. IsFiniteSet(I)
    BY <1>3, FS_Interval
  <2>2. M # {}
    BY <1>2
  <2>3. M \in SUBSET (SUBSET I)
    BY <1>2, <1>3
  <2> QED BY <2>1, <2>2, <2>3, SmallestSet
<1>5. PICK n \in T : n <= top /\ S = 0 .. n
  BY <1>2, <1>4
<1>6. ASSUME NEW m \in T, m < n PROVE FALSE
  <2>1. 0 .. m \in M
    BY <1>2, <1>5, <1>6
  <2>2. 0 .. m \subseteq 0 .. n /\ n \in 0 .. n /\ n \notin 0 .. m
    BY <1>6
  <2> QED BY <1>4, <1>5, <2>1, <2>2
<1> QED BY <1>6

LEMMA SumsExist ==
  ASSUME NEW B, IsFiniteSet(DOMAIN B)
  PROVE  \E f : Sums(f, B)
<1>1. \A n \in Nat : \E f : Partial(f, B, n)
  <2> SUFFICES ASSUME NEW bad \in Nat, ~ \E f : Partial(f, B, bad) PROVE FALSE
    OBVIOUS
  <2>1. PICK T : T = {m \in Nat : ~ \E f : Partial(f, B, m)}
    OBVIOUS
  <2>2. PICK m \in T : \A l \in T : m <= l
    <3>1. T \in SUBSET Nat /\ T # {}
      BY <2>1
    <3> QED BY <3>1, LeastNatural
  <2>3. m \in Nat /\ ~ \E f : Partial(f, B, m)
    BY <2>1
  <2>4. CASE m = 0
    <3>1. ASSUME NEW S \in SUBSET DOMAIN B PROVE Cardinality(S) <= 0 <=> S = {}
      BY FS_Subset, FS_EmptySet, FS_CardinalityType
    <3>2. {U \in SUBSET DOMAIN B : Cardinality(U) <= 0} = {{}}
      BY <3>1
    <3>3. [S \in {{}} |-> 0]
            = [S \in {{}} |-> SumOf([U \in {{}} |-> 0], B, S)]
      BY DEF SumOf
    <3>4. Partial([S \in {{}} |-> 0], B, 0)
      BY <3>2, <3>3 DEF Partial
    <3> QED BY <2>3, <2>4, <3>4
  <2>5. CASE m # 0
    <3>1. m - 1 \in Nat /\ m - 1 \notin T /\ (m - 1) + 1 = m
      BY <2>2, <2>3, <2>5
    <3>2. PICK f : Partial(f, B, m - 1)
      BY <2>1, <3>1
    <3> QED BY <2>3, <3>1, <3>2, PartialExists
  <2> QED BY <2>4, <2>5
<1>2. PICK n \in Nat : n = Cardinality(DOMAIN B)
  BY FS_CardinalityType
<1>3. PICK f : Partial(f, B, n)
  BY <1>1
<1>4. \A U \in SUBSET DOMAIN B : Cardinality(U) <= n
  BY <1>2, FS_Subset
<1>5. {U \in SUBSET DOMAIN B : Cardinality(U) <= n} = SUBSET DOMAIN B
  BY <1>4
<1> QED BY <1>3, <1>5 DEF Partial, Sums

LEMMA SumsStep ==
  ASSUME NEW B, NEW f, Sums(f, B)
  PROVE  /\ f[{}] = 0
         /\ \A S \in SUBSET DOMAIN B :
              S # {} => f[S] = B[Some(S)] + f[S \ {Some(S)}]
<1>1. \A S \in SUBSET DOMAIN B : f[S] = SumOf(f, B, S)
  BY DEF Sums
<1> QED BY <1>1 DEF SumOf

\* The sum does not depend on the order in which elements are taken out.
LEMMA SumsRemove ==
  ASSUME NEW B, IsFiniteSet(DOMAIN B), B \in [DOMAIN B -> Nat], NEW f, Sums(f, B)
  PROVE  \A S \in SUBSET DOMAIN B :
           f[S] \in Nat /\ \A x \in S : f[S] = B[x] + f[S \ {x}]
<1> DEFINE P(S) == f[S] \in Nat /\ \A x \in S : f[S] = B[x] + f[S \ {x}]
<1> SUFFICES ASSUME NEW bad \in SUBSET DOMAIN B, ~ P(bad) PROVE FALSE
  OBVIOUS
<1>1. PICK T : T = {S \in SUBSET DOMAIN B : ~ P(S)}
  OBVIOUS
<1>2. PICK S \in T : \A U \in T : U \subseteq S => U = S
  <2>1. T \in SUBSET (SUBSET DOMAIN B) /\ T # {}
    BY <1>1
  <2> HIDE DEF P
  <2> QED BY <2>1, SmallestSet
<1>3. S \in SUBSET DOMAIN B /\ ~ P(S)
  BY <1>1
<1>4. \A U \in SUBSET DOMAIN B : U \subseteq S /\ U # S => P(U)
  BY <1>1, <1>2
<1>5. S # {}
  <2>1. f[{}] = 0
    BY SumsStep
  <2>2. P({})
    BY <2>1
  <2> HIDE DEF P
  <2> QED BY <1>3, <2>2
<1>6. PICK c \in S : f[S] = B[c] + f[S \ {c}]
  <2>1. Some(S) \in S
    BY <1>5, SomeIn
  <2>2. f[S] = B[Some(S)] + f[S \ {Some(S)}]
    BY <1>3, <1>5, SumsStep
  <2> QED BY <2>1, <2>2
<1>7. P(S \ {c})
  BY <1>3, <1>4
<1>8. f[S] \in Nat
  BY <1>3, <1>6, <1>7
<1>9. ASSUME NEW x \in S PROVE f[S] = B[x] + f[S \ {x}]
  <2>1. CASE x = c
    BY <1>6, <2>1
  <2>2. CASE x # c
    <3>1. PICK R : R = S \ {c, x}
      OBVIOUS
    <3>2. R = (S \ {c}) \ {x} /\ R = (S \ {x}) \ {c}
      BY <3>1
    <3>3. f[S \ {c}] = B[x] + f[R]
      BY <1>7, <2>2, <3>2
    <3>4. P(S \ {x}) /\ P(R)
      BY <1>3, <1>4, <1>9, <3>2
    <3>5. f[S \ {x}] = B[c] + f[R]
      BY <2>2, <3>2, <3>4
    <3>6. B[x] \in Nat /\ B[c] \in Nat /\ f[R] \in Nat
      BY <1>3, <3>4
    <3> QED BY <1>6, <3>3, <3>5, <3>6
  <2> QED BY <2>1, <2>2
<1> QED BY <1>3, <1>8, <1>9

\* Bags that agree on a set have the same sum on it.
LEMMA SumsAgree ==
  ASSUME NEW B, IsFiniteSet(DOMAIN B), NEW C, NEW f, Sums(f, B), NEW g, Sums(g, C),
         NEW D, D \subseteq DOMAIN B, D \subseteq DOMAIN C, \A x \in D : B[x] = C[x]
  PROVE  f[D] = g[D]
<1> SUFFICES ASSUME f[D] # g[D] PROVE FALSE
  OBVIOUS
<1>1. PICK T : T = {S \in SUBSET D : f[S] # g[S]}
  OBVIOUS
<1>2. PICK S \in T : \A U \in T : U \subseteq S => U = S
  <2>1. T \in SUBSET (SUBSET D) /\ T # {}
    BY <1>1
  <2>2. IsFiniteSet(D)
    BY FS_Subset
  <2> QED BY <2>1, <2>2, SmallestSet
<1>3. S \in SUBSET D /\ f[S] # g[S]
  BY <1>1
<1>4. S # {}
  BY <1>3, SumsStep
<1>5. PICK x \in S : x = Some(S)
  BY <1>4, SomeIn
<1>6. f[S] = B[x] + f[S \ {x}] /\ g[S] = C[x] + g[S \ {x}]
  BY <1>3, <1>4, <1>5, SumsStep
<1>7. f[S \ {x}] = g[S \ {x}]
  BY <1>1, <1>2, <1>3
<1> QED BY <1>3, <1>6, <1>7

IsFiniteBag(B) == IsFiniteSet(DOMAIN B) /\ B \in [DOMAIN B -> Nat \ {0}]

LEMMA BagEmpty ==
  IsFiniteBag(EmptyBag) /\ BagCardinality(EmptyBag) = 0
<1>1. DOMAIN EmptyBag = {}
  BY DEF EmptyBag, SetToBag
<1>2. IsFiniteBag(EmptyBag)
  BY <1>1, FS_EmptySet DEF EmptyBag, SetToBag, IsFiniteBag
<1>3. PICK f : f = (CHOOSE h : Sums(h, EmptyBag))
  OBVIOUS
<1>4. Sums(f, EmptyBag)
  BY <1>2, <1>3, SumsExist DEF IsFiniteBag
<1> QED BY <1>1, <1>2, <1>3, <1>4, SumsStep, BagCardinalityIs

\* Two bags that differ by one element.
LEMMA BagDiffers ==
  ASSUME NEW B, IsFiniteBag(B), NEW C, IsFiniteBag(C), NEW x \in DOMAIN C,
         DOMAIN C \ {x} = DOMAIN B \ {x}, \A y \in DOMAIN B \ {x} : B[y] = C[y],
         C[x] = 1 + (IF x \in DOMAIN B THEN B[x] ELSE 0)
  PROVE  /\ BagCardinality(B) \in Nat
         /\ BagCardinality(C) = BagCardinality(B) + 1
<1>1. PICK f : f = (CHOOSE h : Sums(h, B))
  OBVIOUS
<1>2. PICK g : g = (CHOOSE h : Sums(h, C))
  OBVIOUS
<1>3. Sums(f, B) /\ Sums(g, C)
  BY <1>1, <1>2, SumsExist DEF IsFiniteBag
<1>4. PICK D : D = DOMAIN B \ {x}
  OBVIOUS
<1>5. f[D] = g[D]
  BY <1>3, <1>4, SumsAgree DEF IsFiniteBag
<1>6. B \in [DOMAIN B -> Nat] /\ C \in [DOMAIN C -> Nat]
  BY DEF IsFiniteBag
<1>7. g[DOMAIN C] = C[x] + g[D]
  BY <1>3, <1>4, <1>6, SumsRemove DEF IsFiniteBag
<1>8. /\ x \in DOMAIN B => f[DOMAIN B] = B[x] + f[D]
      /\ x \notin DOMAIN B => f[DOMAIN B] = f[D]
      /\ f[D] \in Nat /\ f[DOMAIN B] \in Nat
  <2>1. IsFiniteSet(DOMAIN B)
    BY DEF IsFiniteBag
  <2>2. \A S \in SUBSET DOMAIN B :
          f[S] \in Nat /\ \A y \in S : f[S] = B[y] + f[S \ {y}]
    BY <1>3, <1>6, <2>1, SumsRemove
  <2>3. D \in SUBSET DOMAIN B /\ DOMAIN B \in SUBSET DOMAIN B
    BY <1>4
  <2>4. x \notin DOMAIN B => D = DOMAIN B
    BY <1>4
  <2> QED BY <1>4, <2>2, <2>3, <2>4
<1>9. BagCardinality(B) = f[DOMAIN B] /\ BagCardinality(C) = g[DOMAIN C]
  BY <1>1, <1>2, BagCardinalityIs
<1>10. x \in DOMAIN B => B[x] \in Nat
  BY <1>6
<1> QED BY <1>5, <1>7, <1>8, <1>9, <1>10

LEMMA BagAdd ==
  ASSUME NEW B, IsFiniteBag(B), NEW x
  PROVE  /\ IsFiniteBag(B (+) SetToBag({x}))
         /\ BagCardinality(B) \in Nat
         /\ BagCardinality(B (+) SetToBag({x})) = BagCardinality(B) + 1
<1>1. PICK C : C = B (+) SetToBag({x})
  OBVIOUS
<1>2. /\ DOMAIN C = DOMAIN B \cup {x}
      /\ \A y \in DOMAIN B \ {x} : C[y] = B[y]
      /\ C[x] = 1 + (IF x \in DOMAIN B THEN B[x] ELSE 0)
  <2>1. C = [e \in DOMAIN B \cup {x} |->
               (IF e \in DOMAIN B THEN B[e] ELSE 0) + (IF e \in {x} THEN 1 ELSE 0)]
    BY <1>1 DEF (+), SetToBag
  <2>2. DOMAIN C = DOMAIN B \cup {x}
    BY <2>1
  <2>3. \A y \in DOMAIN B : B[y] \in Nat
    BY DEF IsFiniteBag
  <2>4. ASSUME NEW y \in DOMAIN B, y # x PROVE C[y] = B[y]
    BY <2>1, <2>3, <2>4
  <2>5. C[x] = (IF x \in DOMAIN B THEN B[x] ELSE 0) + 1
    BY <2>1
  <2> QED BY <2>2, <2>3, <2>4, <2>5
<1>3. IsFiniteBag(C)
  <2>1. IsFiniteSet(DOMAIN C)
    BY <1>2, FS_AddElement DEF IsFiniteBag
  <2>2. \A y \in DOMAIN C : C[y] \in Nat \ {0}
    BY <1>2 DEF IsFiniteBag
  <2>3. C = [y \in DOMAIN C |-> C[y]]
    BY <1>1 DEF (+)
  <2> QED BY <2>1, <2>2, <2>3 DEF IsFiniteBag
<1>4. BagCardinality(B) \in Nat /\ BagCardinality(C) = BagCardinality(B) + 1
  BY <1>2, <1>3, BagDiffers
<1> QED BY <1>1, <1>3, <1>4

LEMMA BagRemove ==
  ASSUME NEW B, IsFiniteBag(B), NEW x \in DOMAIN B
  PROVE  /\ IsFiniteBag(B (-) SetToBag({x}))
         /\ BagCardinality(B (-) SetToBag({x})) \in Nat
         /\ BagCardinality(B) = BagCardinality(B (-) SetToBag({x})) + 1
<1>1. PICK C : C = B (-) SetToBag({x})
  OBVIOUS
<1>2. PICK F : F = [e \in DOMAIN B |-> IF e \in {x} THEN B[e] - 1 ELSE B[e]]
  OBVIOUS
<1>3. C = [e \in {d \in DOMAIN B : F[d] > 0} |-> F[e]]
  BY <1>1, <1>2 DEF (-), SetToBag
<1>4. \A y \in DOMAIN B : B[y] \in Nat /\ B[y] > 0
  BY DEF IsFiniteBag
<1>5. \A y \in DOMAIN B : F[y] = IF y = x THEN B[y] - 1 ELSE B[y]
  BY <1>2
<1>6. /\ DOMAIN C \subseteq DOMAIN B
      /\ \A y \in DOMAIN B : y # x => y \in DOMAIN C
      /\ \A y \in DOMAIN C : C[y] \in Nat /\ C[y] > 0
      /\ \A y \in DOMAIN C : y # x => C[y] = B[y]
      /\ x \in DOMAIN C => C[x] = B[x] - 1
      /\ x \notin DOMAIN C => B[x] = 1
  BY <1>3, <1>4, <1>5
<1>7. IsFiniteBag(C)
  <2>1. IsFiniteSet(DOMAIN C)
    BY <1>6, FS_Subset DEF IsFiniteBag
  <2>2. C = [y \in DOMAIN C |-> C[y]]
    BY <1>3
  <2> QED BY <1>6, <2>1, <2>2 DEF IsFiniteBag
<1>8. B[x] = 1 + (IF x \in DOMAIN C THEN C[x] ELSE 0)
  BY <1>4, <1>6
<1>9. DOMAIN B \ {x} = DOMAIN C \ {x} /\ \A y \in DOMAIN C \ {x} : C[y] = B[y]
  BY <1>6
<1>10. BagCardinality(C) \in Nat /\ BagCardinality(B) = BagCardinality(C) + 1
  BY <1>7, <1>8, <1>9, BagDiffers
<1> QED BY <1>1, <1>7, <1>10

-----------------------------------------------------------------------------
(* Programs.                                                               *)

LEMMA BeforeStep ==
  ASSUME NEW p, NEW r, NEW n \in Before(p, r)
  PROVE  n \in DOMAIN p /\ n # r /\ Successors(p, n) \subseteq Before(p, r) \cup {r}
BY DEF Before

\* Two instructions do not lead through each other.
LEMMA BeforeOnce ==
  ASSUME NEW p, IsProgram(p), NEW r, NEW q, r \in Before(p, q), q \in Before(p, r)
  PROVE  FALSE
<1>1. PICK S \in SUBSET (DOMAIN p \ {q}) :
        r \in S /\ \A n \in S : Successors(p, n) \subseteq S \cup {q}
  BY DEF Before
<1>2. PICK U \in SUBSET (DOMAIN p \ {r}) :
        q \in U /\ \A n \in U : Successors(p, n) \subseteq U \cup {r}
  BY DEF Before
<1>3. \A n \in S \cup U : Successors(p, n) \subseteq S \cup U
  BY <1>1, <1>2
<1>4. S \cup U \in SUBSET DOMAIN p /\ S \cup U # {}
  BY <1>1, <1>2
<1> QED BY <1>3, <1>4 DEF IsProgram

LEMMA ProgramIs ==
  ASSUME NEW p, IsProgram(p)
  PROVE  /\ Len(p) \in Nat \ {0} /\ DOMAIN p = 1 .. Len(p) /\ p[Len(p)].op = "exit"
         /\ \A n \in DOMAIN p : p[n] \in Instruction
BY DEF IsProgram, Last

\* What follows an instruction that is not an exit.
LEMMA SuccessorIs ==
  ASSUME NEW p, IsProgram(p), NEW n \in DOMAIN p, p[n].op # "exit"
  PROVE  Successors(p, n) \subseteq DOMAIN p /\ n \in Nat /\ n # 0
<1>1. n \in 1 .. Len(p) /\ Len(p) \in Nat /\ n # Len(p)
  BY ProgramIs
<1>2. n + 1 \in DOMAIN p
  BY <1>1, ProgramIs
<1>3. p[n].op = "bra" => p[n].to \in DOMAIN p
  BY DEF IsProgram
<1> QED BY <1>1, <1>2, <1>3 DEF Successors

-----------------------------------------------------------------------------
(* The stack.  at[l] is the pc at which the stack says that lane l goes on,  *)
(* None if it is done, 0 if it is to end.                                  *)

StackEntries == [pc : Nat, rpc : Nat \cup {None}, mask : SUBSET Lanes]

\* The entries a lane is in.
Holds(s, l) == {n \in 1 .. Len(s) : l \in s[n].mask}

IsTop(H, n) == n \in H /\ \A m \in H : m <= n

IsNext(H, n, m) ==
  /\ n \in H /\ m \in H /\ n < m
  /\ \A k \in H : k <= n \/ m <= k

EntryOk(p, s, at, n) ==
  /\ s[n].mask # {} /\ s[n].mask \subseteq s[1].mask
  /\ s[n].pc # 0 => \A l \in s[n].mask : at[l] # None
  /\ n = 1 => s[1].rpc = None /\ s[1].pc \in DOMAIN p \cup {0}
  /\ n # 1 => s[n].rpc \in DOMAIN p \cup {0} /\ s[n].pc \in Before(p, s[n].rpc)

LaneOk(s, at, l) ==
  /\ \E n \in 1 .. Len(s) : IsTop(Holds(s, l), n) /\ s[n].pc = at[l]
  /\ \A n \in 1 .. Len(s) : \A m \in 1 .. Len(s) :
       IsNext(Holds(s, l), n, m) => s[m].rpc = s[n].pc

StackOk(p, s, at) ==
  /\ s \in Seq(StackEntries)
  /\ \A n \in 1 .. Len(s) : EntryOk(p, s, at, n)
  /\ \A l \in Lanes : at[l] # None => LaneOk(s, at, l)

\* The lanes of M go on at r.
Moved(to, at, M, r) == \A l \in Lanes : to[l] = IF l \in M THEN r ELSE at[l]

LEMMA FrontIs ==
  ASSUME NEW T, NEW s \in Seq(T), NEW k \in Nat, k = Len(s), k >= 1
  PROVE  Front(s) = [j \in 1 .. k - 1 |-> s[j]]
BY DEF Front

\* One more element, and the last one replaced.
IsPushed(T, s, e, b) ==
  /\ b \in Seq(T) /\ Len(b) = Len(s) + 1 /\ b[Len(s) + 1] = e
  /\ \A j \in 1 .. Len(s) : b[j] = s[j]

IsReplaced(T, s, e, b) ==
  /\ b \in Seq(T) /\ Len(b) = Len(s) /\ b[Len(s)] = e
  /\ \A j \in 1 .. Len(s) : j # Len(s) => b[j] = s[j]
  /\ b = Append(Front(s), e)

LEMMA PushedIs ==
  ASSUME NEW T, NEW s \in Seq(T), NEW e \in T
  PROVE  IsPushed(T, s, e, s \o <<e>>)
<1>1. PICK b : b = s \o <<e>>
  OBVIOUS
<1>2. /\ b \in Seq(T) /\ Len(b) = Len(s) + 1 /\ b[Len(s) + 1] = e
      /\ \A j \in 1 .. Len(s) : b[j] = s[j]
  BY <1>1
<1> QED BY <1>1, <1>2 DEF IsPushed

LEMMA ReplacedIs ==
  ASSUME NEW T, NEW s \in Seq(T), s # <<>>, NEW e \in T
  PROVE  IsReplaced(T, s, e, Front(s) \o <<e>>)
<1>1. PICK f : f = Front(s)
  OBVIOUS
<1>2. PICK k \in Nat : k = Len(s) /\ k >= 1
  OBVIOUS
<1>3. f = [j \in 1 .. k - 1 |-> s[j]]
  BY <1>1, <1>2, FrontIs
<1>4. f \in Seq(T) /\ Len(f) = k - 1 /\ \A j \in 1 .. k - 1 : f[j] = s[j]
  BY <1>2, <1>3
<1>5. PICK b : b = f \o <<e>>
  OBVIOUS
<1>6. IsPushed(T, f, e, b)
  BY <1>4, <1>5, PushedIs
<1>7. b \in Seq(T) /\ Len(b) = k /\ b[k] = e /\ \A j \in 1 .. k - 1 : b[j] = f[j]
  BY <1>2, <1>4, <1>6 DEF IsPushed
<1>8. \A j \in 1 .. k : j # k => b[j] = s[j]
  BY <1>2, <1>4, <1>7
<1>9. b = Append(f, e)
  BY <1>4, <1>5
<1> QED BY <1>1, <1>2, <1>5, <1>7, <1>8, <1>9 DEF IsReplaced

LEMMA NoneIs == None \notin Nat /\ None # 0
BY ShaderCoreAssumption

LEMMA EntryPc ==
  ASSUME NEW p, IsProgram(p), NEW s, NEW at, StackOk(p, s, at), NEW n \in 1 .. Len(s)
  PROVE  /\ s[n] \in StackEntries /\ s[n].pc \in DOMAIN p \cup {0}
         /\ s[n].pc \in Nat /\ s[n].mask \in SUBSET Lanes
         /\ s[n].rpc \in Nat \cup {None}
         /\ s[n].pc = 0 => n = 1
<1>1. s[n] \in StackEntries
  BY DEF StackOk
<1>2. EntryOk(p, s, at, n)
  BY DEF StackOk
<1>3. s[n].pc \in DOMAIN p \cup {0}
  BY <1>2, BeforeStep DEF EntryOk
<1>4. 0 \notin DOMAIN p
  BY ProgramIs
<1>5. s[n].pc = 0 => n = 1
  BY <1>2, <1>4, BeforeStep DEF EntryOk
<1> QED BY <1>1, <1>3, <1>5 DEF StackEntries

\* The top of the stack replaced by an entry for the same lanes at r.
LEMMA WaitOk ==
  ASSUME NEW p, IsProgram(p), NEW s, NEW at, StackOk(p, s, at), s # <<>>,
         NEW k, k = Len(s), s[k].pc # 0, NEW r \in DOMAIN p \cup {0},
         k # 1 => r \in Before(p, s[k].rpc),
         NEW e, e = [pc |-> r, rpc |-> s[k].rpc, mask |-> s[k].mask],
         NEW b, b = Front(s) \o <<e>>, NEW to, Moved(to, at, s[k].mask, r)
  PROVE  StackOk(p, b, to)
<1>1. k \in Nat /\ k >= 1 /\ \A j \in 1 .. k : s[j] \in StackEntries
  BY DEF StackOk
<1>2. r \in Nat /\ r # None
  BY ProgramIs, NoneIs
<1>3. e \in StackEntries /\ e.pc = r /\ e.rpc = s[k].rpc /\ e.mask = s[k].mask
  BY <1>1, <1>2 DEF StackEntries
<1>4. /\ b \in Seq(StackEntries) /\ Len(b) = k /\ b[k] = e
      /\ \A j \in 1 .. k : j # k => b[j] = s[j]
  <2>1. s \in Seq(StackEntries) /\ k \in Nat /\ k >= 1 /\ e \in StackEntries
    BY <1>1, <1>3 DEF StackOk
  <2>2. IsReplaced(StackEntries, s, e, Front(s) \o <<e>>)
    BY <2>1, ReplacedIs, Zenon
  <2> QED BY <2>2 DEF IsReplaced
<1>5. \A l \in Lanes : to[l] = IF l \in s[k].mask THEN r ELSE at[l]
  BY DEF Moved
<1>6. /\ b \in Seq(StackEntries) /\ Len(b) = k
      /\ \A j \in 1 .. k : b[j].mask = s[j].mask /\ b[j].rpc = s[j].rpc
      /\ \A j \in 1 .. k : j # k => b[j].pc = s[j].pc
      /\ b[k].pc = r
  BY <1>1, <1>3, <1>4
<1>7. ASSUME NEW n \in 1 .. k PROVE EntryOk(p, b, to, n)
  <2>1. EntryOk(p, s, at, n)
    BY <1>7 DEF StackOk
  <2>2. 1 \in 1 .. k /\ k \in 1 .. k
    BY <1>1
  <2>3. s[n].mask \subseteq Lanes
    BY <1>1 DEF StackEntries
  <2>4. \A l \in s[n].mask : at[l] # None => to[l] # None
    BY <1>2, <1>5, <2>3
  <2>5. n = k => \A l \in s[n].mask : to[l] # None
    BY <1>2, <1>5, <2>3
  <2>6. b[n].mask # {} /\ b[n].mask \subseteq b[1].mask
    BY <1>6, <2>1, <2>2 DEF EntryOk
  <2>7. b[n].pc # 0 => \A l \in b[n].mask : to[l] # None
    BY <1>6, <2>1, <2>4, <2>5 DEF EntryOk
  <2>8. n = 1 => b[1].rpc = None /\ b[1].pc \in DOMAIN p \cup {0}
    BY <1>6, <2>1, <2>2 DEF EntryOk
  <2>9. n # 1 => b[n].rpc \in DOMAIN p \cup {0} /\ b[n].pc \in Before(p, b[n].rpc)
    BY <1>6, <2>1 DEF EntryOk
  <2> QED BY <2>6, <2>7, <2>8, <2>9 DEF EntryOk
<1>8. ASSUME NEW l \in Lanes, to[l] # None PROVE LaneOk(b, to, l)
  <2>1. at[l] # None
    <3>1. EntryOk(p, s, at, k)
      BY <1>1 DEF StackOk
    <3>2. l \in s[k].mask => at[l] # None
      BY <3>1 DEF EntryOk
    <3> QED BY <1>8, <1>5, <3>2
  <2>2. LaneOk(s, at, l)
    BY <2>1 DEF StackOk
  <2>3. Holds(b, l) = Holds(s, l)
    BY <1>6 DEF Holds
  <2>4. PICK H : H = Holds(s, l)
    OBVIOUS
  <2>5. \A n \in H : n \in 1 .. k
    BY <2>4 DEF Holds
  <2>6. PICK n \in 1 .. k : IsTop(H, n) /\ s[n].pc = at[l]
    BY <2>2, <2>4 DEF LaneOk
  <2>7. n = k <=> l \in s[k].mask
    <3>1. k \in H <=> l \in s[k].mask
      BY <1>1, <2>4 DEF Holds
    <3>2. n \in H /\ \A m \in H : m <= n
      BY <2>6 DEF IsTop
    <3> QED BY <1>1, <3>1, <3>2
  <2>8. b[n].pc = to[l]
    BY <1>6, <1>5, <2>6, <2>7
  <2>9. ASSUME NEW g \in 1 .. k, NEW m \in 1 .. k, IsNext(H, g, m)
        PROVE  b[m].rpc = b[g].pc
    <3>1. g # k
      BY <1>1, <2>5, <2>9 DEF IsNext
    <3>2. s[m].rpc = s[g].pc
      BY <2>2, <2>4, <2>9 DEF LaneOk
    <3> QED BY <1>6, <3>1, <3>2
  <2>10. \E g \in 1 .. Len(b) : IsTop(Holds(b, l), g) /\ b[g].pc = to[l]
    BY <1>6, <2>3, <2>4, <2>6, <2>8
  <2>11. ASSUME NEW g \in 1 .. Len(b), NEW m \in 1 .. Len(b), IsNext(Holds(b, l), g, m)
        PROVE  b[m].rpc = b[g].pc
    BY <1>6, <2>3, <2>4, <2>9, <2>11
  <2> QED BY <2>10, <2>11 DEF LaneOk
<1> QED BY <1>6, <1>7, <1>8 DEF StackOk

\* The top of the stack removed: its lanes are where it reconverges.
LEMMA PopOk ==
  ASSUME NEW p, IsProgram(p), NEW s, NEW at, StackOk(p, s, at), s # <<>>,
         NEW k, k = Len(s), k # 1, s[k].pc # 0,
         NEW b, b = Front(s), NEW to, Moved(to, at, s[k].mask, s[k].rpc)
  PROVE  StackOk(p, b, to)
<1>1. k \in Nat /\ k >= 2 /\ \A j \in 1 .. k : s[j] \in StackEntries
  BY DEF StackOk
<1>2. EntryOk(p, s, at, k)
  BY <1>1 DEF StackOk
<1>3. s[k].rpc # None /\ s[k].mask \subseteq s[1].mask
  BY <1>1, <1>2, ProgramIs, NoneIs DEF EntryOk
<1>4. b \in Seq(StackEntries) /\ Len(b) = k - 1 /\ \A j \in 1 .. k - 1 : b[j] = s[j]
  <2>1. b = [j \in 1 .. k - 1 |-> s[j]]
    BY <1>1, FrontIs DEF StackOk
  <2> QED BY <1>1, <2>1
<1>5. \A l \in Lanes : to[l] = IF l \in s[k].mask THEN s[k].rpc ELSE at[l]
  BY DEF Moved
<1>6. ASSUME NEW n \in 1 .. k - 1 PROVE EntryOk(p, b, to, n)
  <2>1. EntryOk(p, s, at, n)
    BY <1>1, <1>6 DEF StackOk
  <2>2. s[n].mask \subseteq Lanes
    BY <1>1 DEF StackEntries
  <2>3. \A l \in s[n].mask : at[l] # None => to[l] # None
    BY <1>3, <1>5, <2>2
  <2>4. b[n] = s[n] /\ b[1] = s[1]
    BY <1>1, <1>4
  <2> QED BY <2>1, <2>3, <2>4 DEF EntryOk
<1>7. ASSUME NEW l \in Lanes, to[l] # None PROVE LaneOk(b, to, l)
  <2>1. l \in s[k].mask => at[l] # None
    BY <1>2 DEF EntryOk
  <2>2. LaneOk(s, at, l)
    BY <1>7, <1>5, <2>1 DEF StackOk
  <2>3. PICK H : H = Holds(s, l)
    OBVIOUS
  <2>4. PICK G : G = Holds(b, l)
    OBVIOUS
  <2>5. \A n \in H : n \in 1 .. k
    BY <2>3 DEF Holds
  <2>6. G = H \ {k}
    <3>1. \A n \in 1 .. k - 1 : n \in 1 .. k /\ n # k /\ b[n] = s[n]
      BY <1>1, <1>4
    <3>2. \A n \in 1 .. k : n # k => n \in 1 .. k - 1
      BY <1>1
    <3> QED BY <1>4, <2>3, <2>4, <3>1, <3>2 DEF Holds
  <2>7. ASSUME NEW n \in 1 .. k - 1, NEW m \in 1 .. k - 1, IsNext(G, n, m)
        PROVE  b[m].rpc = b[n].pc
    <3>1. IsNext(H, n, m)
      BY <1>1, <2>5, <2>6, <2>7 DEF IsNext
    <3>2. s[m].rpc = s[n].pc
      BY <1>1, <2>2, <2>3, <3>1 DEF LaneOk
    <3> QED BY <1>4, <3>2
  <2>8. \E n \in 1 .. k - 1 : IsTop(G, n) /\ b[n].pc = to[l]
    <3>1. k \in H <=> l \in s[k].mask
      BY <1>1, <2>3 DEF Holds
    <3>2. CASE l \notin s[k].mask
      <4>1. PICK n \in 1 .. k : IsTop(H, n) /\ s[n].pc = at[l]
        BY <2>2, <2>3 DEF LaneOk
      <4>2. n \in 1 .. k - 1 /\ IsTop(G, n)
        BY <1>1, <2>6, <3>1, <3>2, <4>1 DEF IsTop
      <4> QED BY <1>4, <1>5, <3>2, <4>1, <4>2
    <3>3. CASE l \in s[k].mask
      <4>1. PICK n \in G : \A m \in G : m <= n
        <5>1. PICK T : T = {k - m : m \in G}
          OBVIOUS
        <5>2. \A m \in G : m \in 1 .. k - 1
          BY <1>1, <2>5, <2>6
        <5>3. T \in SUBSET Nat
          BY <1>1, <5>1, <5>2
        <5>4. 1 \in G
          <6>1. 1 \in H
            BY <1>1, <1>3, <2>3, <3>3 DEF Holds
          <6> QED BY <1>1, <2>6, <6>1
        <5>5. T # {}
          BY <5>1, <5>4
        <5>6. PICK d \in T : \A g \in T : d <= g
          BY <5>3, <5>5, LeastNatural
        <5>7. PICK n \in G : d = k - n
          BY <5>1
        <5>8. ASSUME NEW m \in G PROVE m <= n
          <6>1. k - m \in T
            BY <5>1
          <6>2. k - n <= k - m
            BY <5>6, <5>7, <6>1
          <6> QED BY <1>1, <5>2, <6>2
        <5> QED BY <5>8
      <4>2. n \in 1 .. k - 1 /\ IsTop(G, n)
        BY <1>1, <2>5, <2>6, <4>1 DEF IsTop
      <4>3. IsNext(H, n, k)
        BY <1>1, <2>5, <2>6, <3>1, <3>3, <4>1, <4>2 DEF IsNext
      <4>4. s[k].rpc = s[n].pc
        BY <1>1, <2>2, <2>3, <4>2, <4>3 DEF LaneOk
      <4> QED BY <1>4, <1>5, <3>3, <4>2, <4>4
    <3> QED BY <3>2, <3>3
  <2>9. \E g \in 1 .. Len(b) : IsTop(Holds(b, l), g) /\ b[g].pc = to[l]
    BY <1>4, <2>4, <2>8
  <2>10. ASSUME NEW g \in 1 .. Len(b), NEW m \in 1 .. Len(b), IsNext(Holds(b, l), g, m)
        PROVE  b[m].rpc = b[g].pc
    BY <1>4, <2>4, <2>7, <2>10
  <2> QED BY <2>9, <2>10 DEF LaneOk
<1> QED BY <1>4, <1>6, <1>7 DEF StackOk

\* A new entry for lanes that were to go on at r.
LEMMA PushOk ==
  ASSUME NEW p, IsProgram(p), NEW s, NEW at, StackOk(p, s, at),
         NEW k, k = Len(s), k # 0, NEW r \in DOMAIN p \cup {0}, NEW q \in Before(p, r),
         NEW M \in SUBSET Lanes, M # {}, \A l \in M : at[l] = r,
         NEW e, e = [pc |-> q, rpc |-> r, mask |-> M], NEW b, b = s \o <<e>>,
         NEW to, Moved(to, at, M, q)
  PROVE  StackOk(p, b, to)
<1>1. k \in Nat /\ k >= 1 /\ \A j \in 1 .. k : s[j] \in StackEntries
  BY DEF StackOk
<1>2. r \in Nat /\ r # None /\ q \in DOMAIN p /\ q \in Nat /\ q # None
  BY ProgramIs, NoneIs, BeforeStep
<1>3. e \in StackEntries /\ e.pc = q /\ e.rpc = r /\ e.mask = M
  BY <1>2 DEF StackEntries
<1>4. /\ b \in Seq(StackEntries) /\ Len(b) = k + 1 /\ b[k + 1] = e
      /\ \A j \in 1 .. k : b[j] = s[j]
  <2>1. s \in Seq(StackEntries) /\ e \in StackEntries
    BY <1>3 DEF StackOk
  <2>2. IsPushed(StackEntries, s, e, s \o <<e>>)
    BY <2>1, PushedIs, Zenon
  <2> QED BY <2>2 DEF IsPushed
<1>5. \A l \in Lanes : to[l] = IF l \in M THEN q ELSE at[l]
  BY DEF Moved
<1>6. /\ b \in Seq(StackEntries) /\ Len(b) = k + 1
      /\ \A j \in 1 .. k : b[j] = s[j]
      /\ b[k + 1].pc = q /\ b[k + 1].rpc = r /\ b[k + 1].mask = M
  BY <1>1, <1>3, <1>4
<1>7. ASSUME NEW l \in M PROVE l \in s[1].mask /\ LaneOk(s, at, l)
  <2>1. l \in Lanes /\ at[l] # None
    BY <1>2
  <2>2. LaneOk(s, at, l)
    BY <2>1 DEF StackOk
  <2>3. PICK n \in 1 .. k : l \in s[n].mask
    BY <2>2 DEF LaneOk, IsTop, Holds
  <2>4. EntryOk(p, s, at, n)
    BY DEF StackOk
  <2> QED BY <2>2, <2>3, <2>4 DEF EntryOk
<1>8. ASSUME NEW n \in 1 .. k + 1 PROVE EntryOk(p, b, to, n)
  <2>1. 1 \in 1 .. k /\ b[1] = s[1]
    BY <1>1, <1>6
  <2>2. CASE n = k + 1
    <3>1. \A l \in M : to[l] # None
      BY <1>2, <1>5
    <3> QED BY <1>1, <1>2, <1>6, <1>7, <2>1, <2>2, <3>1 DEF EntryOk
  <2>3. CASE n # k + 1
    <3>1. n \in 1 .. k /\ b[n] = s[n]
      BY <1>1, <1>6, <2>3
    <3>2. EntryOk(p, s, at, n) /\ s[n].mask \subseteq Lanes
      BY <1>1, <3>1 DEF StackOk, StackEntries
    <3>3. \A l \in s[n].mask : at[l] # None => to[l] # None
      BY <1>2, <1>5, <3>2
    <3> QED BY <2>1, <3>1, <3>2, <3>3 DEF EntryOk
  <2> QED BY <2>2, <2>3
<1>9. ASSUME NEW l \in Lanes, to[l] # None PROVE LaneOk(b, to, l)
  <2>1. at[l] # None
    BY <1>2, <1>9, <1>5
  <2>2. LaneOk(s, at, l)
    BY <2>1 DEF StackOk
  <2>3. PICK H : H = Holds(s, l)
    OBVIOUS
  <2>4. PICK G : G = Holds(b, l)
    OBVIOUS
  <2>5. \A n \in H : n \in 1 .. k
    BY <2>3 DEF Holds
  <2>6. G = IF l \in M THEN H \cup {k + 1} ELSE H
    <3>1. \A n \in 1 .. k : n \in 1 .. k + 1 /\ b[n] = s[n]
      BY <1>1, <1>6
    <3>2. \A n \in 1 .. k + 1 : n # k + 1 => n \in 1 .. k
      BY <1>1
    <3>3. k + 1 \in 1 .. k + 1
      BY <1>1
    <3> QED BY <1>6, <2>3, <2>4, <3>1, <3>2, <3>3 DEF Holds
  <2>7. PICK n \in 1 .. k : IsTop(H, n) /\ s[n].pc = at[l]
    BY <2>2, <2>3 DEF LaneOk
  <2>8. ASSUME NEW g \in 1 .. k + 1, NEW m \in 1 .. k + 1, IsNext(G, g, m)
        PROVE  b[m].rpc = b[g].pc
    <3>1. g \in 1 .. k /\ g \in H
      BY <1>1, <2>5, <2>6, <2>8 DEF IsNext
    <3>2. CASE m = k + 1
      <4>1. l \in M
        BY <1>1, <2>5, <2>6, <2>8, <3>2 DEF IsNext
      <4>2. g = n
        <5>1. \A j \in H : j <= g
          BY <1>1, <2>5, <2>6, <2>8, <3>2 DEF IsNext
        <5> QED BY <1>1, <2>7, <3>1, <5>1 DEF IsTop
      <4> QED BY <1>6, <2>7, <3>2, <4>1, <4>2
    <3>3. CASE m # k + 1
      <4>1. m \in 1 .. k
        BY <1>1, <3>3
      <4>2. IsNext(H, g, m)
        BY <1>1, <2>5, <2>6, <2>8, <3>1, <3>3 DEF IsNext
      <4>3. s[m].rpc = s[g].pc
        BY <2>2, <2>3, <3>1, <4>1, <4>2 DEF LaneOk
      <4> QED BY <1>6, <3>1, <4>1, <4>3
    <3> QED BY <3>2, <3>3
  <2>9. \E g \in 1 .. k + 1 : IsTop(G, g) /\ b[g].pc = to[l]
    <3>1. CASE l \in M
      <4>1. IsTop(G, k + 1) /\ k + 1 \in 1 .. k + 1
        BY <1>1, <2>5, <2>6, <3>1 DEF IsTop
      <4> QED BY <1>6, <1>5, <3>1, <4>1
    <3>2. CASE l \notin M
      <4>1. IsTop(G, n) /\ n \in 1 .. k + 1
        BY <1>1, <2>6, <2>7, <3>2
      <4> QED BY <1>6, <1>5, <2>7, <3>2, <4>1
    <3> QED BY <3>1, <3>2
  <2>10. \E g \in 1 .. Len(b) : IsTop(Holds(b, l), g) /\ b[g].pc = to[l]
    BY <1>6, <2>4, <2>9
  <2>11. ASSUME NEW g \in 1 .. Len(b), NEW m \in 1 .. Len(b), IsNext(Holds(b, l), g, m)
        PROVE  b[m].rpc = b[g].pc
    BY <1>6, <2>4, <2>8, <2>11
  <2> QED BY <2>10, <2>11 DEF LaneOk
<1> QED BY <1>6, <1>8, <1>9 DEF StackOk

\* Lanes that were to end are done.
LEMMA EndOk ==
  ASSUME NEW p, IsProgram(p), NEW s, NEW at, StackOk(p, s, at),
         NEW to, \A l \in Lanes : to[l] = at[l] \/ (to[l] = None /\ at[l] = 0)
  PROVE  StackOk(p, s, to)
<1>1. ASSUME NEW n \in 1 .. Len(s) PROVE EntryOk(p, s, to, n)
  <2>1. EntryOk(p, s, at, n) /\ s[n] \in StackEntries
    BY DEF StackOk
  <2>2. ASSUME NEW l \in s[n].mask, s[n].pc # 0, at[l] = 0 PROVE FALSE
    <3>1. l \in Lanes /\ at[l] # None
      BY <2>1, <2>2, NoneIs DEF StackEntries
    <3>2. PICK m \in 1 .. Len(s) : IsTop(Holds(s, l), m) /\ s[m].pc = 0
      BY <2>2, <3>1 DEF StackOk, LaneOk
    <3>3. m = 1
      BY <3>2, EntryPc
    <3>4. n = 1
      BY <2>2, <3>2, <3>3 DEF IsTop, Holds
    <3> QED BY <2>2, <3>2, <3>3, <3>4
  <2>3. s[n].pc # 0 => \A l \in s[n].mask : to[l] # None
    BY <2>1, <2>2 DEF EntryOk, StackEntries
  <2> QED BY <2>1, <2>3 DEF EntryOk
<1>2. ASSUME NEW l \in Lanes, to[l] # None PROVE LaneOk(s, to, l)
  BY <1>2 DEF StackOk, LaneOk
<1> QED BY <1>1, <1>2 DEF StackOk

-----------------------------------------------------------------------------
(* Updated.                                                                *)

LEMMA SeqOfSet ==
  /\ SetToSeq({}) = <<>>
  /\ \A x : SetToSeq({x}) = <<x>>
<1>1. SetToSeq({}) = <<>>
  <2>1. PICK f : f = SetToSeq({})
    OBVIOUS
  <2>2. Cardinality({}) = 0
    BY FS_EmptySet
  <2>3. \E g \in [1 .. 0 -> {}] : IsInjective(g)
    <3>1. <<>> \in [1 .. 0 -> {}]
      OBVIOUS
    <3>2. IsInjective(<<>>)
      BY DEF IsInjective
    <3> QED BY <3>1, <3>2
  <2>4. f \in [1 .. 0 -> {}]
    BY <2>1, <2>2, <2>3 DEF SetToSeq
  <2> QED BY <2>1, <2>4
<1>2. ASSUME NEW x PROVE SetToSeq({x}) = <<x>>
  <2>1. PICK f : f = SetToSeq({x})
    OBVIOUS
  <2>2. Cardinality({x}) = 1
    BY FS_Singleton
  <2>3. \E g \in [1 .. 1 -> {x}] : IsInjective(g)
    <3>1. <<x>> \in [1 .. 1 -> {x}]
      OBVIOUS
    <3>2. IsInjective(<<x>>)
      BY DEF IsInjective
    <3> QED BY <3>1, <3>2
  <2>4. f \in [1 .. 1 -> {x}]
    BY <2>1, <2>2, <2>3 DEF SetToSeq
  <2> QED BY <2>1, <2>4
<1> QED BY <1>1, <1>2

Entry(pcs, y, mask, rpc) == [pc |-> y, rpc |-> rpc, mask |-> {l \in mask : pcs[l] = y}]

LEMMA PairIs == ASSUME NEW a, NEW x PROVE <<a>> \o <<x>> = <<a, x>>
<1>1. PICK T : T = {a, x}
  OBVIOUS
<1>2. PICK v : v = <<a>> \o <<x>>
  OBVIOUS
<1>3. v \in Seq(T) /\ Len(v) = 2 /\ v[1] = a /\ v[2] = x
  BY <1>1, <1>2
<1>4. v = [j \in 1 .. 2 |-> IF j = 1 THEN a ELSE x]
  BY <1>3
<1>5. <<a, x>> = [j \in 1 .. 2 |-> IF j = 1 THEN a ELSE x]
  OBVIOUS
<1> QED BY <1>2, <1>4, <1>5

LEMMA EntriesNone ==
  ASSUME NEW pcs, NEW pc, NEW mask, NEW rpc, NEW paths, paths = {}
  PROVE  Entries(pcs, paths, pc, mask, rpc) = <<>>
<1>1. PICK o : o = <<>> \o SetToSeq({})
  OBVIOUS
<1>2. o = <<>>
  BY <1>1, SeqOfSet
<1>3. paths \ {pc + 1} = {} /\ pc + 1 \notin paths
  OBVIOUS
<1>4. Entries(pcs, paths, pc, mask, rpc) = [n \in DOMAIN o |-> Entry(pcs, o[n], mask, rpc)]
  BY <1>1, <1>3 DEF Entries, Entry
<1> QED BY <1>2, <1>4

\* The entries for paths, in the order given.
Ways(pcs, pc, mask, rpc, paths, order) ==
  Entries(pcs, paths, pc, mask, rpc) = [n \in DOMAIN order |-> Entry(pcs, order[n], mask, rpc)]

LEMMA EntriesOne ==
  ASSUME NEW pcs, NEW pc, NEW mask, NEW rpc, NEW x
  PROVE  Ways(pcs, pc, mask, rpc, {x}, <<x>>)
<1>1. PICK o : o = (IF pc + 1 \in {x} THEN <<pc + 1>> ELSE <<>>) \o SetToSeq({x} \ {pc + 1})
  OBVIOUS
<1>2. Entries(pcs, {x}, pc, mask, rpc) = [n \in DOMAIN o |-> Entry(pcs, o[n], mask, rpc)]
  BY <1>1 DEF Entries, Entry
<1>3. o = <<x>>
  <2>1. CASE x = pc + 1
    <3>1. {x} \ {pc + 1} = {} /\ pc + 1 \in {x}
      BY <2>1
    <3>2. o = <<pc + 1>> \o <<>>
      BY <1>1, <2>1, <3>1, SeqOfSet
    <3> QED BY <2>1, <3>2
  <2>2. CASE x # pc + 1
    <3>1. {x} \ {pc + 1} = {x} /\ pc + 1 \notin {x}
      BY <2>2
    <3>2. o = <<>> \o <<x>>
      BY <1>1, <3>1, SeqOfSet
    <3> QED BY <3>2
  <2> QED BY <2>1, <2>2
<1> QED BY <1>2, <1>3 DEF Ways

LEMMA EntriesTwo ==
  ASSUME NEW pcs, NEW pc, NEW mask, NEW rpc, NEW x, NEW y, y = pc + 1, x # y
  PROVE  Ways(pcs, pc, mask, rpc, {y, x}, <<y, x>>)
<1>1. PICK o : o = <<y>> \o SetToSeq({x})
  OBVIOUS
<1>2. {y, x} \ {pc + 1} = {x} /\ pc + 1 \in {y, x}
  OBVIOUS
<1>3. Entries(pcs, {y, x}, pc, mask, rpc) = [n \in DOMAIN o |-> Entry(pcs, o[n], mask, rpc)]
  BY <1>1, <1>2 DEF Entries, Entry
<1>4. o = <<y>> \o <<x>>
  BY <1>1, SeqOfSet
<1>5. o = <<y, x>>
  BY <1>4, PairIs
<1> QED BY <1>3, <1>5 DEF Ways

\* The new entries on top of one that waits at R.
WaysFrom(pcs, y, mask, R, x, new) ==
  /\ y # R /\ x # R => new = <<Entry(pcs, y, mask, R), Entry(pcs, x, mask, R)>>
  /\ y = R => new = <<Entry(pcs, x, mask, R)>>
  /\ x = R => new = <<Entry(pcs, y, mask, R)>>

LEMMA EntriesApart ==
  ASSUME NEW pcs, NEW pc, NEW mask, NEW R, NEW x, NEW y, y = pc + 1, x # y
  PROVE  WaysFrom(pcs, y, mask, R, x, Entries(pcs, {y, x} \ {R}, pc, mask, R))
<1>1. PICK paths : paths = {y, x} \ {R}
  OBVIOUS
<1>2. ASSUME y # R, x # R
      PROVE  Entries(pcs, paths, pc, mask, R)
               = <<Entry(pcs, y, mask, R), Entry(pcs, x, mask, R)>>
  <2>1. paths = {y, x}
    BY <1>1, <1>2
  <2>2. Ways(pcs, pc, mask, R, {y, x}, <<y, x>>)
    BY EntriesTwo, Zenon
  <2>3. [n \in DOMAIN <<y, x>> |-> Entry(pcs, <<y, x>>[n], mask, R)]
          = <<Entry(pcs, y, mask, R), Entry(pcs, x, mask, R)>>
    OBVIOUS
  <2> QED BY <2>1, <2>2, <2>3 DEF Ways
<1>3. ASSUME NEW z
      PROVE  Entries(pcs, {z}, pc, mask, R) = <<Entry(pcs, z, mask, R)>>
  <2>1. Ways(pcs, pc, mask, R, {z}, <<z>>)
    BY EntriesOne, Zenon
  <2>2. [n \in DOMAIN <<z>> |-> Entry(pcs, <<z>>[n], mask, R)] = <<Entry(pcs, z, mask, R)>>
    OBVIOUS
  <2> QED BY <2>1, <2>2 DEF Ways
<1>4. y = R => paths = {x}
  BY <1>1
<1>5. x = R => paths = {y}
  BY <1>1
<1> QED BY <1>1, <1>2, <1>3, <1>4, <1>5 DEF WaysFrom

\* The last thread of a warp and others that are done.
LEMMA ExitOk ==
  ASSUME NEW p, IsProgram(p), NEW s, NEW at, StackOk(p, s, at), s # <<>>,
         NEW k, k = Len(s), NEW pc, pc = s[k].pc, pc \in DOMAIN p, p[pc].op = "exit",
         NEW pcs, Moved(pcs, at, s[k].mask, None)
  PROVE  StackOk(p, Front(s), pcs)
<1>1. k \in Nat /\ k >= 1 /\ \A j \in 1 .. k : s[j] \in StackEntries
  BY DEF StackOk
<1>2. EntryOk(p, s, at, k)
  BY <1>1 DEF StackOk
<1>3. Front(s) = [j \in 1 .. k - 1 |-> s[j]]
  BY <1>1, FrontIs DEF StackOk
<1>4. CASE k = 1
  <2>1. Front(s) = <<>>
    BY <1>3, <1>4
  <2>2. \A l \in Lanes : pcs[l] = None
    <3> SUFFICES ASSUME NEW l \in Lanes, pcs[l] # None PROVE FALSE
      OBVIOUS
    <3>1. l \notin s[1].mask /\ at[l] # None
      BY <1>4 DEF Moved
    <3>2. PICK n \in 1 .. 1 : n \in Holds(s, l)
      BY <1>4, <3>1 DEF StackOk, LaneOk, IsTop
    <3> QED BY <3>1, <3>2 DEF Holds
  <2>3. Len(<<>>) = 0 /\ <<>> \in Seq(StackEntries)
    OBVIOUS
  <2> QED BY <2>1, <2>2, <2>3 DEF StackOk
<1>5. CASE k # 1
  <2>1. pc \in Before(p, s[k].rpc)
    BY <1>2, <1>5 DEF EntryOk
  <2>2. s[k].rpc = 0 /\ pc # 0
    <3>1. 0 \in Before(p, s[k].rpc) \cup {s[k].rpc}
      BY <2>1, BeforeStep DEF Successors
    <3>2. 0 \notin DOMAIN p
      BY ProgramIs
    <3> QED BY <3>1, <3>2, BeforeStep
  <2>3. PICK to : to = [l \in Lanes |-> IF l \in s[k].mask THEN 0 ELSE at[l]]
    OBVIOUS
  <2>4. StackOk(p, Front(s), to)
    <3>1. Moved(to, at, s[k].mask, s[k].rpc)
      BY <2>2, <2>3 DEF Moved
    <3> QED BY <1>5, <2>2, <3>1, PopOk
  <2>5. \A l \in Lanes : pcs[l] = to[l] \/ (pcs[l] = None /\ to[l] = 0)
    BY <2>3 DEF Moved
  <2> QED BY <2>4, <2>5, EndOk
<1> QED BY <1>4, <1>5

\* The threads of the top entry go on together.
LEMMA TogetherOk ==
  ASSUME NEW p, IsProgram(p), NEW s, NEW at, StackOk(p, s, at), s # <<>>,
         NEW k, k = Len(s), NEW pc, pc = s[k].pc, pc \in DOMAIN p, p[pc].op # "exit",
         NEW r \in Successors(p, pc), NEW mask, mask = s[k].mask,
         NEW pcs, Moved(pcs, at, mask, r)
  PROVE  StackOk(p, Front(s) \o Entries(pcs, {r} \ {s[k].rpc}, pc, mask, s[k].rpc), pcs)
<1>1. k \in Nat /\ k >= 1 /\ \A j \in 1 .. k : s[j] \in StackEntries
  BY DEF StackOk
<1>2. EntryOk(p, s, at, k)
  BY <1>1 DEF StackOk
<1>3. PICK q : q = s[k].rpc
  OBVIOUS
<1>4. PICK f : f = Front(s)
  OBVIOUS
<1>5. r \in DOMAIN p /\ pc # 0 /\ r # None
  BY SuccessorIs, ProgramIs, NoneIs
<1>6. mask \in SUBSET Lanes
  BY <1>1 DEF StackEntries
<1>7. CASE r = q
  <2>1. k # 1
    BY <1>2, <1>3, <1>5, <1>7 DEF EntryOk
  <2>2. StackOk(p, f, pcs)
    <3>1. s[k].pc # 0
      BY <1>5
    <3>2. Moved(pcs, at, s[k].mask, s[k].rpc)
      BY <1>3, <1>7
    <3> QED BY <1>4, <2>1, <3>1, <3>2, PopOk
  <2>3. Entries(pcs, {r} \ {q}, pc, mask, q) = <<>>
    <3>1. {r} \ {q} = {}
      BY <1>7
    <3> QED BY <3>1, EntriesNone
  <2>4. f \o <<>> = f
    BY <2>2 DEF StackOk
  <2> QED BY <1>3, <1>4, <2>2, <2>3, <2>4
<1>8. CASE r # q
  <2>1. PICK e : e = [pc |-> r, rpc |-> q, mask |-> mask]
    OBVIOUS
  <2>2. Entries(pcs, {r} \ {q}, pc, mask, q) = <<e>>
    <3>1. {r} \ {q} = {r}
      BY <1>8
    <3>2. {l \in mask : pcs[l] = r} = mask
      BY <1>6 DEF Moved
    <3>3. Entry(pcs, r, mask, q) = e
      BY <2>1, <3>2 DEF Entry
    <3>4. Ways(pcs, pc, mask, q, {r}, <<r>>)
      BY EntriesOne, Zenon
    <3>5. [n \in DOMAIN <<r>> |-> Entry(pcs, <<r>>[n], mask, q)] = <<Entry(pcs, r, mask, q)>>
      OBVIOUS
    <3> QED BY <3>1, <3>3, <3>4, <3>5 DEF Ways
  <2>3. PICK b : b = f \o <<e>>
    OBVIOUS
  <2>4. k # 1 => r \in Before(p, q)
    BY <1>2, <1>3, <1>8, BeforeStep DEF EntryOk
  <2>5. StackOk(p, b, pcs)
    <3>1. s[k].pc # 0 /\ r \in DOMAIN p \cup {0}
      BY <1>5
    <3>2. e = [pc |-> r, rpc |-> s[k].rpc, mask |-> s[k].mask]
      BY <1>3, <2>1
    <3> QED BY <1>3, <1>4, <2>3, <2>4, <3>1, <3>2, WaitOk
  <2> QED BY <1>3, <1>4, <2>2, <2>3, <2>5
<1> QED BY <1>7, <1>8

\* They go two ways.
Parted(pcs, at, mask, x, y) ==
  /\ \A l \in Lanes : l \in mask => pcs[l] \in {x, y}
  /\ \A l \in Lanes : l \notin mask => pcs[l] = at[l]
  /\ \E l \in mask : pcs[l] = x
  /\ \E l \in mask : pcs[l] = y

LEMMA ApartOk ==
  ASSUME NEW p, IsProgram(p), NEW s, NEW at, StackOk(p, s, at), s # <<>>,
         NEW k, k = Len(s), NEW pc, pc = s[k].pc, pc \in DOMAIN p,
         NEW R, Reconverges(p, pc, R),
         NEW x, x \in Successors(p, pc), x # pc + 1, pc + 1 \in Successors(p, pc),
         NEW mask, mask = s[k].mask,
         NEW pcs, Parted(pcs, at, mask, x, pc + 1)
  PROVE  StackOk(p,
           (IF R # s[k].rpc THEN Append(Front(s), [s[k] EXCEPT !.pc = R]) ELSE Front(s))
             \o Entries(pcs, ({pc + 1, x} \ {s[k].rpc}) \ {R}, pc, mask, R), pcs)
<1>1. k \in Nat /\ k >= 1 /\ \A j \in 1 .. k : s[j] \in StackEntries
  BY DEF StackOk
<1>2. EntryOk(p, s, at, k)
  BY <1>1 DEF StackOk
<1>3. PICK q : q = s[k].rpc
  OBVIOUS
<1>4. PICK f : f = Front(s)
  OBVIOUS
<1>5. f = [j \in 1 .. k - 1 |-> s[j]]
  BY <1>1, <1>4, FrontIs DEF StackOk
<1>6. R \in DOMAIN p \cup {0} /\ pc \in Before(p, R) /\ pc # 0 /\ R # None
  BY ProgramIs, NoneIs DEF Reconverges
<1>7. mask \in SUBSET Lanes
  BY <1>1 DEF StackEntries
<1>8. k # 1 => q \in DOMAIN p \cup {0} /\ pc \in Before(p, q) /\ (q = R \/ R \in Before(p, q))
  BY <1>2, <1>3 DEF EntryOk, Reconverges
<1>9. k = 1 => q = None
  BY <1>2, <1>3 DEF EntryOk
<1>10. x \in Before(p, R) \cup {R} /\ pc + 1 \in Before(p, R) \cup {R}
  BY <1>6, BeforeStep
<1>11. q \in {pc + 1, x} => q = R
  <2> SUFFICES ASSUME q \in {pc + 1, x}, q # R PROVE FALSE
    OBVIOUS
  <2>1. q \in Before(p, R)
    BY <1>10
  <2>2. k # 1
    <3>1. q \in DOMAIN p
      BY <2>1, BeforeStep
    <3>2. None \notin DOMAIN p
      BY ProgramIs, NoneIs
    <3> QED BY <1>9, <3>1, <3>2
  <2> QED BY <1>8, <2>1, <2>2, BeforeOnce
<1>12. ({pc + 1, x} \ {q}) \ {R} = {pc + 1, x} \ {R}
  BY <1>11
<1>13. PICK to : to = [l \in Lanes |-> IF l \in mask THEN R ELSE at[l]]
  OBVIOUS
<1>14. Moved(to, at, mask, R)
  BY <1>13 DEF Moved
<1>15. PICK b : b = IF R # q THEN Append(f, [s[k] EXCEPT !.pc = R]) ELSE f
  OBVIOUS
<1>16. StackOk(p, b, to) /\ b # <<>>
  <2>1. CASE R # q
    <3>1. PICK e : e = [pc |-> R, rpc |-> q, mask |-> mask]
      OBVIOUS
    <3>2. [s[k] EXCEPT !.pc = R] = e
      BY <1>1, <1>3, <3>1 DEF StackEntries
    <3>3. b = f \o <<e>>
      <4>1. e \in StackEntries
        BY <1>1, <1>2, <1>6, <1>7, <1>8, <1>9, <3>1, ProgramIs DEF StackEntries
      <4>2. PICK c : c = Front(s) \o <<e>>
        OBVIOUS
      <4>3. s \in Seq(StackEntries)
        BY DEF StackOk
      <4>4. IsReplaced(StackEntries, s, e, Front(s) \o <<e>>)
        BY <4>1, <4>3, ReplacedIs, Zenon
      <4>5. c = Append(Front(s), e)
        BY <4>2, <4>4 DEF IsReplaced
      <4> QED BY <1>4, <1>15, <2>1, <3>2, <4>2, <4>5
    <3>4. StackOk(p, b, to)
      <4>1. s[k].pc # 0
        BY <1>6
      <4>2. e = [pc |-> R, rpc |-> s[k].rpc, mask |-> s[k].mask]
        BY <1>3, <3>1
      <4>3. k # 1 => R \in Before(p, s[k].rpc)
        BY <1>3, <1>8, <2>1
      <4> QED BY <1>4, <1>6, <1>14, <3>3, <4>1, <4>2, <4>3, WaitOk
    <3>5. Len(b) = k
      BY <1>1, <1>5, <3>3
    <3> QED BY <1>1, <3>4, <3>5
  <2>2. CASE R = q
    <3>1. k # 1
      BY <1>6, <1>9, <2>2
    <3>2. Moved(to, at, s[k].mask, s[k].rpc)
      BY <1>3, <1>14, <2>2
    <3>3. s[k].pc # 0
      BY <1>6
    <3>4. StackOk(p, f, to)
      BY <1>4, <3>1, <3>2, <3>3, PopOk
    <3>5. Len(f) = k - 1
      BY <1>1, <1>5
    <3> QED BY <1>1, <1>15, <2>2, <3>1, <3>4, <3>5
  <2> QED BY <2>1, <2>2
<1>17. PICK y : y = pc + 1
  OBVIOUS
<1>18. PICK new : new = Entries(pcs, {y, x} \ {R}, pc, mask, R)
  OBVIOUS
<1>19. /\ y # R /\ x # R => new = <<Entry(pcs, y, mask, R), Entry(pcs, x, mask, R)>>
       /\ y = R => new = <<Entry(pcs, x, mask, R)>>
       /\ x = R => new = <<Entry(pcs, y, mask, R)>>
  <2>1. WaysFrom(pcs, y, mask, R, x, Entries(pcs, {y, x} \ {R}, pc, mask, R))
    BY <1>17, EntriesApart
  <2> QED BY <1>18, <2>1 DEF WaysFrom
<1>20. PICK X : X = {l \in mask : pcs[l] = x}
  OBVIOUS
<1>21. PICK Y : Y = {l \in mask : pcs[l] = y}
  OBVIOUS
<1>22. X # {} /\ Y # {} /\ X \cap Y = {} /\ mask = X \cup Y
  BY <1>7, <1>17, <1>20, <1>21 DEF Parted
<1>23. \A l \in Lanes : pcs[l] = IF l \in X THEN x ELSE IF l \in Y THEN y ELSE at[l]
  BY <1>7, <1>17, <1>20, <1>21 DEF Parted
<1>24. PICK ex : ex = [pc |-> x, rpc |-> R, mask |-> X]
  OBVIOUS
<1>25. PICK ey : ey = [pc |-> y, rpc |-> R, mask |-> Y]
  OBVIOUS
<1>26. ex = Entry(pcs, x, mask, R) /\ ey = Entry(pcs, y, mask, R)
  BY <1>20, <1>21, <1>24, <1>25 DEF Entry
<1>27. Len(b) \in Nat /\ Len(b) # 0 /\ b \in Seq(StackEntries)
  BY <1>16 DEF StackOk
<1>28. StackOk(p, b \o new, pcs)
  <2>1. CASE y # R /\ x # R
    <3>1. PICK mid : mid = [l \in Lanes |-> IF l \in Y THEN y ELSE to[l]]
      OBVIOUS
    <3>2. PICK c : c = b \o <<ey>>
      OBVIOUS
    <3>3. StackOk(p, c, mid) /\ Len(c) = Len(b) + 1
      <4>1. Moved(mid, to, Y, y)
        BY <3>1 DEF Moved
      <4>2. \A l \in Y : to[l] = R
        BY <1>7, <1>13, <1>22
      <4>3. y \in Before(p, R) /\ Y \in SUBSET Lanes
        BY <1>7, <1>10, <1>17, <1>22, <2>1
      <4>4. StackOk(p, c, mid)
        BY <1>6, <1>16, <1>22, <1>25, <1>27, <3>2, <4>1, <4>2, <4>3, PushOk
      <4> QED BY <1>27, <3>2, <4>4
    <3>4. PICK d : d = c \o <<ex>>
      OBVIOUS
    <3>5. StackOk(p, d, pcs)
      <4>1. c \in Seq(StackEntries)
        BY <3>3 DEF StackOk
      <4>2. \A l \in X : mid[l] = R
        BY <1>7, <1>13, <1>22, <3>1
      <4>3. x \in Before(p, R) /\ X \in SUBSET Lanes
        BY <1>7, <1>10, <1>22, <2>1
      <4>4. Moved(pcs, mid, X, x)
        BY <1>13, <1>22, <1>23, <3>1 DEF Moved
      <4>5. Len(c) # 0
        BY <1>27, <3>3
      <4> QED BY <1>6, <1>22, <1>24, <3>3, <3>4, <4>2, <4>3, <4>4, <4>5, PushOk
    <3>6. new = <<ey, ex>>
      BY <1>26, <2>1, <1>19
    <3>7. b \o <<ey, ex>> = d
      BY <1>27, <3>2, <3>4
    <3> QED BY <3>5, <3>6, <3>7
  <2>2. CASE y = R
    <3>1. x # R /\ {pc + 1, x} \ {R} = {x}
      BY <1>17, <2>2
    <3>2. PICK d : d = b \o <<ex>>
      OBVIOUS
    <3>3. StackOk(p, d, pcs)
      <4>1. \A l \in X : to[l] = R
        BY <1>7, <1>13, <1>22
      <4>2. x \in Before(p, R) /\ X \in SUBSET Lanes
        BY <1>7, <1>10, <1>22, <3>1
      <4>3. Moved(pcs, to, X, x)
        BY <1>13, <1>22, <1>23, <2>2 DEF Moved
      <4> QED BY <1>6, <1>16, <1>22, <1>24, <1>27, <3>2, <4>1, <4>2, <4>3, PushOk
    <3>4. new = <<ex>>
      BY <1>26, <2>2, <1>19
    <3> QED BY <3>2, <3>3, <3>4
  <2>3. CASE x = R
    <3>1. y # R /\ {pc + 1, x} \ {R} = {y}
      BY <1>17, <2>3
    <3>2. PICK d : d = b \o <<ey>>
      OBVIOUS
    <3>3. StackOk(p, d, pcs)
      <4>1. \A l \in Y : to[l] = R
        BY <1>7, <1>13, <1>22
      <4>2. y \in Before(p, R) /\ Y \in SUBSET Lanes
        BY <1>7, <1>10, <1>17, <1>22, <3>1
      <4>3. Moved(pcs, to, Y, y)
        BY <1>13, <1>22, <1>23, <2>3 DEF Moved
      <4> QED BY <1>6, <1>16, <1>22, <1>25, <1>27, <3>2, <4>1, <4>2, <4>3, PushOk
    <3>4. new = <<ey>>
      BY <1>26, <2>3, <1>19
    <3> QED BY <3>2, <3>3, <3>4
  <2> QED BY <2>1, <2>2, <2>3
<1> QED BY <1>3, <1>4, <1>12, <1>15, <1>17, <1>18, <1>28

\* Where the lanes of mask go from i at pc.
Goes(pcs, at, i, pc, mask, taken) == \A l \in Lanes :
  pcs[l] = IF l \notin mask THEN at[l]
           ELSE IF i.op = "exit" THEN None
           ELSE IF l \in taken THEN i.to ELSE pc + 1

LEMMA UpdatedOk ==
  ASSUME NEW p, IsProgram(p), NEW s, NEW at, StackOk(p, s, at), s # <<>>,
         NEW top, top = Last(s), NEW pc, pc = top.pc, pc \in DOMAIN p,
         NEW i, i = p[pc], NEW w, NEW taken \in Takers(i, w, top.mask),
         NEW pcs, Goes(pcs, at, i, pc, top.mask, taken)
  PROVE  StackOk(p, Updated(s, pcs, i, pc), pcs)
<1>1. PICK k : k = Len(s)
  OBVIOUS
<1>2. k \in 1 .. Len(s) /\ top = s[k]
  BY <1>1 DEF StackOk, Last
<1>3. PICK mask : mask = top.mask
  OBVIOUS
<1>4. mask # {} /\ mask \in SUBSET Lanes /\ top \in StackEntries
  <2>1. EntryOk(p, s, at, k) /\ s[k] \in StackEntries
    BY <1>2 DEF StackOk
  <2> QED BY <1>2, <1>3, <2>1 DEF EntryOk, StackEntries
<1>5. PICK all : all = {pcs[l] : l \in mask} \ {None}
  OBVIOUS
<1>6. Updated(s, pcs, i, pc)
        = IF Cardinality(all) > 1
            THEN (IF i.rpc # top.rpc THEN Append(Front(s), [top EXCEPT !.pc = i.rpc])
                  ELSE Front(s))
                 \o Entries(pcs, (all \ {top.rpc}) \ {i.rpc}, pc, mask, i.rpc)
            ELSE Front(s) \o Entries(pcs, all \ {top.rpc}, pc, mask, top.rpc)
  BY <1>3, <1>5 DEF Updated
<1>7. \A l \in Lanes :
         pcs[l] = IF l \notin mask THEN at[l]
                  ELSE IF i.op = "exit" THEN None
                  ELSE IF l \in taken THEN i.to ELSE pc + 1
  BY <1>3 DEF Goes
<1>8. CASE i.op = "exit"
  <2>1. Moved(pcs, at, mask, None)
    BY <1>7, <1>3, <1>8 DEF Moved
  <2>2. StackOk(p, Front(s), pcs)
    BY <1>1, <1>2, <1>3, <1>8, <2>1, ExitOk
  <2>3. all = {} /\ all \ {top.rpc} = {}
    BY <1>7, <1>3, <1>4, <1>5, <1>8
  <2>4. ~(Cardinality(all) > 1)
    BY <2>3, FS_EmptySet
  <2>5. Entries(pcs, all \ {top.rpc}, pc, mask, top.rpc) = <<>>
    BY <2>3, EntriesNone
  <2>6. Front(s) \o <<>> = Front(s)
    <3>1. Front(s) \in Seq(StackEntries)
      BY <2>2 DEF StackOk
    <3> QED BY <3>1
  <2> QED BY <1>6, <2>2, <2>4, <2>5, <2>6
<1>9. CASE i.op # "exit" /\ \E r : \A l \in mask : pcs[l] = r
  <2>1. PICK r : \A l \in mask : pcs[l] = r
    BY <1>9
  <2>2. PICK l \in mask : TRUE
    BY <1>4
  <2>3. r \in Successors(p, pc)
    <3>1. r = IF l \in taken THEN i.to ELSE pc + 1
      BY <1>7, <1>3, <1>4, <1>9, <2>1, <2>2
    <3>2. l \in taken => i.op = "bra"
      BY DEF Takers
    <3>3. l \notin taken => ~(i.op = "bra" /\ i.cond = "all")
      BY <1>3, <2>2 DEF Takers
    <3> QED BY <1>9, <3>1, <3>2, <3>3 DEF Successors
  <2>4. Moved(pcs, at, mask, r)
    BY <1>7, <1>3, <2>1 DEF Moved
  <2>5. r # None
    BY <1>9, <2>3, SuccessorIs, ProgramIs, NoneIs
  <2>6. all = {r}
    BY <1>5, <2>1, <2>2, <2>5
  <2>7. ~(Cardinality(all) > 1)
    <3>1. Cardinality({r}) = 1
      BY FS_Singleton, Zenon
    <3> QED BY <2>6, <3>1
  <2>8. StackOk(p, Front(s) \o Entries(pcs, {r} \ {s[k].rpc}, pc, mask, s[k].rpc), pcs)
    BY <1>1, <1>2, <1>3, <1>9, <2>3, <2>4, TogetherOk
  <2> QED BY <1>2, <1>6, <2>6, <2>7, <2>8
<1>10. CASE i.op # "exit" /\ ~ \E r : \A l \in mask : pcs[l] = r
  <2>1. PICK l \in mask, m \in mask : l \in taken /\ m \notin taken
    BY <1>7, <1>3, <1>4, <1>10
  <2>2. i.op = "bra" /\ i.cond \in {"any", "some"}
    BY <1>3, <2>1 DEF Takers
  <2>3. PICK R : R = i.rpc
    OBVIOUS
  <2>4. Reconverges(p, pc, R)
    BY <2>2, <2>3 DEF IsProgram
  <2>5. PICK x : x = i.to
    OBVIOUS
  <2>6. x \in Successors(p, pc) /\ pc + 1 \in Successors(p, pc)
    BY <2>2, <2>5 DEF Successors
  <2>7. \A h \in mask : pcs[h] = IF h \in taken THEN x ELSE pc + 1
    BY <1>7, <1>3, <1>4, <1>10, <2>5
  <2>8. x # pc + 1
    BY <1>10, <2>7
  <2>9. x # None /\ pc + 1 # None
    BY <1>10, <2>6, SuccessorIs, ProgramIs, NoneIs
  <2>10. all = {pc + 1, x}
    BY <1>5, <2>1, <2>7, <2>9
  <2>11. Cardinality(all) > 1
    <3>1. PICK y : y = pc + 1
      OBVIOUS
    <3>2. IsFiniteSet({y}) /\ Cardinality({y}) = 1
      BY FS_Singleton, Zenon
    <3>3. PICK S : S = {y}
      OBVIOUS
    <3>4. IsFiniteSet(S) /\ Cardinality(S) = 1 /\ x \notin S
      BY <2>8, <3>1, <3>2, <3>3
    <3>5. Cardinality(S \cup {x}) = Cardinality(S) + 1
      BY <3>4, FS_AddElement
    <3>6. all = S \cup {x}
      BY <2>10, <3>1, <3>3
    <3> QED BY <3>4, <3>5, <3>6
  <2>12. Parted(pcs, at, mask, x, pc + 1)
    BY <1>7, <1>3, <2>1, <2>7 DEF Parted
  <2>13. StackOk(p,
           (IF R # s[k].rpc THEN Append(Front(s), [s[k] EXCEPT !.pc = R]) ELSE Front(s))
             \o Entries(pcs, ({pc + 1, x} \ {s[k].rpc}) \ {R}, pc, mask, R), pcs)
    BY <1>1, <1>2, <1>3, <2>4, <2>6, <2>8, <2>12, ApartOk
  <2> QED BY <1>2, <1>6, <2>3, <2>10, <2>11, <2>13
<1> QED BY <1>8, <1>9, <1>10

-----------------------------------------------------------------------------
(* The stacks and the counts of the warps of the core.                     *)

WarpStacked(u) ==
  /\ StackOk(program, u.stack, u.pc)
  /\ \A l \in Lanes : u.pc[l] \in DOMAIN program \cup {None}

StackInv == program \in Programs /\ \A w \in Warps : WarpStacked(warp[w])

WarpCounted(u) ==
  /\ IsFiniteBag(u.flying)
  /\ u.ibuf \in [1 .. 2 -> Nat]
  /\ (\E l \in Lanes : u.pc[l] # None) => u.nextPc \in Nat \ {0}
  /\ u.inPipe = Valid(u.ibuf) + BagCardinality(u.flying)

CountInv ==
  /\ fetched # None => fetched.pc \in Nat \ {0}
  /\ \A w \in Warps : WarpCounted(warp[w])

CoreInv == FetchInv /\ StackInv /\ CountInv

LEMMA ProgramHere == StackInv => IsProgram(program)
BY ShaderCoreAssumption DEF StackInv

Bit(a) == IF a # 0 THEN 1 ELSE 0

LEMMA ValidIs ==
  ASSUME NEW a, NEW b
  PROVE  Valid(<<a, b>>) = Bit(a) + Bit(b)
<1> DEFINE ibuf == <<a, b>>
<1>1. Bit(a) = (IF a # 0 THEN 1 ELSE 0) /\ Bit(b) = (IF b # 0 THEN 1 ELSE 0)
  BY DEF Bit
<1>2. PICK S : S = {n \in 1 .. 2 : ibuf[n] # 0}
  OBVIOUS
<1>3. S = (IF a # 0 THEN {1} ELSE {}) \cup (IF b # 0 THEN {2} ELSE {})
  BY <1>2
<1>4. Cardinality({}) = 0 /\ Cardinality({1}) = 1 /\ Cardinality({2}) = 1
  BY FS_EmptySet, FS_Singleton
<1>5. Cardinality({1} \cup {2}) = 2
  <2>1. PICK T : T = {1}
    OBVIOUS
  <2>2. IsFiniteSet({1})
    BY FS_Singleton, Zenon
  <2>3. IsFiniteSet(T) /\ Cardinality(T) = 1 /\ 2 \notin T
    BY <1>4, <2>1, <2>2
  <2>4. Cardinality(T \cup {2}) = Cardinality(T) + 1
    BY <2>3, FS_AddElement
  <2> QED BY <2>1, <2>3, <2>4
<1>6. Valid(ibuf) = Cardinality(S)
  BY <1>2 DEF Valid
<1>7. CASE a # 0 /\ b # 0
  BY <1>1, <1>3, <1>5, <1>6, <1>7
<1>8. CASE a # 0 /\ b = 0
  <2>1. S = {1}
    BY <1>1, <1>3, <1>8
  <2> QED BY <1>1, <1>4, <1>6, <1>8, <2>1
<1>9. CASE a = 0 /\ b # 0
  <2>1. S = {2}
    BY <1>1, <1>3, <1>9
  <2> QED BY <1>1, <1>4, <1>6, <1>9, <2>1
<1>10. CASE a = 0 /\ b = 0
  <2>1. S = {}
    BY <1>1, <1>3, <1>10
  <2> QED BY <1>1, <1>4, <1>6, <1>10, <2>1
<1> QED BY <1>7, <1>8, <1>9, <1>10

\* A buffer loses the entry that is issued.
LEMMA ValidFreed ==
  ASSUME NEW ibuf \in [1 .. 2 -> Nat], NEW n \in 1 .. 2, ibuf[n] # 0,
         NEW freed, freed = [ibuf EXCEPT ![n] = 0]
  PROVE  /\ Valid(freed) \in Nat /\ Valid(ibuf) = Valid(freed) + 1
         /\ freed \in [1 .. 2 -> Nat]
<1>1. PICK a \in Nat, b \in Nat : ibuf = <<a, b>>
  <2>1. ibuf = <<ibuf[1], ibuf[2]>>
    OBVIOUS
  <2> QED BY <2>1
<1>2. /\ Bit(a) \in {0, 1} /\ Bit(b) \in {0, 1} /\ Bit(0) = 0
      /\ (a # 0 => Bit(a) = 1) /\ (b # 0 => Bit(b) = 1)
  BY DEF Bit
<1>3. Valid(ibuf) = Bit(a) + Bit(b)
  BY <1>1, ValidIs
<1>4. freed \in [1 .. 2 -> Nat]
  OBVIOUS
<1>5. CASE n = 1
  <2>1. freed = <<0, b>>
    BY <1>1, <1>5
  <2>2. Valid(<<0, b>>) = Bit(0) + Bit(b)
    BY ValidIs
  <2>3. Bit(a) = 1
    BY <1>1, <1>2, <1>5
  <2>4. Valid(freed) = Bit(b)
    <3>1. Valid(freed) = Valid(<<0, b>>)
      BY <2>1, Zenon
    <3> QED BY <1>2, <2>2, <3>1
  <2>5. Valid(ibuf) = Bit(b) + 1
    BY <1>2, <1>3, <2>3
  <2> QED BY <1>2, <1>4, <2>4, <2>5
<1>6. CASE n = 2
  <2>1. freed = <<a, 0>>
    BY <1>1, <1>6
  <2>2. Valid(<<a, 0>>) = Bit(a) + Bit(0)
    BY ValidIs
  <2>3. Bit(b) = 1
    BY <1>1, <1>2, <1>6
  <2>4. Valid(freed) = Bit(a)
    <3>1. Valid(freed) = Valid(<<a, 0>>)
      BY <2>1, Zenon
    <3> QED BY <1>2, <2>2, <3>1
  <2>5. Valid(ibuf) = Bit(a) + 1
    BY <1>2, <1>3, <2>3
  <2> QED BY <1>2, <1>4, <2>4, <2>5
<1> QED BY <1>5, <1>6

LEMMA ValidNat == ASSUME NEW ibuf \in [1 .. 2 -> Nat] PROVE Valid(ibuf) \in Nat
<1>1. Valid(<<ibuf[1], ibuf[2]>>) = Bit(ibuf[1]) + Bit(ibuf[2])
  BY ValidIs
<1>2. ibuf = <<ibuf[1], ibuf[2]>>
  OBVIOUS
<1>3. Bit(ibuf[1]) \in Nat /\ Bit(ibuf[2]) \in Nat
  BY DEF Bit
<1>4. Valid(ibuf) = Bit(ibuf[1]) + Bit(ibuf[2])
  BY <1>1, <1>2, Zenon
<1> QED BY <1>3, <1>4

LEMMA ValidEmpty == Valid(<<0, 0>>) = 0 /\ <<0, 0>> \in [1 .. 2 -> Nat]
<1>1. Valid(<<0, 0>>) = Bit(0) + Bit(0)
  BY ValidIs
<1> QED BY <1>1 DEF Bit

LEMMA EmptyOk ==
  ASSUME NEW p, NEW at, \A l \in Lanes : at[l] = None
  PROVE  StackOk(p, <<>>, at)
BY DEF StackOk

LEMMA StartOk ==
  ASSUME NEW p, IsProgram(p), NEW at, at = [l \in Lanes |-> 1],
         NEW s, s = <<[pc |-> 1, rpc |-> None, mask |-> Lanes]>>
  PROVE  StackOk(p, s, at)
<1>1. 1 \in DOMAIN p /\ None # 1 /\ Lanes # {}
  BY ProgramIs, ShaderCoreAssumption
<1>2. PICK e : e = [pc |-> 1, rpc |-> None, mask |-> Lanes]
  OBVIOUS
<1>3. e \in StackEntries /\ e.pc = 1 /\ e.rpc = None /\ e.mask = Lanes
  BY <1>2 DEF StackEntries
<1>4. s \in Seq(StackEntries) /\ Len(s) = 1 /\ s[1] = e
  BY <1>2, <1>3
<1>5. \A n \in 1 .. 1 : EntryOk(p, s, at, n)
  BY <1>1, <1>3, <1>4 DEF EntryOk
<1>6. ASSUME NEW l \in Lanes PROVE LaneOk(s, at, l)
  <2>1. Holds(s, l) = {1}
    BY <1>3, <1>4 DEF Holds
  <2>2. IsTop({1}, 1)
    BY DEF IsTop
  <2>3. \A n \in 1 .. 1 : \A m \in 1 .. 1 : ~ IsNext({1}, n, m)
    BY DEF IsNext
  <2> QED BY <1>3, <1>4, <2>1, <2>2, <2>3 DEF LaneOk
<1> QED BY <1>4, <1>5, <1>6 DEF StackOk

\* What a warp that may issue has on top of its stack.
LEMMA CandidateTop ==
  ASSUME StackInv, NEW w \in Warps, Candidate(w)
  PROVE  warp[w].stack # <<>> /\ Last(warp[w].stack).pc \in DOMAIN program
<1>1. PICK s : s = warp[w].stack
  OBVIOUS
<1>2. PICK at : at = warp[w].pc
  OBVIOUS
<1>3. /\ StackOk(program, s, at) /\ IsProgram(program)
      /\ \A l \in Lanes : at[l] \in DOMAIN program \cup {None}
  BY <1>1, <1>2, ProgramHere DEF StackInv, WarpStacked
<1>4. PICK l \in Lanes : at[l] # None
  BY <1>2 DEF Candidate, Waiting, FunctionalDone
<1>5. PICK n \in 1 .. Len(s) : IsTop(Holds(s, l), n) /\ s[n].pc = at[l]
  BY <1>3, <1>4 DEF StackOk, LaneOk
<1>6. PICK k \in Nat : k = Len(s) /\ k \in 1 .. k
  BY <1>3, <1>5 DEF StackOk
<1>7. s[k].pc \in DOMAIN program \cup {0} /\ (s[k].pc = 0 => k = 1)
  BY <1>3, <1>6, EntryPc
<1>8. s[k].pc # 0
  <2> SUFFICES ASSUME s[k].pc = 0 PROVE FALSE
    OBVIOUS
  <2>1. n = 1 /\ k = 1
    <3>1. k = 1
      BY <1>7
    <3>2. Len(s) = 1
      BY <1>6, <3>1
    <3>3. n \in 1 .. 1
      BY <3>2
    <3> QED BY <3>1, <3>3
  <2>2. s[n].pc = 0
    BY <2>1
  <2>3. at[l] = 0 /\ at[l] \in DOMAIN program
    BY <1>3, <1>4, <1>5, <2>2
  <2> QED BY <1>3, <2>3, ProgramIs
<1>9. s # <<>> /\ Last(s) = s[k]
  BY <1>6 DEF Last
<1> QED BY <1>1, <1>7, <1>8, <1>9

\* What issue_warp() does to the warp, as far as its stack and its counts go.
Issued(w, pcs, taken) ==
  LET u == warp[w]
      pc == u.ibuf[u.next]
      i == program[pc]
      mask == Last(u.stack).mask
      freed == [u.ibuf EXCEPT ![u.next] = 0]
  IN
  /\ taken \in Takers(i, w, mask)
  /\ pcs = Executed(w, i, pc, mask, taken)
  /\ warp'[w].pc = pcs /\ warp'[w].stack = Updated(u.stack, pcs, i, pc)
  /\ warp'[w].ibuf = IF i.op = "exit" THEN <<0, 0>> ELSE freed
  /\ warp'[w].inPipe = IF i.op = "exit" THEN u.inPipe - Valid(freed) ELSE u.inPipe
  /\ warp'[w].nextPc = pc + 1
  /\ warp'[w].flying = u.flying (+) SetToBag({pc})

LEMMA IssueIs ==
  ASSUME FetchInv, NEW w \in Warps, Issue(w)
  PROVE  /\ \E pcs : \E taken : Issued(w, pcs, taken)
         /\ \A v \in Warps : v # w => warp'[v] = warp[v]
<1> DEFINE u == warp[w]
           pc == u.ibuf[u.next]
           i == program[pc]
           mask == Last(u.stack).mask
           freed == [u.ibuf EXCEPT ![u.next] = 0]
           new(pcs) == [u EXCEPT
             !.pc = pcs,
             !.stack = Updated(@, pcs, i, pc),
             !.ibuf = IF i.op = "exit" THEN <<0, 0>> ELSE freed,
             !.inPipe = IF i.op = "exit" THEN @ - Valid(freed) ELSE @,
             !.next = 3 - @,
             !.nextPc = pc + 1,
             !.membar = (i.op = "membar"),
             !.flying = @ (+) SetToBag({pc}),
             !.reserved = @ \cup i.writes]
<1>1. PICK taken \in Takers(i, w, mask) :
        warp' = [warp EXCEPT ![w] = new(Executed(w, i, pc, mask, taken))]
  BY Zenon DEF Issue
<1>2. PICK pcs : pcs = Executed(w, i, pc, mask, taken)
  OBVIOUS
<1>3. DOMAIN u = Fields /\ DOMAIN warp = Warps
  BY DEF FetchInv, WarpTypes
<1> DEFINE g(a, b, c, d, e, f, x, y) == [u EXCEPT
              !.pc = a, !.stack = b, !.ibuf = c, !.inPipe = d, !.next = 3 - u.next,
              !.nextPc = e, !.membar = f, !.flying = x, !.reserved = y]
<1>4. ASSUME NEW a, NEW b, NEW c, NEW d, NEW e, NEW f, NEW x, NEW y, NEW z,
             z = g(a, b, c, d, e, f, x, y)
      PROVE  /\ z.pc = a /\ z.stack = b /\ z.ibuf = c /\ z.inPipe = d
             /\ z.nextPc = e /\ z.flying = x
  <2> HIDE DEF u
  <2>1. z.pc = a
    BY <1>3, <1>4 DEF Fields
  <2>2. z.stack = b
    BY <1>3, <1>4 DEF Fields
  <2>3. z.ibuf = c
    BY <1>3, <1>4 DEF Fields
  <2>4. z.inPipe = d
    BY <1>3, <1>4 DEF Fields
  <2>5. z.nextPc = e
    BY <1>3, <1>4 DEF Fields
  <2>6. z.flying = x
    BY <1>3, <1>4 DEF Fields
  <2> QED BY <2>1, <2>2, <2>3, <2>4, <2>5, <2>6
<1>5. new(pcs) = g(pcs, Updated(u.stack, pcs, i, pc),
                   IF i.op = "exit" THEN <<0, 0>> ELSE freed,
                   IF i.op = "exit" THEN u.inPipe - Valid(freed) ELSE u.inPipe,
                   pc + 1, i.op = "membar", u.flying (+) SetToBag({pc}),
                   u.reserved \cup i.writes)
  OBVIOUS
<1>6. PICK z : z = new(pcs)
  OBVIOUS
<1>7. warp'[w] = z /\ \A v \in Warps : v # w => warp'[v] = warp[v]
  <2> HIDE DEF new, pc, i, mask, freed, u
  <2>1. warp' = [warp EXCEPT ![w] = z]
    BY <1>1, <1>2, <1>6
  <2> QED BY <1>3, <2>1
<1>8. /\ z.pc = pcs /\ z.stack = Updated(u.stack, pcs, i, pc)
      /\ z.ibuf = IF i.op = "exit" THEN <<0, 0>> ELSE freed
      /\ z.inPipe = IF i.op = "exit" THEN u.inPipe - Valid(freed) ELSE u.inPipe
      /\ z.nextPc = pc + 1 /\ z.flying = u.flying (+) SetToBag({pc})
  <2> HIDE DEF g, new, pc, i, mask, freed, u
  <2> QED BY <1>4, <1>5, <1>6
<1> HIDE DEF new, g
<1>9. Issued(w, pcs, taken)
  BY <1>2, <1>7, <1>8, Zenon DEF Issued
<1> QED BY <1>7, <1>9

LEMMA IssueStack ==
  ASSUME FetchInv, StackInv, NEW w \in Warps, Issue(w)
  PROVE  StackInv'
<1>1. PICK pcs, taken : Issued(w, pcs, taken)
  BY IssueIs
<1>2. PICK p : p = program
  OBVIOUS
<1>3. PICK s : s = warp[w].stack
  OBVIOUS
<1>4. PICK at : at = warp[w].pc
  OBVIOUS
<1>5. PICK pc : pc = warp[w].ibuf[warp[w].next]
  OBVIOUS
<1>6. PICK i : i = p[pc]
  OBVIOUS
<1>7. PICK top : top = Last(s)
  OBVIOUS
<1>8. /\ IsProgram(p) /\ StackOk(p, s, at)
      /\ \A l \in Lanes : at[l] \in DOMAIN p \cup {None}
  BY <1>2, <1>3, <1>4, ProgramHere DEF StackInv, WarpStacked
<1>9. Candidate(w) /\ pc = top.pc /\ program' = p
  BY <1>2, <1>3, <1>5, <1>7 DEF Issue
<1>10. s # <<>> /\ pc \in DOMAIN p
  BY <1>2, <1>3, <1>7, <1>9, CandidateTop
<1>11. /\ taken \in Takers(i, w, top.mask)
       /\ pcs = Executed(w, i, pc, top.mask, taken)
       /\ warp'[w].pc = pcs /\ warp'[w].stack = Updated(s, pcs, i, pc)
  BY <1>1, <1>2, <1>3, <1>5, <1>6, <1>7 DEF Issued
<1>12. Goes(pcs, at, i, pc, top.mask, taken)
  BY <1>4, <1>11 DEF Executed, Goes
<1>13. StackOk(p, Updated(s, pcs, i, pc), pcs)
  BY <1>6, <1>7, <1>8, <1>9, <1>10, <1>11, <1>12, UpdatedOk
<1>14. ASSUME NEW l \in Lanes PROVE pcs[l] \in DOMAIN p \cup {None}
  <2>1. l \in taken => i.op = "bra"
    BY <1>11 DEF Takers
  <2>2. i.op = "bra" => i.to \in DOMAIN p
    BY <1>6, <1>8, <1>10 DEF IsProgram
  <2>3. i.op # "exit" => pc + 1 \in DOMAIN p
    <3>1. Len(p) \in Nat /\ DOMAIN p = 1 .. Len(p) /\ p[Len(p)].op = "exit"
      BY <1>8, ProgramIs
    <3> QED BY <1>6, <1>10, <3>1
  <2>4. at[l] \in DOMAIN p \cup {None}
    BY <1>8
  <2> QED BY <1>12, <2>1, <2>2, <2>3, <2>4 DEF Goes
<1>15. WarpStacked(warp[w])'
  BY <1>9, <1>11, <1>13, <1>14 DEF WarpStacked
<1>16. ASSUME NEW v \in Warps, v # w PROVE WarpStacked(warp[v])'
  <2>1. warp'[v] = warp[v]
    BY <1>16, IssueIs
  <2> QED BY <1>2, <1>9, <2>1 DEF StackInv, WarpStacked
<1>17. program' \in Programs
  BY <1>2, <1>9 DEF StackInv
<1> QED BY <1>15, <1>16, <1>17 DEF StackInv

\* The other steps on the core: which of these fields they leave alone.
Keeps(u, v) == v.pc = u.pc /\ v.stack = u.stack

LEMMA KeepsStack ==
  ASSUME FetchInv, StackInv, UNCHANGED program,
         \A w \in Warps : Keeps(warp[w], warp'[w])
  PROVE  StackInv'
<1>1. ASSUME NEW w \in Warps PROVE WarpStacked(warp[w])'
  BY DEF StackInv, WarpStacked, Keeps
<1> QED BY <1>1 DEF StackInv

LEMMA StepKeeps ==
  ASSUME FetchInv,
         \/ FetchCycle
         \/ Decode
         \/ \E w \in Warps : Flush(w) \/ Complete(w) \/ Written(w)
         \/ UNCHANGED vars
  PROVE  UNCHANGED program /\ \A w \in Warps : Keeps(warp[w], warp'[w])
<1>1. DOMAIN warp = Warps /\ \A w \in Warps : DOMAIN warp[w] = Fields
  BY DEF FetchInv, WarpTypes
<1>2. CASE FetchCycle
  <2>1. PICK outcome \in {"hit", "miss", "fail"}, answer \in Warps \cup {None} :
          Fetch(outcome, answer)
    BY <1>2 DEF FetchCycle
  <2> DEFINE scan == {Scan(i) : i \in 0 .. Scanned - 1}
             target == {w \in scan : Fetchable(w)}
             exiting == {w \in scan : Reclaimable(w)}
  <2>2. warp' = [w \in Warps |->
           [warp[w] EXCEPT
              !.doneExit = @ \/ w \in exiting,
              !.imiss = (@ /\ w # answer) \/ (w \in target /\ outcome = "miss")]]
    BY <2>1 DEF Fetch
  <2>3. program' = program
    BY <2>1 DEF Fetch
  <2> HIDE DEF target, exiting
  <2> QED BY <1>1, <2>2, <2>3 DEF Keeps, Fields
<1>3. CASE Decode
  <2>1. PICK w, a, b : warp' = [warp EXCEPT ![w].ibuf = a, ![w].next = 1, ![w].inPipe = b]
    BY <1>3, Zenon DEF Decode
  <2>2. UNCHANGED program
    BY <1>3 DEF Decode
  <2>3. ASSUME NEW v \in Warps PROVE Keeps(warp[v], warp'[v])
    <3>1. CASE v = w
      BY <1>1, <2>1, <3>1 DEF Keeps, Fields
    <3>2. CASE v # w
      BY <1>1, <2>1, <3>2 DEF Keeps
    <3> QED BY <3>1, <3>2
  <2> QED BY <2>2, <2>3
<1>4. ASSUME NEW w \in Warps, Flush(w) PROVE UNCHANGED program /\ \A v \in Warps : Keeps(warp[v], warp'[v])
  <2>1. PICK a, b : warp' = [warp EXCEPT
          ![w].ibuf = <<0, 0>>, ![w].inPipe = a, ![w].nextPc = b, ![w].membar = FALSE]
    BY <1>4, Zenon DEF Flush
  <2>2. UNCHANGED program
    BY <1>4 DEF Flush
  <2>3. ASSUME NEW v \in Warps PROVE Keeps(warp[v], warp'[v])
    BY <1>1, <2>1 DEF Keeps, Fields
  <2> QED BY <2>2, <2>3
<1>5. ASSUME NEW w \in Warps, Complete(w)
      PROVE  UNCHANGED program /\ \A v \in Warps : Keeps(warp[v], warp'[v])
  <2>1. PICK pc \in BagToSet(warp[w].flying) : warp' = [warp EXCEPT
          ![w].flying = @ (-) SetToBag({pc}),
          ![w].inPipe = @ - 1,
          ![w].reserved = IF program[pc].op = "load" THEN @ ELSE @ \ program[pc].writes]
    BY <1>5 DEF Complete
  <2>2. PICK a, b, c : warp' = [warp EXCEPT
          ![w].flying = a, ![w].inPipe = b, ![w].reserved = c]
    BY <2>1, Zenon
  <2>3. UNCHANGED program
    BY <1>5 DEF Complete
  <2>4. ASSUME NEW v \in Warps PROVE Keeps(warp[v], warp'[v])
    BY <1>1, <2>2 DEF Keeps, Fields
  <2> QED BY <2>3, <2>4
<1>6. ASSUME NEW w \in Warps, Written(w)
      PROVE  UNCHANGED program /\ \A v \in Warps : Keeps(warp[v], warp'[v])
  <2>1. PICK a : warp' = [warp EXCEPT ![w].reserved = a]
    BY <1>6, Zenon DEF Written
  <2>2. UNCHANGED program
    BY <1>6 DEF Written
  <2>3. ASSUME NEW v \in Warps PROVE Keeps(warp[v], warp'[v])
    BY <1>1, <2>1 DEF Keeps, Fields
  <2> QED BY <2>2, <2>3
<1>7. CASE UNCHANGED vars
  BY <1>7 DEF vars, Keeps
<1> QED BY <1>2, <1>3, <1>4, <1>5, <1>6, <1>7

\* What a launch makes of a warp.
Launched(v) ==
  /\ v.pc = [l \in Lanes |-> 1]
  /\ v.stack = <<[pc |-> 1, rpc |-> None, mask |-> Lanes]>>
  /\ v.ibuf = <<0, 0>> /\ v.nextPc = 1 /\ v.inPipe = 0 /\ v.flying = EmptyBag

LEMMA LaunchIs ==
  ASSUME FetchInv, NEW s \in Slots, Launch(s)
  PROVE  /\ UNCHANGED <<program, fetched>>
         /\ \A w \in Warps : Launched(warp'[w]) \/ warp'[w] = warp[w]
<1> DEFINE fresh == [NoWarp EXCEPT
                     !.pc = [l \in Lanes |-> 1],
                     !.stack = <<[pc |-> 1, rpc |-> None, mask |-> Lanes]>>,
                     !.nextPc = 1, !.doneExit = FALSE]
<1>1. /\ warp' = [w \in Warps |-> IF w \in WarpsOf(s) THEN fresh ELSE warp[w]]
      /\ UNCHANGED <<program, fetched>>
  BY DEF Launch
<1>2. Launched(fresh)
  BY DEF NoWarp, Launched
<1> HIDE DEF fresh
<1> QED BY <1>1, <1>2

LEMMA LaunchStack ==
  ASSUME FetchInv, StackInv, NEW s \in Slots, Launch(s) PROVE StackInv'
<1>1. ASSUME NEW w \in Warps PROVE WarpStacked(warp[w])'
  <2>1. CASE warp'[w] = warp[w]
    BY <2>1, LaunchIs DEF StackInv, WarpStacked
  <2>2. CASE Launched(warp'[w])
    <3>1. PICK u : u = warp'[w]
      OBVIOUS
    <3>2. u.pc = [l \in Lanes |-> 1] /\ u.stack = <<[pc |-> 1, rpc |-> None, mask |-> Lanes]>>
      BY <2>2, <3>1 DEF Launched
    <3>3. StackOk(program, u.stack, u.pc)
      BY <3>2, ProgramHere, StartOk
    <3>4. \A l \in Lanes : u.pc[l] \in DOMAIN program \cup {None}
      BY <3>2, ProgramHere, ProgramIs
    <3> QED BY <3>1, <3>3, <3>4, LaunchIs DEF WarpStacked
  <2> QED BY <2>1, <2>2, LaunchIs
<1> QED BY <1>1, LaunchIs DEF StackInv

-----------------------------------------------------------------------------
(* The counts.                                                             *)

LEMMA IssueCount ==
  ASSUME CoreInv, NEW w \in Warps, Issue(w) PROVE CountInv'
<1>1. FetchInv /\ StackInv /\ CountInv
  BY DEF CoreInv
<1>2. PICK pcs, taken : Issued(w, pcs, taken)
  BY <1>1, IssueIs
<1>3. PICK u : u = warp[w]
  OBVIOUS
<1>4. PICK v : v = warp'[w]
  OBVIOUS
<1>5. PICK n \in 1 .. 2 : n = u.next
  BY <1>1, <1>3 DEF FetchInv, WarpTypes
<1>6. PICK pc : pc = u.ibuf[n]
  OBVIOUS
<1>7. Candidate(w) /\ pc \in DOMAIN program /\ fetched' = fetched
  BY <1>3, <1>5, <1>6 DEF Issue
<1>8. pc \in Nat /\ pc # 0
  BY <1>1, <1>7, ProgramHere, ProgramIs
<1>9. PICK freed : freed = [u.ibuf EXCEPT ![n] = 0]
  OBVIOUS
<1>10. PICK exits : exits = (program[pc].op = "exit")
  OBVIOUS
<1>11. /\ v.ibuf = (IF exits THEN <<0, 0>> ELSE freed)
       /\ v.inPipe = (IF exits THEN u.inPipe - Valid(freed) ELSE u.inPipe)
       /\ v.nextPc = pc + 1 /\ v.flying = u.flying (+) SetToBag({pc})
  BY <1>2, <1>3, <1>4, <1>5, <1>6, <1>9, <1>10 DEF Issued
<1>12. WarpCounted(u)
  BY <1>1, <1>3 DEF CountInv
<1>13. IsFiniteBag(u.flying) /\ u.ibuf \in [1 .. 2 -> Nat]
       /\ u.inPipe = Valid(u.ibuf) + BagCardinality(u.flying)
  BY <1>12 DEF WarpCounted
<1>14. /\ Valid(freed) \in Nat /\ Valid(u.ibuf) = Valid(freed) + 1
       /\ freed \in [1 .. 2 -> Nat]
  BY <1>6, <1>8, <1>9, <1>13, ValidFreed
<1>15. PICK bag : bag = u.flying (+) SetToBag({pc})
  OBVIOUS
<1>16. /\ IsFiniteBag(bag) /\ BagCardinality(u.flying) \in Nat
       /\ BagCardinality(bag) = BagCardinality(u.flying) + 1
  BY <1>13, <1>15, BagAdd
<1>17. v.inPipe = Valid(v.ibuf) + BagCardinality(bag) /\ v.ibuf \in [1 .. 2 -> Nat]
  <2>1. CASE exits
    <3>1. Valid(v.ibuf) = 0 /\ v.ibuf \in [1 .. 2 -> Nat]
      BY <1>11, <2>1, ValidEmpty
    <3>2. v.inPipe = u.inPipe - Valid(freed)
      BY <1>11, <2>1
    <3> QED BY <1>13, <1>14, <1>16, <3>1, <3>2
  <2>2. CASE ~exits
    <3>1. v.ibuf = freed /\ v.inPipe = u.inPipe
      BY <1>11, <2>2
    <3> QED BY <1>13, <1>14, <1>16, <3>1
  <2> QED BY <2>1, <2>2, <1>10
<1>18. WarpCounted(warp'[w])
  BY <1>4, <1>8, <1>11, <1>15, <1>16, <1>17 DEF WarpCounted
<1>19. \A x \in Warps : x # w => WarpCounted(warp'[x])
  BY <1>1, IssueIs DEF CountInv
<1>20. \A x \in Warps : WarpCounted(warp[x])'
  BY <1>18, <1>19 DEF WarpCounted, Valid
<1> QED BY <1>1, <1>7, <1>20 DEF CountInv

\* The step changes one warp, which stays counted.
LEMMA OneWarpCount ==
  ASSUME FetchInv, CountInv, NEW w \in Warps, NEW new, WarpCounted(new),
         warp' = [warp EXCEPT ![w] = new],
         fetched' = None \/ fetched' = fetched
  PROVE  CountInv'
<1>1. \A v \in Warps : WarpCounted(warp'[v])
  BY DEF FetchInv, WarpTypes, CountInv
<1>2. \A v \in Warps : WarpCounted(warp[v])'
  BY <1>1 DEF WarpCounted, Valid
<1> QED BY <1>2 DEF CountInv

LEMMA DecodeCount ==
  ASSUME CoreInv, Decode PROVE CountInv'
<1>1. FetchInv /\ StackInv /\ CountInv
  BY DEF CoreInv
<1>2. PICK w \in Warps : w = fetched.warp /\ fetched # None
  BY <1>1 DEF Decode, FetchInv, FetchTypes
<1>3. PICK u : u = warp[w]
  OBVIOUS
<1>4. u.ibuf = <<0, 0>>
  BY <1>1, <1>2, <1>3 DEF FetchInv, FetchIsCurrent
<1>5. PICK pc \in Nat : pc = fetched.pc /\ pc # 0
  BY <1>1, <1>2 DEF CountInv
<1>6. PICK two : two = (pc < Len(program))
  OBVIOUS
<1>7. PICK ibuf : ibuf = <<pc, IF two THEN pc + 1 ELSE 0>>
  OBVIOUS
<1>8. PICK new : new = [u EXCEPT !.ibuf = ibuf, !.next = 1,
                                 !.inPipe = u.inPipe + (IF two THEN 2 ELSE 1)]
  OBVIOUS
<1>9. warp' = [warp EXCEPT ![w] = new]
  <2>1. warp' = [warp EXCEPT
          ![w].ibuf = <<pc, IF two THEN pc + 1 ELSE @[2]>>,
          ![w].next = 1,
          ![w].inPipe = @ + (IF two THEN 2 ELSE 1)]
    BY <1>2, <1>5, <1>6, Zenon DEF Decode
  <2>2. u.ibuf[2] = 0
    BY <1>4
  <2>3. DOMAIN warp = Warps /\ DOMAIN u = Fields
    BY <1>1, <1>3 DEF FetchInv, WarpTypes
  <2> QED BY <1>3, <1>7, <1>8, <2>1, <2>2, <2>3 DEF Fields
<1>10. /\ new.ibuf = ibuf /\ new.inPipe = u.inPipe + (IF two THEN 2 ELSE 1)
       /\ new.flying = u.flying /\ new.nextPc = u.nextPc /\ new.pc = u.pc
  <2>1. DOMAIN u = Fields
    BY <1>1, <1>3 DEF FetchInv, WarpTypes
  <2> QED BY <1>8, <2>1 DEF Fields
<1>11. WarpCounted(u)
  BY <1>1, <1>3 DEF CountInv
<1>12. IsFiniteBag(u.flying) /\ u.inPipe = Valid(<<0, 0>>) + BagCardinality(u.flying)
  BY <1>4, <1>11 DEF WarpCounted
<1>13. BagCardinality(u.flying) \in Nat
  BY <1>12, BagAdd
<1>14. Valid(ibuf) = (IF two THEN 2 ELSE 1) /\ ibuf \in [1 .. 2 -> Nat]
  <2>1. Valid(<<pc, pc + 1>>) = Bit(pc) + Bit(pc + 1)
    BY ValidIs
  <2>2. Valid(<<pc, 0>>) = Bit(pc) + Bit(0)
    BY ValidIs
  <2>3. Bit(pc) = 1 /\ Bit(pc + 1) = 1 /\ Bit(0) = 0
    BY <1>5 DEF Bit
  <2>4. CASE two
    <3>1. ibuf = <<pc, pc + 1>>
      BY <1>7, <2>4
    <3> QED BY <2>1, <2>3, <2>4, <3>1
  <2>5. CASE ~two
    <3>1. ibuf = <<pc, 0>>
      BY <1>7, <2>5
    <3> QED BY <2>2, <2>3, <2>5, <3>1
  <2> QED BY <1>6, <2>4, <2>5
<1>15. new.inPipe = Valid(new.ibuf) + BagCardinality(new.flying)
  BY <1>10, <1>12, <1>13, <1>14, ValidEmpty
<1>16. WarpCounted(new)
  BY <1>10, <1>11, <1>14, <1>15 DEF WarpCounted
<1>17. fetched' = None
  BY DEF Decode
<1> QED BY <1>1, <1>9, <1>16, <1>17, OneWarpCount

LEMMA FlushCount ==
  ASSUME CoreInv, NEW w \in Warps, Flush(w) PROVE CountInv'
<1>1. FetchInv /\ StackInv /\ CountInv
  BY DEF CoreInv
<1>2. PICK u : u = warp[w]
  OBVIOUS
<1>3. PICK top : top = Last(u.stack).pc
  OBVIOUS
<1>4. PICK new : new = [u EXCEPT !.ibuf = <<0, 0>>, !.inPipe = u.inPipe - Valid(u.ibuf),
                                 !.nextPc = top, !.membar = FALSE]
  OBVIOUS
<1>5. DOMAIN warp = Warps /\ DOMAIN u = Fields
  BY <1>1, <1>2 DEF FetchInv, WarpTypes
<1>6. warp' = [warp EXCEPT ![w] = new]
  <2>1. warp' = [warp EXCEPT
          ![w].ibuf = <<0, 0>>,
          ![w].inPipe = @ - Valid(u.ibuf),
          ![w].nextPc = top,
          ![w].membar = FALSE]
    BY <1>2, <1>3, Zenon DEF Flush
  <2> QED BY <1>2, <1>4, <1>5, <2>1 DEF Fields
<1>7. /\ new.ibuf = <<0, 0>> /\ new.inPipe = u.inPipe - Valid(u.ibuf)
      /\ new.nextPc = top /\ new.flying = u.flying
  BY <1>4, <1>5 DEF Fields
<1>8. WarpCounted(u)
  BY <1>1, <1>2 DEF CountInv
<1>9. IsFiniteBag(u.flying) /\ u.ibuf \in [1 .. 2 -> Nat]
      /\ u.inPipe = Valid(u.ibuf) + BagCardinality(u.flying)
  BY <1>8 DEF WarpCounted
<1>10. BagCardinality(u.flying) \in Nat
  BY <1>9, BagAdd
<1>11. Valid(u.ibuf) \in Nat
  BY <1>9, ValidNat
<1>12. top \in Nat \ {0}
  BY <1>1, <1>2, <1>3, CandidateTop, ProgramHere, ProgramIs DEF Flush
<1>13. new.inPipe = Valid(new.ibuf) + BagCardinality(new.flying)
  BY <1>7, <1>9, <1>10, <1>11, ValidEmpty
<1>14. WarpCounted(new)
  BY <1>7, <1>9, <1>12, <1>13, ValidEmpty DEF WarpCounted
<1>15. fetched' = fetched
  BY DEF Flush
<1> QED BY <1>1, <1>6, <1>14, <1>15, OneWarpCount

LEMMA CompleteCount ==
  ASSUME CoreInv, NEW w \in Warps, Complete(w) PROVE CountInv'
<1>1. FetchInv /\ StackInv /\ CountInv
  BY DEF CoreInv
<1>2. PICK u : u = warp[w]
  OBVIOUS
<1>3. DOMAIN warp = Warps /\ DOMAIN u = Fields
  BY <1>1, <1>2 DEF FetchInv, WarpTypes
<1>4. PICK pc \in BagToSet(u.flying) : warp' = [warp EXCEPT
          ![w].flying = @ (-) SetToBag({pc}),
          ![w].inPipe = @ - 1,
          ![w].reserved = IF program[pc].op = "load" THEN @ ELSE @ \ program[pc].writes]
  BY <1>2 DEF Complete
<1>5. PICK bag : bag = u.flying (-) SetToBag({pc})
  OBVIOUS
<1>6. PICK regs : regs = IF program[pc].op = "load" THEN u.reserved
                         ELSE u.reserved \ program[pc].writes
  OBVIOUS
<1>7. PICK new : new = [u EXCEPT !.flying = bag, !.inPipe = u.inPipe - 1, !.reserved = regs]
  OBVIOUS
<1>8. warp' = [warp EXCEPT ![w] = new]
  <2>1. warp' = [warp EXCEPT ![w] = [u EXCEPT
          !.flying = u.flying (-) SetToBag({pc}),
          !.inPipe = u.inPipe - 1,
          !.reserved = IF program[pc].op = "load" THEN u.reserved
                       ELSE u.reserved \ program[pc].writes]]
    BY <1>2, <1>3, <1>4 DEF Fields
  <2> QED BY <1>5, <1>6, <1>7, <2>1
<1>9. /\ new.flying = bag /\ new.inPipe = u.inPipe - 1 /\ new.ibuf = u.ibuf
      /\ new.pc = u.pc /\ new.nextPc = u.nextPc
  BY <1>3, <1>7 DEF Fields
<1>10. WarpCounted(u)
  BY <1>1, <1>2 DEF CountInv
<1>11. IsFiniteBag(u.flying) /\ u.ibuf \in [1 .. 2 -> Nat]
       /\ u.inPipe = Valid(u.ibuf) + BagCardinality(u.flying)
  BY <1>10 DEF WarpCounted
<1>12. /\ IsFiniteBag(bag) /\ BagCardinality(bag) \in Nat
       /\ BagCardinality(u.flying) = BagCardinality(bag) + 1
  BY <1>4, <1>5, <1>11, BagRemove DEF BagToSet
<1>13. Valid(u.ibuf) \in Nat
  BY <1>11, ValidNat
<1>14. new.inPipe = Valid(new.ibuf) + BagCardinality(new.flying)
  BY <1>9, <1>11, <1>12, <1>13
<1>15. WarpCounted(new)
  BY <1>9, <1>10, <1>12, <1>14 DEF WarpCounted
<1>16. fetched' = fetched
  BY DEF Complete
<1> QED BY <1>1, <1>8, <1>15, <1>16, OneWarpCount

LEMMA WrittenCount ==
  ASSUME CoreInv, NEW w \in Warps, Written(w) PROVE CountInv'
<1>1. FetchInv /\ StackInv /\ CountInv
  BY DEF CoreInv
<1>2. PICK u : u = warp[w]
  OBVIOUS
<1>3. DOMAIN warp = Warps /\ DOMAIN u = Fields
  BY <1>1, <1>2 DEF FetchInv, WarpTypes
<1>4. PICK regs : warp' = [warp EXCEPT ![w].reserved = regs]
  BY Zenon DEF Written
<1>5. PICK new : new = [u EXCEPT !.reserved = regs]
  OBVIOUS
<1>6. warp' = [warp EXCEPT ![w] = new]
  BY <1>2, <1>3, <1>4, <1>5
<1>7. /\ new.flying = u.flying /\ new.inPipe = u.inPipe /\ new.ibuf = u.ibuf
      /\ new.pc = u.pc /\ new.nextPc = u.nextPc
  BY <1>3, <1>5 DEF Fields
<1>8. WarpCounted(u)
  BY <1>1, <1>2 DEF CountInv
<1>9. WarpCounted(new)
  BY <1>7, <1>8 DEF WarpCounted
<1>10. fetched' = fetched
  BY DEF Written
<1> QED BY <1>1, <1>6, <1>9, <1>10, OneWarpCount

LEMMA FetchCount ==
  ASSUME CoreInv, NEW outcome \in {"hit", "miss", "fail"},
         NEW answer \in Warps \cup {None}, Fetch(outcome, answer)
  PROVE  CountInv'
<1> DEFINE scan == {Scan(i) : i \in 0 .. Scanned - 1}
           target == {w \in scan : Fetchable(w)}
           exiting == {w \in scan : Reclaimable(w)}
<1>1. FetchInv /\ CountInv
  BY DEF CoreInv
<1>2. /\ last' = IF target = {} THEN last ELSE CHOOSE w \in target : TRUE
      /\ fetched' = IF target # {} /\ outcome = "hit"
                      THEN [warp |-> last', pc |-> warp[last'].nextPc] ELSE fetched
      /\ warp' = [w \in Warps |->
           [warp[w] EXCEPT
              !.doneExit = @ \/ w \in exiting,
              !.imiss = (@ /\ w # answer) \/ (w \in target /\ outcome = "miss")]]
  BY DEF Fetch
<1>3. target \subseteq Warps
  BY <1>1, ScanInWarps DEF FetchInv
<1>4. \A w \in target : ~FunctionalDone(w)
  BY DEF Fetchable
<1>5. target # {} => last' \in target
  BY <1>2
<1> HIDE DEF target, exiting
<1>6. \A w \in Warps :
        /\ warp'[w].flying = warp[w].flying /\ warp'[w].inPipe = warp[w].inPipe
        /\ warp'[w].ibuf = warp[w].ibuf /\ warp'[w].nextPc = warp[w].nextPc
        /\ warp'[w].pc = warp[w].pc
  BY <1>1, <1>2 DEF FetchInv, WarpTypes, Fields
<1>7. \A w \in Warps : WarpCounted(warp'[w])
  BY <1>1, <1>6 DEF CountInv, WarpCounted
<1>8. \A w \in Warps : WarpCounted(warp[w])'
  BY <1>7 DEF WarpCounted, Valid
<1>9. fetched' # None => fetched'.pc \in Nat \ {0}
  <2>1. CASE target # {} /\ outcome = "hit"
    <3>1. fetched'.pc = warp[last'].nextPc /\ last' \in Warps /\ ~FunctionalDone(last')
      BY <2>1, <1>2, <1>3, <1>4, <1>5
    <3>2. PICK w \in Warps : w = last'
      BY <3>1
    <3>3. WarpCounted(warp[w]) /\ \E l \in Lanes : warp[w].pc[l] # None
      BY <1>1, <3>1, <3>2 DEF CountInv, FunctionalDone
    <3> QED BY <3>1, <3>2, <3>3 DEF WarpCounted
  <2>2. CASE ~(target # {} /\ outcome = "hit")
    BY <1>1, <1>2, <2>2 DEF CountInv
  <2> QED BY <2>1, <2>2
<1> QED BY <1>8, <1>9 DEF CountInv

LEMMA LaunchCount ==
  ASSUME CoreInv, NEW s \in Slots, Launch(s) PROVE CountInv'
<1>1. FetchInv /\ CountInv
  BY DEF CoreInv
<1>2. ASSUME NEW w \in Warps PROVE WarpCounted(warp'[w])
  <2>1. CASE warp'[w] = warp[w]
    BY <1>1, <2>1 DEF CountInv
  <2>2. CASE Launched(warp'[w])
    <3>1. PICK v : v = warp'[w]
      OBVIOUS
    <3>2. v.ibuf = <<0, 0>> /\ v.nextPc = 1 /\ v.inPipe = 0 /\ v.flying = EmptyBag
      BY <2>2, <3>1 DEF Launched
    <3>3. v.inPipe = Valid(v.ibuf) + BagCardinality(v.flying)
      BY <3>2, ValidEmpty, BagEmpty
    <3>4. WarpCounted(v)
      BY <3>2, <3>3, ValidEmpty, BagEmpty DEF WarpCounted
    <3> QED BY <3>1, <3>4
  <2> QED BY <1>1, <2>1, <2>2, LaunchIs
<1>3. \A w \in Warps : WarpCounted(warp[w])'
  BY <1>2 DEF WarpCounted, Valid
<1>4. fetched' = fetched
  BY <1>1, LaunchIs
<1> QED BY <1>1, <1>3, <1>4 DEF CountInv

LEMMA InitCore == Init => CoreInv
<1> SUFFICES ASSUME Init PROVE CoreInv
  OBVIOUS
<1>1. program \in Programs /\ fetched = None /\ \A w \in Warps : warp[w] = NoWarp
  BY DEF Init
<1>2. PICK u : u = NoWarp
  OBVIOUS
<1>3. /\ \A l \in Lanes : u.pc[l] = None
      /\ u.stack = <<>> /\ u.ibuf = <<0, 0>> /\ u.inPipe = 0 /\ u.flying = EmptyBag
  BY <1>2 DEF NoWarp
<1>4. WarpStacked(u)
  BY <1>3, EmptyOk DEF WarpStacked
<1>5. u.inPipe = Valid(u.ibuf) + BagCardinality(u.flying)
  BY <1>3, ValidEmpty, BagEmpty
<1>6. WarpCounted(u)
  BY <1>3, <1>5, ValidEmpty, BagEmpty DEF WarpCounted
<1>7. StackInv /\ CountInv
  BY <1>1, <1>2, <1>4, <1>6 DEF StackInv, CountInv
<1> QED BY <1>7, InitFetch DEF CoreInv

LEMMA CoreInductive == Spec => []CoreInv
<1>1. CoreInv /\ [Next]_vars => CoreInv'
  <2> SUFFICES ASSUME CoreInv, [Next]_vars PROVE StackInv' /\ CountInv' /\ FetchInv'
    BY DEF CoreInv
  <2>1. FetchInv /\ StackInv /\ CountInv
    BY DEF CoreInv
  <2>2. FetchInv'
    BY <2>1, FetchStep
  <2>3. StackInv'
    <3>1. CASE \E w \in Warps : Issue(w)
      BY <2>1, <3>1, IssueStack
    <3>2. CASE \E s \in Slots : Launch(s)
      BY <2>1, <3>2, LaunchStack
    <3>3. CASE \/ FetchCycle
               \/ Decode
               \/ \E w \in Warps : Flush(w) \/ Complete(w) \/ Written(w)
               \/ UNCHANGED vars
      BY <2>1, <3>3, StepKeeps, KeepsStack
    <3> QED BY <3>1, <3>2, <3>3 DEF Next, Step
  <2>4. CountInv'
    <3>1. CASE \E w \in Warps : Issue(w)
      BY <3>1, IssueCount
    <3>2. CASE \E w \in Warps : Flush(w)
      BY <3>2, FlushCount
    <3>3. CASE \E w \in Warps : Complete(w)
      BY <3>3, CompleteCount
    <3>4. CASE \E w \in Warps : Written(w)
      BY <3>4, WrittenCount
    <3>5. CASE \E s \in Slots : Launch(s)
      BY <3>5, LaunchCount
    <3>6. CASE Decode
      BY <3>6, DecodeCount
    <3>7. CASE FetchCycle
      BY <3>7, FetchCount DEF FetchCycle
    <3>8. CASE UNCHANGED vars
      BY <2>1, <3>8 DEF vars, CountInv, WarpCounted, Valid
    <3> QED BY <3>1, <3>2, <3>3, <3>4, <3>5, <3>6, <3>7, <3>8 DEF Next, Step
  <2> QED BY <2>2, <2>3, <2>4
<1> QED BY <1>1, InitCore, PTL DEF Spec

\* Threads of a warp that part meet again: whatever branches the kernel takes, the
\* entries of a thread wait for one another along the reconvergence points, and
\* its top one is where it goes on (simt_stack::update(),
\* abstract_hardware_model.cc:704).
THEOREM StacksMatch == Spec => []StackMatchesThreads
<1>1. CoreInv => StackMatchesThreads
  <2> SUFFICES ASSUME CoreInv, NEW w \in Warps
               PROVE  LET u == warp[w]
                          entries(l) == {n \in DOMAIN u.stack : l \in u.stack[n].mask}
                      IN
                      /\ \A n \in DOMAIN u.stack :
                           /\ u.stack[n].mask # {}
                           /\ u.stack[n].pc # 0 => u.stack[n].mask \subseteq Live(w)
                      /\ \A l \in Live(w) : entries(l) # {}
                      /\ \A l \in Live(w) : \A n \in entries(l) :
                           LET above == {m \in entries(l) : m > n}
                           IN IF above = {} THEN u.pc[l] = u.stack[n].pc
                              ELSE \A m \in above :
                                     (\A k \in above : m <= k) =>
                                        u.stack[m].rpc = u.stack[n].pc
    BY DEF StackMatchesThreads
  <2>1. PICK s : s = warp[w].stack
    OBVIOUS
  <2>2. PICK at : at = warp[w].pc
    OBVIOUS
  <2>3. StackOk(program, s, at)
    BY <2>1, <2>2 DEF CoreInv, StackInv, WarpStacked
  <2>4. DOMAIN s = 1 .. Len(s) /\ Len(s) \in Nat
    BY <2>3 DEF StackOk
  <2>5. ASSUME NEW n \in DOMAIN s
        PROVE  s[n].mask # {} /\ (s[n].pc # 0 => s[n].mask \subseteq Live(w))
    <3>1. EntryOk(program, s, at, n) /\ s[n] \in StackEntries
      BY <2>3, <2>4 DEF StackOk
    <3> QED BY <2>2, <3>1 DEF EntryOk, StackEntries, Live
  <2>6. ASSUME NEW l \in Live(w), NEW H, H = {n \in DOMAIN s : l \in s[n].mask}
        PROVE  /\ H # {}
               /\ \A n \in H :
                    LET above == {m \in H : m > n}
                    IN IF above = {} THEN at[l] = s[n].pc
                       ELSE \A m \in above :
                              (\A k \in above : m <= k) => s[m].rpc = s[n].pc
    <3>1. LaneOk(s, at, l) /\ H = Holds(s, l)
      BY <2>2, <2>3, <2>4, <2>6 DEF StackOk, Live, Holds
    <3>2. \A n \in H : n \in 1 .. Len(s)
      BY <2>4, <2>6
    <3>3. PICK top \in 1 .. Len(s) : IsTop(H, top) /\ s[top].pc = at[l]
      BY <3>1 DEF LaneOk
    <3>4. ASSUME NEW n \in H, {m \in H : m > n} = {} PROVE at[l] = s[n].pc
      <4>1. n = top
        BY <2>4, <3>2, <3>3, <3>4 DEF IsTop
      <4> QED BY <3>3, <4>1
    <3>5. ASSUME NEW n \in H, NEW m \in H, m > n, \A k \in H : k > n => m <= k
          PROVE  s[m].rpc = s[n].pc
      <4>1. IsNext(H, n, m)
        BY <2>4, <3>2, <3>5 DEF IsNext
      <4> QED BY <3>1, <3>2, <4>1 DEF LaneOk
    <3> QED BY <3>3, <3>4, <3>5 DEF IsTop
  <2>7. ASSUME NEW l \in Live(w)
        PROVE  /\ {n \in DOMAIN s : l \in s[n].mask} # {}
               /\ \A n \in {m \in DOMAIN s : l \in s[m].mask} :
                    LET above == {m \in {k \in DOMAIN s : l \in s[k].mask} : m > n}
                    IN IF above = {} THEN at[l] = s[n].pc
                       ELSE \A m \in above :
                              (\A k \in above : m <= k) => s[m].rpc = s[n].pc
    <3>1. PICK H : H = {n \in DOMAIN s : l \in s[n].mask}
      OBVIOUS
    <3>2. /\ H # {}
          /\ \A n \in H :
               LET above == {m \in H : m > n}
               IN IF above = {} THEN at[l] = s[n].pc
                  ELSE \A m \in above :
                         (\A k \in above : m <= k) => s[m].rpc = s[n].pc
      BY <2>6, <3>1
    <3> QED BY <3>1, <3>2, Zenon
  <2> QED BY <2>1, <2>2, <2>5, <2>7, Zenon
<1> QED BY <1>1, CoreInductive, PTL

\* A warp is reclaimed by its count of instructions in the pipeline: it is that
\* of the buffered and the issued ones, through flushes and exits
\* (shd_warp_t::inc_inst_in_pipeline(), shader.h:179).
THEOREM PipelineCounted == Spec => []PipelineCountMatches
<1>1. CoreInv => PipelineCountMatches
  BY DEF CoreInv, CountInv, WarpCounted, PipelineCountMatches
<1> QED BY <1>1, CoreInductive, PTL

-----------------------------------------------------------------------------
(* Barriers at which all warps of a CTA wait for one another.              *)

\* bar.sync without a number of warps or for all of them (__syncthreads()).
WholeCta(i) == i.id \in BarIds /\ i.sync /\ i.count \in {None, PerCta}

OnlyWholeCta(p) == \A n \in DOMAIN p : p[n].op = "bar" => WholeCta(p[n])

Syncs == [id : BarIds, round : Nat, count : Nat \cup {None}]

BarTypes ==
  /\ bars \in [ctas : SUBSET Slots, active : SUBSET Warps, at : SUBSET Warps,
               reached : [BarIds -> SUBSET Warps]]
  /\ history \in [Warps -> [reached : [BarIds -> Nat], sync : Syncs \cup {None}]]

\* The rounds of barrier b that are over for w.
Over(R, H, w, b) == H[w].reached[b] - (IF w \in R[b] THEN 1 ELSE 0)

\* A warp waits at one barrier or none, only running ones wait, and to
\* no warp more rounds are over than to one of its CTA that is running.
Waits(A, T, R, H) ==
  /\ T \subseteq A
  /\ \A b \in BarIds : R[b] \subseteq T
  /\ \A b \in BarIds, c \in BarIds : b # c => R[b] \cap R[c] = {}
  /\ \A s \in Slots, b \in BarIds :
       \A v \in WarpsOf(s) \cap A, w \in WarpsOf(s) : Over(R, H, w, b) <= Over(R, H, v, b)

\* A warp is past the rounds it has reached, its last bar.sync among them.
SyncReached == \A w \in Warps :
  LET s == history[w].sync IN s # None => s.round <= history[w].reached[s.id]

BarInv ==
  /\ OnlyWholeCta(program) /\ BarTypes
  /\ \A w \in Warps : ~FunctionalDone(w) => w \in bars.active
  /\ Waits(bars.active, bars.at, bars.reached, history)
  /\ SyncReached

LEMMA SlotWarps ==
  ASSUME NEW w \in Warps PROVE SlotOf(w) \in Slots /\ w \in WarpsOf(SlotOf(w))
<1>1. PICK n \in Int, p \in Int : n = NumSlots /\ p = PerCta /\ p > 0
  BY ShaderCoreAssumption
<1>2. w \in Int /\ 0 <= w /\ w <= n * p - 1
  BY <1>1 DEF Warps, NumWarps
<1>3. PICK q \in Int : q = w \div p
  BY <1>1, <1>2
<1>4. q * p <= w /\ w <= q * p + p - 1
  BY <1>1, <1>2, <1>3
<1>5. 0 <= q
  <2> SUFFICES ASSUME q <= -1 PROVE FALSE
    BY <1>3
  <2>1. (q + 1) * p <= 0 /\ (q + 1) * p = q * p + p
    BY <1>1, <1>3
  <2> QED BY <1>1, <1>2, <1>4, <2>1
<1>6. q <= n - 1
  <2> SUFFICES ASSUME q >= n PROVE FALSE
    BY <1>1, <1>3
  <2>1. (q - n) * p >= 0 /\ (q - n) * p = q * p - n * p
    BY <1>1, <1>3
  <2> QED BY <1>1, <1>2, <1>4, <2>1
<1> QED BY <1>1, <1>2, <1>3, <1>4, <1>5, <1>6 DEF SlotOf, Slots, WarpsOf

Rounds(H) == \A v \in Warps, c \in BarIds : H[v].reached[c] \in Nat

OneMore(H, G, w, b) == \A v \in Warps, c \in BarIds :
  G[v].reached[c] = IF v = w /\ c = b THEN H[v].reached[c] + 1 ELSE H[v].reached[c]

\* A warp that reaches a barrier, before it is seen whether it is complete: the
\* rounds that are over are the same.
LEMMA ArriveWaits ==
  ASSUME NEW A, NEW T, NEW R \in [BarIds -> SUBSET Warps], NEW H, NEW G,
         Waits(A, T, R, H), NEW w \in Warps, w \in A, w \notin T, NEW b \in BarIds,
         Rounds(H), OneMore(H, G, w, b),
         NEW Q, Q = [R EXCEPT ![b] = R[b] \cup {w}]
  PROVE  Waits(A, T \cup {w}, Q, G)
<1>1. \A c \in BarIds : Q[c] = IF c = b THEN R[c] \cup {w} ELSE R[c]
  OBVIOUS
<1>2. \A c \in BarIds : w \notin R[c]
  BY DEF Waits
<1>3. ASSUME NEW v \in Warps, NEW c \in BarIds PROVE Over(Q, G, v, c) = Over(R, H, v, c)
  <2>1. G[v].reached[c] = IF v = w /\ c = b THEN H[v].reached[c] + 1 ELSE H[v].reached[c]
    BY DEF OneMore
  <2>2. PICK n \in Nat : n = H[v].reached[c]
    BY DEF Rounds
  <2>3. v \in Q[c] <=> v \in R[c] \/ (v = w /\ c = b)
    BY <1>1
  <2> QED BY <2>1, <2>2, <2>3, <1>2 DEF Over
<1>4. \A s \in Slots : \A v \in WarpsOf(s) : v \in Warps
  BY OwnWarps
<1>5. T \cup {w} \subseteq A /\ \A c \in BarIds : Q[c] \subseteq T \cup {w}
  BY <1>1 DEF Waits
<1>6. \A c \in BarIds, d \in BarIds : c # d => Q[c] \cap Q[d] = {}
  BY <1>1, <1>2 DEF Waits
<1>7. ASSUME NEW s \in Slots, NEW c \in BarIds, NEW v \in WarpsOf(s) \cap A, NEW u \in WarpsOf(s)
      PROVE  Over(Q, G, u, c) <= Over(Q, G, v, c)
  <2>1. Over(R, H, u, c) <= Over(R, H, v, c)
    BY DEF Waits
  <2>2. Over(Q, G, u, c) = Over(R, H, u, c) /\ Over(Q, G, v, c) = Over(R, H, v, c)
    BY <1>3, <1>4
  <2> QED BY <2>1, <2>2
<1> QED BY <1>5, <1>6, <1>7 DEF Waits

\* Barriers C are released at which all running warps of a CTA wait: T and R
\* become S and Q.
Releases(s, C, A, T, R, S, Q) ==
  /\ C \subseteq BarIds
  /\ \A b \in C : WarpsOf(s) \cap R[b] = WarpsOf(s) \cap A
  /\ \A x : x \in S <=> x \in T /\ \A b \in C : ~(x \in WarpsOf(s) /\ x \in R[b])
  /\ \A b \in BarIds : Q[b] = IF b \in C THEN R[b] \ (WarpsOf(s) \cap R[b]) ELSE R[b]

\* One more round is over for all of them.
LEMMA ReleaseWaits ==
  ASSUME NEW A, NEW T, NEW R, NEW H, Waits(A, T, R, H), Rounds(H),
         NEW s \in Slots, NEW C, NEW S, NEW Q, Releases(s, C, A, T, R, S, Q)
  PROVE  Waits(A, S, Q, H)
<1>1. /\ \A v \in Warps, c \in BarIds : H[v].reached[c] \in Nat
      /\ C \subseteq BarIds
      /\ \A b \in C : WarpsOf(s) \cap R[b] = WarpsOf(s) \cap A
      /\ \A x : x \in S <=> x \in T /\ \A b \in C : ~(x \in WarpsOf(s) /\ x \in R[b])
      /\ \A b \in BarIds : Q[b] = IF b \in C THEN R[b] \ (WarpsOf(s) \cap R[b]) ELSE R[b]
  BY DEF Rounds, Releases
<1>2. S \subseteq A
  BY <1>1 DEF Waits
<1>3. ASSUME NEW b \in BarIds, NEW x \in Q[b] PROVE x \in S
  <2>1. x \in R[b] /\ x \in T
    BY <1>1 DEF Waits
  <2>2. ASSUME NEW c \in C, x \in WarpsOf(s), x \in R[c] PROVE FALSE
    <3>1. \A d \in BarIds, e \in BarIds : \A y \in R[d] : y \in R[e] => d = e
      BY DEF Waits
    <3>2. c = b
      BY <1>1, <2>1, <2>2, <3>1
    <3> QED BY <1>1, <2>2, <3>2
  <2> QED BY <1>1, <2>1, <2>2
<1>4. \A b \in BarIds, c \in BarIds : b # c => Q[b] \cap Q[c] = {}
  BY <1>1 DEF Waits
<1>5. ASSUME NEW t \in Slots, NEW b \in BarIds, NEW v \in WarpsOf(t) \cap A, NEW w \in WarpsOf(t)
      PROVE  Over(Q, H, w, b) <= Over(Q, H, v, b)
  <2>1. v \in Warps /\ w \in Warps
    BY OwnWarps
  <2>2. Over(R, H, w, b) <= Over(R, H, v, b)
    BY <1>1 DEF Waits
  <2>3. PICK m \in Nat, n \in Nat : m = H[w].reached[b] /\ n = H[v].reached[b]
    BY <1>1, <2>1
  <2>4. CASE t = s /\ b \in C
    <3>1. v \in R[b] /\ v \notin Q[b]
      BY <1>1, <2>4
    <3>2. w \notin Q[b]
      BY <1>1, <2>4
    <3> QED BY <2>2, <2>3, <3>1, <3>2 DEF Over
  <2>5. CASE t = s /\ b \notin C
    BY <1>1, <2>2, <2>3, <2>5 DEF Over
  <2>6. CASE t # s
    <3>1. v \notin WarpsOf(s) /\ w \notin WarpsOf(s)
      BY <2>6, DisjointWarps
    <3>2. (v \in Q[b] <=> v \in R[b]) /\ (w \in Q[b] <=> w \in R[b])
      BY <1>1, <3>1
    <3> QED BY <2>2, <2>3, <3>2 DEF Over
  <2> QED BY <2>4, <2>5, <2>6
<1> QED BY <1>2, <1>3, <1>4, <1>5 DEF Waits

\* A warp exits, which does not wait.
LEMMA LeaveWaits ==
  ASSUME NEW A, NEW T, NEW R, NEW H, Waits(A, T, R, H), NEW w, w \notin T
  PROVE  Waits(A \ {w}, T, R, H)
BY DEF Waits

\* CTAs give their slots back.
LEMMA ClearWaits ==
  ASSUME NEW A, NEW T, NEW R, NEW H, Waits(A, T, R, H), NEW F \in SUBSET Slots,
         NEW G, G = UNION {WarpsOf(s) : s \in F},
         NEW Q, \A b \in BarIds : Q[b] = R[b] \ G
  PROVE  Waits(A \ G, T \ G, Q, H)
<1>1. \A b \in BarIds : Q[b] \subseteq T \ G
  BY DEF Waits
<1>2. \A b \in BarIds, c \in BarIds : b # c => Q[b] \cap Q[c] = {}
  BY DEF Waits
<1>3. ASSUME NEW t \in Slots, NEW b \in BarIds, NEW v \in WarpsOf(t) \cap (A \ G),
             NEW w \in WarpsOf(t)
      PROVE  Over(Q, H, w, b) <= Over(Q, H, v, b)
  <2>1. t \notin F
    OBVIOUS
  <2>2. v \notin G /\ w \notin G
    BY <2>1, DisjointWarps
  <2>3. (v \in Q[b] <=> v \in R[b]) /\ (w \in Q[b] <=> w \in R[b])
    BY <2>2
  <2>4. Over(Q, H, w, b) = Over(R, H, w, b) /\ Over(Q, H, v, b) = Over(R, H, v, b)
    BY <2>3 DEF Over
  <2>5. Over(R, H, w, b) <= Over(R, H, v, b)
    BY DEF Waits
  <2> QED BY <2>4, <2>5
<1>4. A \ G \subseteq A /\ T \ G \subseteq A \ G
  BY DEF Waits
<1> QED BY <1>1, <1>2, <1>3, <1>4 DEF Waits

\* A CTA is launched, for whose warps no round has begun.
LEMMA FreshWaits ==
  ASSUME NEW A, NEW T, NEW R, NEW H, NEW G, NEW s \in Slots, Waits(A, T, R, H),
         WarpsOf(s) \cap A = {},
         \A v \in Warps : v \notin WarpsOf(s) => G[v] = H[v],
         \A v \in WarpsOf(s), b \in BarIds : G[v].reached[b] = 0
  PROVE  Waits(A \cup WarpsOf(s), T, R, G)
<1>1. \A b \in BarIds : WarpsOf(s) \cap R[b] = {}
  BY DEF Waits
<1>2. ASSUME NEW t \in Slots, NEW b \in BarIds, NEW v \in WarpsOf(t) \cap (A \cup WarpsOf(s)),
             NEW w \in WarpsOf(t)
      PROVE  Over(R, G, w, b) <= Over(R, G, v, b)
  <2>1. CASE t = s
    BY <2>1, <1>1 DEF Over
  <2>2. CASE t # s
    <3>1. v \notin WarpsOf(s) /\ w \notin WarpsOf(s) /\ v \in Warps /\ w \in Warps
      BY <2>2, DisjointWarps, OwnWarps
    <3>2. G[v] = H[v] /\ G[w] = H[w] /\ v \in A
      BY <3>1
    <3>3. Over(R, G, w, b) = Over(R, H, w, b) /\ Over(R, G, v, b) = Over(R, H, v, b)
      BY <3>2 DEF Over
    <3>4. Over(R, H, w, b) <= Over(R, H, v, b)
      BY <3>2 DEF Waits
    <3> QED BY <3>3, <3>4
  <2> QED BY <2>1, <2>2
<1> QED BY <1>2 DEF Waits

LEMMA InitBar ==
  ASSUME Init, \A p \in Programs : OnlyWholeCta(p) PROVE BarInv
<1>1. /\ bars = [ctas |-> {}, active |-> {}, at |-> {}, reached |-> [b \in BarIds |-> {}]]
      /\ history = [w \in Warps |-> [reached |-> [b \in BarIds |-> 0], sync |-> None]]
  BY DEF Init, NoHistory
<1>2. BarTypes
  BY <1>1 DEF BarTypes
<1>3. \A w \in Warps : FunctionalDone(w)
  BY DEF Init, NoWarp, FunctionalDone
<1>4. Waits(bars.active, bars.at, bars.reached, history)
  BY <1>1 DEF Waits
<1>5. SyncReached
  BY <1>1 DEF SyncReached
<1> QED BY <1>2, <1>3, <1>4, <1>5 DEF BarInv, Init

\* What issue_warp() does to the barriers: the last thread of a warp makes it
\* exit, else an instruction may reach one.
LEMMA IssueBars ==
  ASSUME FetchInv, NEW w \in Warps, Issue(w)
  PROVE  LET i == program[warp[w].ibuf[warp[w].next]] IN
         bars' = IF FunctionalDone(w)' THEN WarpExit(w)
                 ELSE IF i.op = "bar" THEN Reaches(w, i)
                 ELSE bars
<1> DEFINE u == warp[w]
           pc == u.ibuf[u.next]
           i == program[pc]
           freed == [u.ibuf EXCEPT ![u.next] = 0]
           new(pcs) == [u EXCEPT
             !.pc = pcs,
             !.stack = Updated(@, pcs, i, pc),
             !.ibuf = IF i.op = "exit" THEN <<0, 0>> ELSE freed,
             !.inPipe = IF i.op = "exit" THEN @ - Valid(freed) ELSE @,
             !.next = 3 - @,
             !.nextPc = pc + 1,
             !.membar = (i.op = "membar"),
             !.flying = @ (+) SetToBag({pc}),
             !.reserved = @ \cup i.writes]
<1>1. PICK pcs :
        /\ warp' = [warp EXCEPT ![w] = new(pcs)]
        /\ bars' = IF \A l \in Lanes : pcs[l] = None THEN WarpExit(w)
                   ELSE IF i.op = "bar" THEN Reaches(w, i)
                   ELSE bars
  BY Zenon DEF Issue
<1> DEFINE g(a, b, c, d, e, f, x, y) == [u EXCEPT
              !.pc = a, !.stack = b, !.ibuf = c, !.inPipe = d, !.next = 3 - u.next,
              !.nextPc = e, !.membar = f, !.flying = x, !.reserved = y]
<1>2. new(pcs) = g(pcs, Updated(u.stack, pcs, i, pc),
                   IF i.op = "exit" THEN <<0, 0>> ELSE freed,
                   IF i.op = "exit" THEN u.inPipe - Valid(freed) ELSE u.inPipe,
                   pc + 1, i.op = "membar", u.flying (+) SetToBag({pc}),
                   u.reserved \cup i.writes)
  OBVIOUS
<1>3. DOMAIN u = Fields /\ w \in DOMAIN warp
  BY DEF FetchInv, WarpTypes
<1>4. new(pcs).pc = pcs
  <2>1. ASSUME NEW a, NEW b, NEW c, NEW d, NEW e, NEW f, NEW x, NEW y,
               NEW z, z = g(a, b, c, d, e, f, x, y)
        PROVE  z.pc = a
    <3> HIDE DEF u
    <3> QED BY <1>3, <2>1 DEF Fields
  <2> HIDE DEF g, new, pc, i, freed, u
  <2> QED BY <1>2, <2>1
<1>5. warp'[w] = new(pcs)
  <2> HIDE DEF u, new, g, pc, i, freed
  <2> QED BY <1>1, <1>3
<1>6. FunctionalDone(w)' = (\A l \in Lanes : pcs[l] = None)
  <2>1. warp'[w].pc = pcs
    BY <1>4, <1>5
  <2> QED BY <2>1 DEF FunctionalDone
<1> HIDE DEF new, g
<1> QED BY <1>1, <1>6, Zenon

\* The threads of a warp go on behind a barrier.
LEMMA BarGoesOn ==
  ASSUME CoreInv, NEW w \in Warps, Issue(w),
         program[warp[w].ibuf[warp[w].next]].op = "bar"
  PROVE  ~FunctionalDone(w)'
<1>1. PICK pcs, taken : Issued(w, pcs, taken)
  BY IssueIs DEF CoreInv
<1>2. PICK pc \in DOMAIN program : pc = warp[w].ibuf[warp[w].next] /\ program[pc].op = "bar"
  BY DEF Issue
<1>3. pc + 1 # None
  BY <1>2, ProgramHere, ProgramIs, ShaderCoreAssumption DEF CoreInv
<1>4. PICK l \in Lanes : warp[w].pc[l] # None
  BY DEF Issue, Candidate, Waiting, FunctionalDone
<1>5. taken = {} /\ \E mask : pcs = Executed(w, program[pc], pc, mask, taken)
  BY <1>1, <1>2 DEF Issued, Takers
<1>6. pcs[l] # None
  BY <1>2, <1>3, <1>4, <1>5 DEF Executed
<1> QED BY <1>1, <1>6 DEF Issued, FunctionalDone

\* warp_exit(): what is complete without the warp is released.
LEMMA ExitBar ==
  ASSUME BarInv, NEW w \in Warps, w \notin bars.at, bars' = WarpExit(w),
         UNCHANGED <<program, history>>, FunctionalDone(w)',
         \A v \in Warps : v # w => warp'[v].pc = warp[v].pc
  PROVE  BarInv'
<1> DEFINE s == SlotOf(w)
           A == bars.active \ {w}
           here(b) == WarpsOf(s) \cap bars.reached[b]
           C == {b \in BarIds : here(b) = WarpsOf(s) \cap A}
<1>1. /\ bars \in [ctas : SUBSET Slots, active : SUBSET Warps, at : SUBSET Warps,
                   reached : [BarIds -> SUBSET Warps]]
      /\ history \in [Warps -> [reached : [BarIds -> Nat], sync : Syncs \cup {None}]]
  BY DEF BarInv, BarTypes
<1>2. bars' = [bars EXCEPT
        !.active = A,
        !.reached = [b \in BarIds |-> IF b \in C THEN bars.reached[b] \ here(b)
                                      ELSE bars.reached[b]],
        !.at = bars.at \ UNION {here(b) : b \in C}]
  BY DEF WarpExit
<1>3. s \in Slots
  BY SlotWarps
<1>4. /\ C \in SUBSET BarIds
      /\ \A b \in C : WarpsOf(s) \cap bars.reached[b] = WarpsOf(s) \cap A
  OBVIOUS
<1> HIDE DEF s, A, C
<1>5. /\ bars'.active = A
      /\ bars'.at = bars.at \ UNION {here(b) : b \in C}
      /\ \A b \in BarIds : bars'.reached[b] =
           IF b \in C THEN bars.reached[b] \ here(b) ELSE bars.reached[b]
  BY <1>1, <1>2
<1>6. BarTypes'
  <2>1. bars.at \ UNION {here(b) : b \in C} \in SUBSET Warps /\ A \in SUBSET Warps
    BY <1>1 DEF A
  <2>2. [b \in BarIds |-> IF b \in C THEN bars.reached[b] \ here(b) ELSE bars.reached[b]]
          \in [BarIds -> SUBSET Warps]
    BY <1>1
  <2> HIDE DEF here
  <2> QED BY <1>1, <1>2, <2>1, <2>2 DEF BarTypes
<1>7. Waits(A, bars.at, bars.reached, history)
  BY LeaveWaits DEF A, BarInv
<1>8. Waits(A, bars'.at, bars'.reached, history)
  <2>1. Releases(s, C, A, bars.at, bars.reached, bars'.at, bars'.reached)
    <3>1. \A x : x \in bars'.at <=>
            x \in bars.at /\ \A b \in C : ~(x \in WarpsOf(s) /\ x \in bars.reached[b])
      BY <1>5
    <3> QED BY <1>4, <1>5, <3>1 DEF Releases
  <2>2. Rounds(history)
    BY <1>1 DEF Rounds
  <2> QED BY <1>3, <1>7, <2>1, <2>2, ReleaseWaits
<1>9. ASSUME NEW v \in Warps, ~FunctionalDone(v)' PROVE v \in bars'.active
  <2>1. v # w
    BY <1>9
  <2>2. ~FunctionalDone(v)
    BY <1>9, <2>1 DEF FunctionalDone
  <2> QED BY <2>1, <2>2, <1>5 DEF A, BarInv
<1>10. Waits(bars.active, bars.at, bars.reached, history)'
  BY <1>5, <1>8
<1> QED BY <1>6, <1>9, <1>10 DEF BarInv, SyncReached

\* As many warps as the CTA has are all of them.
LEMMA AllOfCta ==
  ASSUME NEW s \in Slots, NEW S \in SUBSET WarpsOf(s), Cardinality(S) = PerCta
  PROVE  S = WarpsOf(s)
<1>1. PICK a \in Int, p \in Int : a = s * PerCta /\ p = PerCta /\ p > 0
  BY ShaderCoreAssumption DEF Slots
<1>2. WarpsOf(s) = a .. a + p - 1
  BY <1>1 DEF WarpsOf
<1>3. IsFiniteSet(WarpsOf(s)) /\ Cardinality(WarpsOf(s)) = p
  BY <1>1, <1>2, FS_Interval
<1> QED BY <1>1, <1>3, FS_Subset

\* warp_reaches_barrier(): the warp waits, unless it makes the barrier complete.
LEMMA ReachBar ==
  ASSUME BarInv, NEW w \in Warps, w \notin bars.at, w \in bars.active,
         NEW i, WholeCta(i), bars' = Reaches(w, i), UNCHANGED program,
         \A v \in Warps : ~FunctionalDone(v)' => ~FunctionalDone(v) \/ v = w,
         NEW n \in Nat, n = history[w].reached[i.id] + 1,
         history' = [history EXCEPT
           ![w].reached[i.id] = n, ![w].sync = [id |-> i.id, round |-> n, count |-> i.count]]
  PROVE  BarInv'
<1> DEFINE s == SlotOf(w)
           R == [bars.reached EXCEPT ![i.id] = @ \cup {w}]
           T == bars.at \cup {w}
           here == WarpsOf(s) \cap R[i.id]
           full == IF i.count = None THEN here = WarpsOf(s) \cap bars.active
                   ELSE Cardinality(here) = i.count
           C == IF full THEN {i.id} ELSE {}
<1>1. /\ bars \in [ctas : SUBSET Slots, active : SUBSET Warps, at : SUBSET Warps,
                   reached : [BarIds -> SUBSET Warps]]
      /\ history \in [Warps -> [reached : [BarIds -> Nat], sync : Syncs \cup {None}]]
  BY DEF BarInv, BarTypes
<1>2. i.id \in BarIds /\ i.sync /\ i.count \in Nat \cup {None}
  BY ShaderCoreAssumption DEF WholeCta
<1>3. s \in Slots
  BY SlotWarps
<1>4. R \in [BarIds -> SUBSET Warps] /\ R[i.id] = bars.reached[i.id] \cup {w}
  BY <1>1, <1>2
<1>5. bars' = [bars EXCEPT
        !.reached[i.id] = IF full THEN R[i.id] \ here ELSE R[i.id],
        !.at = IF full THEN T \ here ELSE T]
  BY <1>2, <1>4 DEF Reaches
<1> HIDE DEF s, full
<1>6. /\ bars'.active = bars.active
      /\ bars'.at = IF full THEN T \ here ELSE T
      /\ bars'.reached = [bars.reached EXCEPT
                            ![i.id] = IF full THEN R[i.id] \ here ELSE R[i.id]]
  BY <1>1, <1>5
<1>7. history' \in [Warps -> [reached : [BarIds -> Nat], sync : Syncs \cup {None}]]
  <2>1. [id |-> i.id, round |-> n, count |-> i.count] \in Syncs
    BY <1>2 DEF Syncs
  <2>2. PICK h : h = history[w]
    OBVIOUS
  <2>3. h \in [reached : [BarIds -> Nat], sync : Syncs \cup {None}]
    BY <1>1, <2>2
  <2>4. PICK g : g = [reached |-> [h.reached EXCEPT ![i.id] = n],
                     sync |-> [id |-> i.id, round |-> n, count |-> i.count]]
    OBVIOUS
  <2>5. g \in [reached : [BarIds -> Nat], sync : Syncs \cup {None}]
    BY <1>2, <2>1, <2>3, <2>4
  <2>6. history'[w] = g
    BY <1>1, <2>2, <2>3, <2>4
  <2>7. \A v \in Warps : v # w => history'[v] = history[v]
    BY <1>1
  <2>8. \A v \in Warps : history'[v] \in [reached : [BarIds -> Nat], sync : Syncs \cup {None}]
    BY <1>1, <2>5, <2>6, <2>7
  <2>9. history' = [v \in Warps |-> history'[v]]
    BY <1>1
  <2> QED BY <2>8, <2>9
<1>8. BarTypes'
  <2>1. bars'.at \in SUBSET Warps /\ bars'.reached \in [BarIds -> SUBSET Warps]
    BY <1>1, <1>4, <1>6
  <2>2. bars' \in [ctas : SUBSET Slots, active : SUBSET Warps, at : SUBSET Warps,
                   reached : [BarIds -> SUBSET Warps]]
    BY <1>1, <1>5, <1>6, <2>1
  <2> QED BY <1>7, <2>2 DEF BarTypes
<1>9. \A v \in Warps, c \in BarIds :
        history'[v].reached[c] = IF v = w /\ c = i.id THEN history[v].reached[c] + 1
                                 ELSE history[v].reached[c]
  BY <1>1, <1>2
<1>10. Waits(bars.active, T, R, history')
  <2>1. Waits(bars.active, bars.at, bars.reached, history)
    BY DEF BarInv
  <2>2. Rounds(history) /\ OneMore(history, history', w, i.id)
    BY <1>1, <1>9 DEF Rounds, OneMore
  <2>3. bars.reached \in [BarIds -> SUBSET Warps]
    BY <1>1
  <2> QED BY <1>2, <1>9, <2>1, <2>2, <2>3, ArriveWaits
<1>11. Releases(s, C, bars.active, T, R, bars'.at, bars'.reached)
  <2>1. full => here = WarpsOf(s) \cap bars.active
    <3>1. CASE i.count = None
      BY <3>1 DEF full
    <3>2. CASE i.count # None
      <4>1. full => Cardinality(here) = PerCta
        BY <3>2 DEF full, WholeCta
      <4>2. full => here = WarpsOf(s)
        BY <1>3, <4>1, AllOfCta
      <4>3. R[i.id] \subseteq bars.active
        BY <1>2, <1>10 DEF Waits
      <4> QED BY <4>2, <4>3
    <3> QED BY <3>1, <3>2
  <2>2. C \subseteq BarIds
    BY <1>2
  <2>3. \A b \in C : WarpsOf(s) \cap R[b] = WarpsOf(s) \cap bars.active
    BY <2>1
  <2>4. \A x : x \in bars'.at <=> x \in T /\ \A b \in C : ~(x \in WarpsOf(s) /\ x \in R[b])
    BY <1>6
  <2>5. \A b \in BarIds :
          bars'.reached[b] = IF b \in C THEN R[b] \ (WarpsOf(s) \cap R[b]) ELSE R[b]
    BY <1>1, <1>2, <1>4, <1>6
  <2> HIDE DEF C, R, T, here
  <2> QED BY <2>2, <2>3, <2>4, <2>5 DEF Releases
<1>12. Rounds(history')
  BY <1>7 DEF Rounds
<1>13. Waits(bars.active, bars.at, bars.reached, history)'
  <2> HIDE DEF C, R, T, here
  <2> QED BY <1>3, <1>6, <1>10, <1>11, <1>12, ReleaseWaits
<1>14. \A v \in Warps : ~FunctionalDone(v)' => v \in bars'.active
  BY <1>6 DEF BarInv
<1>15. SyncReached'
  <2>1. ASSUME NEW v \in Warps, history'[v].sync # None
        PROVE  history'[v].sync.round <= history'[v].reached[history'[v].sync.id]
    <3>1. CASE v = w
      <4>1. history'[v].sync = [id |-> i.id, round |-> n, count |-> i.count]
        BY <1>1, <3>1
      <4>2. PICK g : g = history'[v]
        OBVIOUS
      <4>3. g.sync.id = i.id /\ g.sync.round = n
        BY <4>1, <4>2
      <4>4. history'[w].reached[i.id] = history[w].reached[i.id] + 1
        BY <1>1, <1>2, <1>9
      <4>5. g.reached[i.id] = n
        BY <3>1, <4>2, <4>4
      <4>6. n <= n
        OBVIOUS
      <4> QED BY <4>2, <4>3, <4>5, <4>6, Zenon
    <3>2. CASE v # w
      BY <1>1, <2>1, <3>2 DEF BarInv, SyncReached
    <3> QED BY <3>1, <3>2
  <2> QED BY <2>1 DEF SyncReached
<1> QED BY <1>8, <1>13, <1>14, <1>15 DEF BarInv

LEMMA KeepBar ==
  ASSUME BarInv, UNCHANGED <<program, bars, history>>,
         \A v \in Warps : ~FunctionalDone(v)' => ~FunctionalDone(v)
  PROVE  BarInv'
BY DEF BarInv, BarTypes, Waits, Over, SyncReached

LEMMA IssueBar ==
  ASSUME CoreInv, BarInv, NEW w \in Warps, Issue(w) PROVE BarInv'
<1>1. PICK pc \in DOMAIN program : pc = warp[w].ibuf[warp[w].next]
  BY DEF Issue
<1>2. PICK i : i = program[pc]
  OBVIOUS
<1>3. /\ ~FunctionalDone(w) /\ w \notin bars.at
      /\ UNCHANGED program
  BY DEF Issue, Candidate, Waiting
<1>4. w \in bars.active
  BY <1>3 DEF BarInv
<1>5. bars' = IF FunctionalDone(w)' THEN WarpExit(w)
              ELSE IF i.op = "bar" THEN Reaches(w, i) ELSE bars
  BY <1>1, <1>2, IssueBars DEF CoreInv
<1>6. \A v \in Warps : v # w => warp'[v] = warp[v]
  BY IssueIs DEF CoreInv
<1>7. \A v \in Warps : ~FunctionalDone(v)' => ~FunctionalDone(v) \/ v = w
  BY <1>6 DEF FunctionalDone
<1>8. CASE i.op = "bar"
  <2>1. WholeCta(i)
    BY <1>1, <1>2, <1>8 DEF BarInv, OnlyWholeCta
  <2>2. PICK n : n = history[w].reached[i.id] + 1
    OBVIOUS
  <2>3. n \in Nat
    BY <2>1, <2>2 DEF BarInv, BarTypes, WholeCta
  <2>4. history' = [history EXCEPT
          ![w].reached[i.id] = n,
          ![w].sync = IF i.sync THEN [id |-> i.id, round |-> n, count |-> i.count] ELSE @]
    BY <1>1, <1>2, <1>8, <2>2, Zenon DEF Issue
  <2>5. history' = [history EXCEPT
          ![w].reached[i.id] = n,
          ![w].sync = [id |-> i.id, round |-> n, count |-> i.count]]
    BY <2>1, <2>4 DEF WholeCta
  <2>6. bars' = Reaches(w, i)
    BY <1>1, <1>2, <1>5, <1>8, BarGoesOn
  <2> QED BY <1>3, <1>4, <1>7, <2>1, <2>2, <2>3, <2>5, <2>6, ReachBar
<1>9. CASE i.op # "bar"
  <2>1. history' = history
    BY <1>1, <1>2, <1>9 DEF Issue
  <2>2. CASE FunctionalDone(w)'
    BY <1>3, <1>5, <1>6, <2>1, <2>2, ExitBar
  <2>3. CASE ~FunctionalDone(w)'
    BY <1>3, <1>5, <1>7, <1>9, <2>1, <2>3, KeepBar
  <2> QED BY <2>2, <2>3
<1> QED BY <1>8, <1>9

\* allocate_barrier(): a warp of a free slot waits nowhere, and is not running
\* when the slot is taken again.
LEMMA LaunchBar ==
  ASSUME FetchInv, BarInv, NEW s \in Slots, Launch(s) PROVE BarInv'
<1>1. /\ bars \in [ctas : SUBSET Slots, active : SUBSET Warps, at : SUBSET Warps,
                   reached : [BarIds -> SUBSET Warps]]
      /\ history \in [Warps -> [reached : [BarIds -> Nat], sync : Syncs \cup {None}]]
  BY DEF BarInv, BarTypes
<1>2. /\ bars' = [ctas |-> bars.ctas \cup {s},
                  active |-> bars.active \cup WarpsOf(s),
                  at |-> bars.at \ WarpsOf(s),
                  reached |-> [b \in BarIds |-> bars.reached[b] \ WarpsOf(s)]]
      /\ history' = [w \in Warps |-> IF w \in WarpsOf(s) THEN NoHistory ELSE history[w]]
      /\ UNCHANGED program
  BY DEF Launch
<1>3. WarpsOf(s) \subseteq Warps
  BY OwnWarps
<1>4. NoHistory \in [reached : [BarIds -> Nat], sync : Syncs \cup {None}]
      /\ NoHistory.sync = None /\ \A b \in BarIds : NoHistory.reached[b] = 0
  BY DEF NoHistory
<1>5. BarTypes'
  <2>1. history' \in [Warps -> [reached : [BarIds -> Nat], sync : Syncs \cup {None}]]
    BY <1>1, <1>2, <1>4
  <2>2. [b \in BarIds |-> bars.reached[b] \ WarpsOf(s)] \in [BarIds -> SUBSET Warps]
    BY <1>1
  <2>3. /\ bars.ctas \cup {s} \in SUBSET Slots /\ bars.active \cup WarpsOf(s) \in SUBSET Warps
        /\ bars.at \ WarpsOf(s) \in SUBSET Warps
    BY <1>1, <1>3
  <2> QED BY <1>2, <2>1, <2>2, <2>3 DEF BarTypes
<1>6. \A w \in Warps : w \notin WarpsOf(s) => warp'[w] = warp[w]
  BY DEF Launch
<1>7. \A w \in Warps : ~FunctionalDone(w)' => w \in bars'.active
  <2>1. ASSUME NEW w \in Warps, ~FunctionalDone(w)', w \notin WarpsOf(s)
        PROVE  w \in bars.active
    BY <1>6, <2>1 DEF FunctionalDone, BarInv
  <2> QED BY <1>2, <2>1
<1>8. PICK A, T, Q : /\ A = bars.active \ WarpsOf(s) /\ T = bars.at \ WarpsOf(s)
                     /\ Q = [b \in BarIds |-> bars.reached[b] \ WarpsOf(s)]
  OBVIOUS
<1>9. Waits(A, T, Q, history)
  <2>1. Waits(bars.active, bars.at, bars.reached, history)
    BY DEF BarInv
  <2> DEFINE F == {s}
             G == UNION {WarpsOf(t) : t \in F}
  <2>2. F \in SUBSET Slots /\ G = WarpsOf(s)
    OBVIOUS
  <2> HIDE DEF F
  <2>3. PICK U : U = G
    OBVIOUS
  <2>4. \A b \in BarIds : Q[b] = bars.reached[b] \ U
    BY <1>8, <2>2, <2>3
  <2>5. Waits(bars.active \ U, bars.at \ U, Q, history)
    BY <2>1, <2>2, <2>3, <2>4, ClearWaits
  <2> QED BY <1>8, <2>2, <2>3, <2>5
<1>10. Waits(A \cup WarpsOf(s), T, Q, history')
  <2>1. \A v \in Warps : v \notin WarpsOf(s) => history'[v] = history[v]
    BY <1>2
  <2>2. \A v \in WarpsOf(s), b \in BarIds : history'[v].reached[b] = 0
    BY <1>2, <1>3, <1>4
  <2>3. WarpsOf(s) \cap A = {}
    BY <1>8
  <2> QED BY <1>9, <2>1, <2>2, <2>3, FreshWaits
<1>11. Waits(bars.active, bars.at, bars.reached, history)'
  <2>1. bars'.active = A \cup WarpsOf(s) /\ bars'.at = T /\ bars'.reached = Q
    BY <1>2, <1>8
  <2> QED BY <1>10, <2>1
<1>12. SyncReached'
  BY <1>2, <1>4 DEF SyncReached, BarInv
<1> QED BY <1>2, <1>5, <1>7, <1>11, <1>12 DEF BarInv

\* deallocate_barrier(): the warps of a slot that becomes free are done.
LEMMA FetchBar ==
  ASSUME FetchInv, BarInv, NEW outcome \in {"hit", "miss", "fail"},
         NEW answer \in Warps \cup {None}, Fetch(outcome, answer)
  PROVE  BarInv'
<1> DEFINE scan == {Scan(i) : i \in 0 .. Scanned - 1}
           exiting == {w \in scan : Reclaimable(w)}
           free == {s \in bars.ctas : WarpsOf(s) \cap exiting # {} /\
                      \A w \in WarpsOf(s) : w \in exiting \/ warp[w].doneExit}
           gone == UNION {WarpsOf(s) : s \in free}
<1>1. /\ bars \in [ctas : SUBSET Slots, active : SUBSET Warps, at : SUBSET Warps,
                   reached : [BarIds -> SUBSET Warps]]
      /\ history \in [Warps -> [reached : [BarIds -> Nat], sync : Syncs \cup {None}]]
  BY DEF BarInv, BarTypes
<1>2. /\ bars' = [ctas |-> bars.ctas \ free, active |-> bars.active \ gone,
                  at |-> bars.at \ gone,
                  reached |-> [b \in BarIds |-> bars.reached[b] \ gone]]
      /\ UNCHANGED <<program, history>>
  BY DEF Fetch
<1>3. \A w \in exiting : FunctionalDone(w)
  BY DEF Reclaimable
<1>4. /\ free \in SUBSET Slots
      /\ \A s \in free : \A w \in WarpsOf(s) : w \in exiting \/ warp[w].doneExit
  BY <1>1
<1> HIDE DEF exiting, free
<1>5. \A w \in gone : w \in Warps /\ FunctionalDone(w)
  BY <1>3, <1>4, OwnWarps DEF FetchInv, ReclaimedAreDone
<1>6. \A w \in Warps : FunctionalDone(w)' = FunctionalDone(w)
  BY StepKeeps DEF FetchCycle, Keeps, FunctionalDone
<1>7. PICK G : G = gone
  OBVIOUS
<1> HIDE DEF gone
<1>8. BarTypes'
  <2>1. [b \in BarIds |-> bars.reached[b] \ gone] \in [BarIds -> SUBSET Warps]
    BY <1>1
  <2> QED BY <1>1, <1>2, <2>1 DEF BarTypes
<1>9. \A w \in Warps : ~FunctionalDone(w)' => w \in bars'.active
  BY <1>2, <1>5, <1>6 DEF BarInv
<1>10. Waits(bars.active, bars.at, bars.reached, history)'
  <2>1. Waits(bars.active, bars.at, bars.reached, history)
    BY DEF BarInv
  <2>2. \A b \in BarIds : bars'.reached[b] = bars.reached[b] \ G
    BY <1>2, <1>7
  <2>3. G = UNION {WarpsOf(s) : s \in free}
    BY <1>7 DEF gone
  <2>4. Waits(bars.active \ G, bars.at \ G, bars'.reached, history)
    BY <1>4, <2>1, <2>2, <2>3, ClearWaits
  <2> QED BY <1>2, <1>7, <2>4
<1> QED BY <1>2, <1>8, <1>9, <1>10 DEF BarInv, SyncReached

LEMMA BarStep ==
  ASSUME CoreInv, BarInv, [Next]_vars PROVE BarInv'
<1>1. CASE FetchCycle
  BY <1>1, FetchBar DEF FetchCycle, CoreInv
<1>2. CASE Decode \/ \E w \in Warps : Flush(w) \/ Complete(w) \/ Written(w)
  <2>1. UNCHANGED <<program, bars, history>>
    BY <1>2 DEF Decode, Flush, Complete, Written
  <2>2. \A w \in Warps : FunctionalDone(w)' = FunctionalDone(w)
    BY <1>2, StepKeeps DEF CoreInv, Keeps, FunctionalDone
  <2> QED BY <2>1, <2>2, KeepBar
<1>3. CASE \E w \in Warps : Issue(w)
  BY <1>3, IssueBar
<1>4. CASE \E s \in Slots : Launch(s)
  BY <1>4, LaunchBar DEF CoreInv
<1>5. CASE UNCHANGED vars
  BY <1>5, KeepBar DEF vars, FunctionalDone
<1> QED BY <1>1, <1>2, <1>3, <1>4, <1>5 DEF Next, Step

\* Among kernels whose barriers are for all warps of a CTA, with as many barriers as
\* they like and in any branches: a warp goes on after bar.sync only when all warps
\* of its CTA that are running have reached the barrier as often as itself, and
\* none is left in a barrier when the CTA ends (warp_reaches_barrier(),
\* shader.cc:2901, and the assertions of deallocate_barrier(), shader.cc:2883).
THEOREM CtasSynchronized ==
  ASSUME \A p \in Programs : OnlyWholeCta(p)
  PROVE  Spec => []BarriersHold
<1>1. BarInv => BarriersHold
  <2> SUFFICES ASSUME BarInv PROVE BarriersHold
    OBVIOUS
  <2>1. PICK A, T, R : A = bars.active /\ T = bars.at /\ R = bars.reached
    OBVIOUS
  <2>2. Waits(A, T, R, history)
    BY <2>1 DEF BarInv
  <2>3. NobodyLeftAtBarrier
    <3>1. T \subseteq A /\ \A b \in BarIds : R[b] \subseteq A
      BY <2>2 DEF Waits
    <3> QED BY <2>1, <3>1 DEF NobodyLeftAtBarrier
  <2>4. ASSUME NEW w \in Warps, w \notin T, history[w].sync # None,
               NEW v \in WarpsOf(SlotOf(w)), v \in A
        PROVE  history[v].reached[history[w].sync.id] >= history[w].sync.round
    <3>1. PICK b, n : b = history[w].sync.id /\ n = history[w].sync.round
      OBVIOUS
    <3>2. b \in BarIds /\ n \in Nat
      BY <2>4, <3>1 DEF BarInv, BarTypes, Syncs
    <3>3. n <= history[w].reached[b]
      BY <2>4, <3>1 DEF BarInv, SyncReached
    <3>4. SlotOf(w) \in Slots /\ w \in WarpsOf(SlotOf(w)) /\ v \in Warps
      BY SlotWarps, OwnWarps
    <3>5. Over(R, history, w, b) <= Over(R, history, v, b)
      BY <2>2, <2>4, <3>2, <3>4 DEF Waits
    <3>6. w \notin R[b]
      BY <2>2, <2>4, <3>2 DEF Waits
    <3>7. history[w].reached[b] \in Nat /\ history[v].reached[b] \in Nat
      BY <3>2, <3>4 DEF BarInv, BarTypes
    <3>8. history[v].reached[b] >= n
      BY <3>2, <3>3, <3>5, <3>6, <3>7 DEF Over
    <3> QED BY <3>1, <3>8
  <2>5. ASSUME NEW w \in Warps \ bars.at, history[w].sync # None
        PROVE  LET s == history[w].sync
               IN  WarpsOf(SlotOf(w)) \cap bars.active
                     \subseteq {v \in WarpsOf(SlotOf(w)) : history[v].reached[s.id] >= s.round}
    BY <2>1, <2>4, <2>5
  <2> QED BY <2>3, <2>5 DEF BarriersHold
<1>2. BarInv /\ CoreInv /\ [Next]_vars => BarInv'
  BY BarStep
<1>3. Init => BarInv
  BY InitBar
<1> QED BY <1>1, <1>2, <1>3, CoreInductive, PTL DEF Spec
=============================================================================
