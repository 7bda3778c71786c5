-------------------------- MODULE SmallAllocatorProofs -------------------------
(***************************************************************************)
(* Proofs about SmallAllocator, for pools and blocks of any size and any   *)
(* client that does not allocate after a Free: its blocks stay apart, no   *)
(* walk leaves the pool and the free list is sound.                        *)
(***************************************************************************)
EXTENDS SmallAllocator, FiniteSetTheorems, WellFoundedInduction, TLAPS

(***************************************************************************)
(* No request is so large that the sum alloc_in_mem compares with the size *)
(* of the pool wraps: for the code's pool of 1 MB, one of nearly 4 GB.     *)
(***************************************************************************)
NoWrap == \A bytes \in Sizes : memory_size + Chunk(new_alloc(bytes)) < UIntRange

-------------------------------------------------------------------------------
(***************************************************************************)
(* The invariant.                                                          *)
(***************************************************************************)

\* The blocks of S, of the sizes sz, end at end or before, and each before the
\* next begins.
Apart(sz, S, end) ==
  /\ \A b \in S : sz[b] >= 1 /\ b + sz[b] <= end
  /\ \A b, c \in S : b < c => b + sz[b] <= c

\* The blocks that are not the allocator's: Free still has one in hand.
Held == live \cup (IF call.op = "Free" THEN {call.old} ELSE {})

\* F is the free list: it goes up in memory, leaves out no block of F, and
\* its blocks and those held are in the pool and apart.
FreeList(F) ==
  /\ next[base] \in F \cup {base, null}
  /\ next[base] = base => Held = {}
  /\ \A b \in F : next[b] = null \/ (next[b] \in F /\ next[b] > b + size[b])
  /\ \A c \in F \cup {base}, d \in F : c < d => next[c] \in F /\ next[c] <= d
  /\ F \cap Held = {}
  /\ Apart(size, F \cup Held, memory_size)

\* A walk that goes on is at a block, and base is none that could be given.
Walk ==
  /\ size[base] = 0
  /\ call # Idle /\ fault = "no" => p # null
  /\ Allocating => call.n >= 1

\* Before the first Free the list is what the last new block has left, the
\* pool is used up to offset, and Alloc is at base or at a block it took anew.
Rest == {next[base]} \cap Memory

WhileAllocating ==
  past = "allocates" =>
    /\ fault \in {"no", "copy"} /\ call.op # "Free"
    /\ freep = base /\ offset = allocated /\ allocated <= memory_size
    /\ next[base] = base => live = {}
    /\ \A r \in Rest : next[r] = null
    /\ Rest \cap live = {}
    /\ Apart(size, live \cup Rest, allocated)
    /\ Allocating => memory_size + Chunk(call.n) < UIntRange
    /\ Allocating /\ fault = "no" =>
         p = base \/ (p \in Rest /\ size[p] = Chunk(call.n) /\ prevp = base)
    /\ call.op = "ReAlloc" => call.old \in live

\* From then on it is a list, and Free's walk is below the block in hand.
WhileFreeing ==
  past = "frees" =>
    /\ fault = "no" /\ ~ Allocating
    /\ \E F \in SUBSET Memory :
         /\ FreeList(F)
         /\ call.op = "Free" =>
              p \in F \cup {base} /\ p < call.old /\ call.old \notin live

IInv == TypeOK /\ Walk /\ WhileAllocating /\ WhileFreeing

-------------------------------------------------------------------------------
(***************************************************************************)
(* Arithmetic and the calls.                                               *)
(***************************************************************************)

\* An unsigned int wraps; below its range it does not.
LEMMA UIntType == ASSUME NEW x \in Int PROVE UInt(x) \in 0..(UIntRange - 1)
  BY DEF UInt, UIntRange

LEMMA UIntSmall == ASSUME NEW x \in Nat, x < UIntRange PROVE UInt(x) = x
  BY DEF UInt, UIntRange

LEMMA UIntRangeType == UIntRange \in Nat /\ UIntRange >= 1
  BY DEF UIntRange

\* A request takes its header at least, and a new block serves it.
LEMMA RequestType ==
  ASSUME NEW bytes \in Nat
  PROVE  new_alloc(bytes) \in Nat /\ new_alloc(bytes) >= 1
  BY DEF new_alloc, header_size

LEMMA ChunkType ==
  ASSUME NEW n \in Nat, n >= 1
  PROVE  Chunk(n) \in Nat /\ Chunk(n) >= n
  BY AllocatorAssumption DEF Chunk

\* What a call carries.
LEMMA CallFields ==
  ASSUME TypeOK
  PROVE  /\ call.op \in {"idle", "Alloc", "ReAlloc", "Free"}
         /\ call = Idle <=> call.op = "idle"
         /\ Allocating => call.n \in Nat
         /\ call.op \in {"ReAlloc", "Free"} => call.old \in Memory
  BY DEF TypeOK, Allocating, Idle

\* The free list of F is a state of next, size, live and call.
LEMMA AddressType ==
  ASSUME TypeOK, NEW a \in Memory \cup {base}
  PROVE  /\ a \in Int /\ next[a] \in Pointers /\ next[a] \in Int
         /\ size[a] \in Nat
  BY AllocatorAssumption DEF TypeOK, Pointers, Memory, base, null

-------------------------------------------------------------------------------
(***************************************************************************)
(* Types and walks.                                                        *)
(***************************************************************************)

LEMMA TypeInit == Init => TypeOK /\ Walk
  BY AllocatorAssumption, UIntRangeType
     DEF Init, TypeOK, Walk, Allocating, Idle, Pointers, base, null

\* What Return does keeps the types and the walk.
LEMMA ReturnTypes ==
  ASSUME TypeOK, NEW b \in Memory, call # Idle, Return(b)
  PROVE  /\ call' \in {Idle} \cup [op : {"Free"}, old : Memory]
         /\ p' \in Pointers /\ (call' # Idle => p' = base)
         /\ live' \subseteq Memory
         /\ past' \in {"allocates", "frees", "reuses"}
         /\ allocated' \in 0..(UIntRange - 1) /\ offset' \in 0..(UIntRange - 1)
PROOF
  <1>1. CASE call.op = "ReAlloc"
    <2>1. call.old \in Memory
      BY <1>1, CallFields
    <2>2. allocated - size[call.old] \in Int
      BY <2>1, AddressType DEF TypeOK
    <2>3. allocated' \in 0..(UIntRange - 1)
      BY <1>1, <2>2, UIntType DEF Return
    <2>4. offset' \in 0..(UIntRange - 1)
      BY <1>1, <2>1, AllocatorAssumption, UIntRangeType DEF Return, Memory
    <2> QED
      BY <1>1, <2>1, <2>3, <2>4 DEF Return, TypeOK, Frees, Pointers
  <1>2. CASE call.op # "ReAlloc"
    BY <1>2 DEF Return, TypeOK, Pointers
  <1> QED
    BY <1>1, <1>2

\* A walk that goes on is at a block, so its headers have their types.
LEMMA AtABlock ==
  ASSUME TypeOK, Walk, fault = "no", call # Idle
  PROVE  p \in Memory \cup {base}
  BY DEF TypeOK, Walk, Pointers

LEMMA SkippedType ==
  ASSUME TypeOK, Walk, fault = "no", call # Idle
  PROVE  Skipped \in 0..(UIntRange - 1)
PROOF
  <1>1. p \in Memory \cup {base}
    BY AtABlock
  <1>2. ASSUME p # base
        PROVE  offset + p + header_size * size[p] \in Int
    BY <1>1, AddressType, UIntRangeType DEF TypeOK, header_size
  <1>3. ASSUME p # base
        PROVE  Skipped \in 0..(UIntRange - 1)
    BY <1>2, <1>3, UIntType DEF Skipped
  <1> QED
    BY <1>3 DEF Skipped, TypeOK

\* The actions of the client and, one by one, of the allocator.
LEMMA ClientTypes ==
  ASSUME TypeOK, Walk, Client
  PROVE  TypeOK' /\ Walk'
PROOF
  <1>1. calls' \in 0..MaxCalls
    BY AllocatorAssumption DEF Client, TypeOK
  <1>2. CASE \E bytes \in Sizes : Alloc(bytes)
    <2>1. PICK bytes \in Sizes : Alloc(bytes)
      BY <1>2
    <2>2. new_alloc(bytes) \in Nat /\ new_alloc(bytes) >= 1
      BY RequestType, AllocatorAssumption
    <2> QED
      BY <1>1, <2>1, <2>2
         DEF Alloc, Allocates, TypeOK, Walk, Allocating, Idle, Pointers, base, null
  <1>3. CASE \E b \in live, bytes \in Sizes : ReAlloc(b, bytes)
    <2>1. PICK b \in live, bytes \in Sizes : ReAlloc(b, bytes)
      BY <1>3
    <2>2. new_alloc(bytes) \in Nat /\ new_alloc(bytes) >= 1
      BY RequestType, AllocatorAssumption
    <2> QED
      BY <1>1, <2>1, <2>2
         DEF ReAlloc, Allocates, TypeOK, Walk, Allocating, Idle, Pointers, base, null
  <1>4. CASE \E b \in live : Free(b)
    <2>1. PICK b \in live : Free(b)
      BY <1>4
    <2>2. b \in Memory
      BY <2>1 DEF TypeOK
    <2>3. allocated - size[b] \in Int
      BY <2>2, AddressType DEF TypeOK
    <2>4. allocated' \in 0..(UIntRange - 1)
      BY <2>1, <2>3, UIntType DEF Free
    <2>5. offset' \in 0..(UIntRange - 1)
      BY <2>1, <2>2, AllocatorAssumption, UIntRangeType DEF Free, Memory
    <2> QED
      BY <1>1, <2>1, <2>2, <2>4, <2>5
         DEF Free, Frees, TypeOK, Walk, Allocating, Idle, Pointers, base, null
  <1> QED
    BY <1>2, <1>3, <1>4 DEF Client

LEMMA TakeWholeTypes ==
  ASSUME TypeOK, Walk, fault = "no", TakeWhole
  PROVE  TypeOK' /\ Walk'
PROOF
  <1>1. call # Idle /\ p # base /\ p \in Memory
    BY AtABlock DEF TakeWhole, Allocating, Idle, Walk
  <1>2. Return(p)
    BY DEF TakeWhole
  <1>3. /\ call' \in {Idle} \cup [op : {"Free"}, old : Memory]
        /\ p' \in Pointers /\ (call' # Idle => p' = base)
        /\ live' \subseteq Memory
        /\ past' \in {"allocates", "frees", "reuses"}
        /\ allocated' \in 0..(UIntRange - 1) /\ offset' \in 0..(UIntRange - 1)
    BY <1>1, <1>2, ReturnTypes
  <1>4. next' \in [Memory \cup {base} -> Pointers]
    BY <1>1 DEF TakeWhole, TypeOK
  <1>5. ~ Allocating'
    BY <1>3 DEF Allocating, Idle
  <1> QED
    BY <1>3, <1>4, <1>5 DEF TakeWhole, TypeOK, Walk, Pointers, Idle, base, null

LEMMA CutTypes ==
  ASSUME TypeOK, Walk, fault = "no", Cut
  PROVE  TypeOK' /\ Walk'
PROOF
  <1> DEFINE b == p + size[p] - call.n
  <1>1. call # Idle /\ p # base /\ p \in Memory /\ call.n \in Nat
    BY AtABlock, CallFields DEF Cut, Allocating, Idle, Walk
  <1>2. b \in Memory /\ Return(b)
    BY DEF Cut
  <1>3. /\ call' \in {Idle} \cup [op : {"Free"}, old : Memory]
        /\ p' \in Pointers /\ (call' # Idle => p' = base)
        /\ live' \subseteq Memory
        /\ past' \in {"allocates", "frees", "reuses"}
        /\ allocated' \in 0..(UIntRange - 1) /\ offset' \in 0..(UIntRange - 1)
    <2> HIDE DEF b
    <2> QED
      BY <1>1, <1>2, ReturnTypes
  <1>4. /\ size' = [size EXCEPT ![p] = @ - call.n, ![b] = call.n]
        /\ size[p] - call.n \in Nat
    BY <1>1, AddressType DEF Cut
  <1>5. size' \in [Memory \cup {base} -> Nat] /\ size'[base] = size[base]
    <2> HIDE DEF b
    <2>1. base \notin Memory
      BY DEF Memory, base
    <2> QED
      BY <1>1, <1>2, <1>4, <2>1 DEF TypeOK
  <1>6. ~ Allocating'
    BY <1>3 DEF Allocating, Idle
  <1> QED
    BY <1>3, <1>5, <1>6 DEF Cut, TypeOK, Walk, Pointers, Idle, base, null

LEMMA GrowTypes ==
  ASSUME TypeOK, Walk, fault = "no", Grow
  PROVE  TypeOK' /\ Walk'
PROOF
  <1>1. call # Idle /\ p \in Memory \cup {base} /\ call.n \in Nat /\ call.n >= 1
    BY AtABlock, CallFields DEF Grow, Asks, Allocating, Idle, Walk
  <1>2. Chunk(call.n) \in Nat
    BY <1>1, ChunkType
  <1>3. Skipped \in Memory /\ Skipped \in Int
    BY <1>1, SkippedType DEF Grow, Memory
  <1>4. allocated' \in 0..(UIntRange - 1)
    <2>1. allocated + Chunk(call.n) \in Int
      BY <1>2, UIntRangeType DEF TypeOK
    <2> QED
      BY <2>1, UIntType DEF Grow
  <1>5. offset' \in 0..(UIntRange - 1)
    <2>1. Skipped + Chunk(call.n) \in Int
      BY <1>2, <1>3
    <2> QED
      BY <2>1, UIntType DEF Grow
  <1>6. Skipped # base /\ Skipped # null
    BY <1>3 DEF Memory, base, null
  <1>7. size' \in [Memory \cup {base} -> Nat] /\ size'[base] = size[base]
    BY <1>2, <1>3, <1>6 DEF Grow, TypeOK
  <1>8. next' \in [Memory \cup {base} -> Pointers]
    BY <1>1, <1>3 DEF Grow, TypeOK, Pointers
  <1>9. p' = Skipped /\ prevp' = p /\ fault' = fault
    BY <1>6 DEF Grow, StepTo
  <1> QED
    BY <1>1, <1>3, <1>4, <1>5, <1>6, <1>7, <1>8, <1>9
       DEF Grow, TypeOK, Walk, Pointers, Allocating

LEMMA LinkTypes ==
  ASSUME TypeOK, Walk, fault = "no", Link
  PROVE  TypeOK' /\ Walk'
PROOF
  <1> DEFINE b    == call.old
             up   == b + size[b] = next[p]
             bnext == IF up THEN next[next[p]] ELSE next[p]
             bsize == IF up THEN size[b] + size[next[p]] ELSE size[b]
             down == p + size[p] = b
             below == IF down THEN bnext ELSE b
  <1>1. call # Idle /\ p \in Memory \cup {base} /\ b \in Memory
    BY AtABlock, CallFields DEF Link, Idle
  <1>2. next[p] \in Pointers /\ size[b] \in Nat /\ size[p] \in Nat /\ b \in Nat
    BY <1>1, AddressType DEF Memory
  <1>3. up => next[p] \in Memory
    BY <1>2 DEF Pointers, base, null
  <1>4. bnext \in Pointers /\ bsize \in Nat /\ below \in Pointers
    BY <1>1, <1>2, <1>3, AddressType DEF Pointers
  <1>5. /\ next' = [next EXCEPT ![b] = bnext, ![p] = below]
        /\ size' = [[size EXCEPT ![b] = bsize]
                      EXCEPT ![p] = IF down THEN @ + bsize ELSE @]
        /\ freep' = below
    BY DEF Link
  <1>6. p = base => ~ down
    BY <1>2 DEF Walk, base
  <1>7. b # base
    BY <1>2 DEF base
  <1> HIDE DEF b, bnext, bsize, down, below
  <1>8. next' \in [Memory \cup {base} -> Pointers]
    BY <1>1, <1>4, <1>5 DEF TypeOK
  <1>9. size' \in [Memory \cup {base} -> Nat] /\ size'[base] = size[base]
    <2>1. CASE down
      <3>1. [size EXCEPT ![b] = bsize] \in [Memory \cup {base} -> Nat]
        BY <1>1, <1>4 DEF TypeOK
      <3>2. [size EXCEPT ![b] = bsize][p] + bsize \in Nat
        BY <1>1, <1>4, <3>1
      <3> QED
        BY <1>1, <1>5, <1>6, <1>7, <2>1, <3>1, <3>2 DEF TypeOK
    <2>2. CASE ~ down
      BY <1>1, <1>4, <1>5, <1>7, <2>2 DEF TypeOK
    <2> QED
      BY <2>1, <2>2
  <1> QED
    BY <1>4, <1>5, <1>8, <1>9
       DEF Link, TypeOK, Walk, Pointers, Allocating, Idle, base, null

\* The other actions write no header but p's next.
LEMMA WalkTypes ==
  ASSUME TypeOK, Walk, fault = "no",
         CutOutside \/ Skip \/ GrowOutside \/ GiveUp \/ Search
  PROVE  TypeOK' /\ Walk'
PROOF
  <1>1. call # Idle
    BY DEF CutOutside, Skip, GrowOutside, GiveUp, Search, Asks, Allocating, Idle
  <1>2. p \in Memory \cup {base}
    BY <1>1, AtABlock
  <1>3. next[p] \in Pointers /\ Skipped \in 0..(UIntRange - 1)
    BY <1>1, <1>2, AddressType, SkippedType
  <1>4. CASE CutOutside \/ GrowOutside
    BY <1>4 DEF CutOutside, GrowOutside, Outside, TypeOK, Walk, Allocating
  <1>5. CASE Skip
    BY <1>2, <1>3, <1>5 DEF Skip, StepTo, TypeOK, Walk, Allocating, Pointers
  <1>6. CASE Search
    BY <1>2, <1>3, <1>6 DEF Search, StepTo, TypeOK, Walk, Allocating, Pointers
  <1>7. CASE GiveUp
    <2>1. next' \in [Memory \cup {base} -> Pointers]
      BY <1>2, <1>7 DEF GiveUp, TypeOK, Pointers
    <2> QED
      BY <1>3, <1>7, <2>1 DEF GiveUp, TypeOK, Walk, Allocating, Idle, Pointers
  <1> QED
    BY <1>4, <1>5, <1>6, <1>7

LEMMA TypeStep ==
  ASSUME TypeOK, Walk, [Next]_vars
  PROVE  TypeOK' /\ Walk'
PROOF
  <1>1. CASE UNCHANGED vars
    BY <1>1 DEF vars, TypeOK, Walk, Allocating
  <1>2. CASE Next
    BY <1>2, ClientTypes, TakeWholeTypes, CutTypes, GrowTypes, LinkTypes, WalkTypes
       DEF Next, Defined, Allocator
  <1> QED
    BY <1>1, <1>2

-------------------------------------------------------------------------------
(***************************************************************************)
(* While the client allocates.                                             *)
(***************************************************************************)

\* The one free block, if any, makes a list.
LEMMA RestIsFreeList ==
  /\ TypeOK
  /\ next[base] = base => Held = {}
  /\ \A r \in Rest : next[r] = null
  /\ Rest \cap Held = {}
  /\ Apart(size, Held \cup Rest, memory_size)
  => \E F \in SUBSET Memory : FreeList(F)
PROOF
  <1> SUFFICES ASSUME TypeOK, next[base] = base => Held = {},
                      \A r \in Rest : next[r] = null,
                      Rest \cap Held = {}, Apart(size, Held \cup Rest, memory_size)
               PROVE  \E F \in SUBSET Memory : FreeList(F)
    OBVIOUS
  <1>1. next[base] \in Pointers /\ base \notin Memory /\ null \notin Memory
    BY DEF TypeOK, Memory, base, null
  <1>2. next[base] \in Rest \cup {base, null}
    BY <1>1 DEF Rest, Pointers
  <1>3. ASSUME NEW c \in Rest \cup {base}, NEW d \in Rest, c < d
        PROVE  next[c] \in Rest /\ next[c] <= d
    <2>1. c = base /\ d = next[base] /\ d \in Int
      BY <1>3, <1>1 DEF Rest, Memory, base
    <2> QED
      BY <2>1
  <1>4. Apart(size, Rest \cup Held, memory_size)
    <2>1. Rest \cup Held = Held \cup Rest
      OBVIOUS
    <2> QED
      BY <2>1
  <1>5. FreeList(Rest)
    BY <1>2, <1>3, <1>4 DEF FreeList
  <1> QED
    BY <1>5 DEF Rest

LEMMA RestIsFreeListNext ==
  ASSUME TypeOK', next'[base] = base => Held' = {},
         \A r \in Rest' : next'[r] = null,
         Rest' \cap Held' = {}, Apart(size', Held' \cup Rest', memory_size)
  PROVE  \E F \in SUBSET Memory : FreeList(F)'
PROOF
  <1>1. /\ TypeOK'
        /\ (next[base] = base => Held = {})'
        /\ (\A r \in Rest : next[r] = null)'
        /\ (Rest \cap Held = {})'
        /\ Apart(size, Held \cup Rest, memory_size)'
    OBVIOUS
  <1>2. (\E F \in SUBSET Memory : FreeList(F))'
    BY <1>1, RestIsFreeList, PTL
  <1> QED
    BY <1>2

\* At the only free block Alloc takes all of it or the end of it.
LEMMA AtRest ==
  ASSUME TypeOK, Walk, WhileAllocating, past = "allocates", fault = "no",
         Allocating, size[p] >= call.n
  PROVE  /\ p \in Rest /\ p \in Memory /\ p = next[base] /\ next[p] = null
         /\ prevp = base /\ size[p] = Chunk(call.n)
         /\ p + size[p] <= allocated
PROOF
  <1>1. call.n \in Nat /\ call.n >= 1
    BY CallFields DEF Walk
  <1>2. p # base
    BY <1>1 DEF Walk
  <1> QED
    BY <1>2 DEF WhileAllocating, Rest, Apart

\* What the two leave: the block b is the caller's, the rest is apart.
Taken(b) ==
  /\ b \in Memory /\ b \notin live /\ Return(b)
  /\ freep' = base /\ fault' = fault
  /\ next'[base] # base
  /\ \A r \in Rest' : next'[r] = null
  /\ Rest' \cap (live \cup {b}) = {}
  /\ Apart(size', live \cup {b} \cup Rest', allocated)

LEMMA WholeIsTaken ==
  ASSUME TypeOK, Walk, WhileAllocating, past = "allocates", fault = "no", TakeWhole
  PROVE  \E b \in Memory : Taken(b)
PROOF
  <1>1. /\ p \in Rest /\ p \in Memory /\ p = next[base] /\ next[p] = null
        /\ prevp = base
    BY AtRest, CallFields DEF TakeWhole, TypeOK
  <1>2. next' = [next EXCEPT ![base] = null]
    BY <1>1 DEF TakeWhole
  <1>3. next'[base] = null /\ Rest' = {}
    BY <1>2 DEF TypeOK, Rest, Memory, null
  <1>4. live \cup {p} \cup Rest' = live \cup Rest
    BY <1>1, <1>3 DEF Rest
  <1>5. Apart(size', live \cup {p} \cup Rest', allocated)
    BY <1>4 DEF WhileAllocating, TakeWhole
  <1>6. p \notin live
    BY <1>1 DEF WhileAllocating
  <1> QED
    BY <1>1, <1>3, <1>5, <1>6, SMTT(30) DEF Taken, TakeWhole, null, base

LEMMA EndIsTaken ==
  ASSUME TypeOK, Walk, WhileAllocating, past = "allocates", fault = "no", Cut
  PROVE  \E b \in Memory : Taken(b)
PROOF
  <1> DEFINE b == p + size[p] - call.n
  <1>1. call.n \in Nat /\ call.n >= 1 /\ Allocating
    BY CallFields DEF Walk, Cut
  <1>2. size[p] \in Nat /\ size[p] > call.n /\ p \in Int
    <2>1. p \in Memory \cup {base}
      BY AtABlock, <1>1 DEF Allocating, Idle
    <2> QED
      BY <2>1, AddressType DEF Cut
  <1>3. /\ p \in Rest /\ p \in Memory /\ p = next[base] /\ next[p] = null
        /\ prevp = base /\ p + size[p] <= allocated
    BY <1>1, <1>2, AtRest
  <1>4. b \in Memory /\ Return(b) /\ freep' = base /\ fault' = fault /\ next' = next
    BY <1>3 DEF Cut
  <1>5. b \in Int /\ p < b /\ b + call.n = p + size[p] /\ allocated \in Int
    BY <1>1, <1>2 DEF TypeOK
  <1>6. size' = [size EXCEPT ![p] = size[p] - call.n, ![b] = call.n]
    BY DEF Cut
  <1>7. Rest = {p} /\ Rest' = {p}
    BY <1>3, <1>4 DEF Rest
  <1> HIDE DEF b
  <1>8. /\ size'[b] = call.n /\ size'[p] = b - p
        /\ \A a \in Memory \ {b, p} : size'[a] = size[a]
    <2>1. size'[p] = size[p] - call.n
      BY <1>3, <1>4, <1>5, <1>6 DEF TypeOK
    <2>2. size[p] - call.n = b - p
      BY <1>1, <1>2, <1>5
    <2> QED
      BY <1>3, <1>4, <1>5, <1>6, <2>1, <2>2 DEF TypeOK
  <1>9. ASSUME NEW c \in live
        PROVE  /\ c \in Memory /\ c \in Int /\ size[c] \in Nat /\ size[c] >= 1
               /\ c + size[c] <= allocated /\ c # p
               /\ (c < p => c + size[c] <= p) /\ (c > p => c >= b + call.n)
    BY <1>3, <1>5, <1>7, AddressType DEF WhileAllocating, Apart, TypeOK
  <1>10. \A c \in live : c # b
    BY <1>1, <1>5, <1>9
  <1>11. Apart(size', live \cup {b} \cup Rest', allocated)
    <2> DEFINE S == live \cup {b} \cup Rest'
    <2>1. ASSUME NEW c \in S
          PROVE  size'[c] >= 1 /\ c + size'[c] <= allocated
      BY <1>1, <1>2, <1>3, <1>5, <1>7, <1>8, <1>9, <1>10
    <2>2. ASSUME NEW c \in S, NEW d \in S, c < d
          PROVE  c + size'[c] <= d
      <3>1. CASE c \in live /\ d \in live
        <4>1. c + size[c] <= d
          BY <2>2, <3>1 DEF WhileAllocating, Apart
        <4> QED
          BY <1>8, <1>9, <1>10, <3>1, <4>1
      <3>2. CASE c \in live /\ d \in {b, p}
        BY <1>1, <1>2, <1>3, <1>5, <1>8, <1>9, <1>10, <2>2, <3>2
      <3>3. CASE c \in {b, p} /\ d \in live
        BY <1>1, <1>2, <1>3, <1>5, <1>8, <1>9, <1>10, <2>2, <3>3
      <3>4. CASE c \in {b, p} /\ d \in {b, p}
        BY <1>1, <1>2, <1>3, <1>5, <1>8, <2>2, <3>4
      <3> QED
        BY <1>7, <3>1, <3>2, <3>3, <3>4
    <2> HIDE DEF S
    <2>3. Apart(size', S, allocated)
      BY <2>1, <2>2 DEF Apart
    <2> QED
      BY <2>3 DEF S
  <1>12. Rest' \cap (live \cup {b}) = {} /\ \A r \in Rest' : next'[r] = null
    BY <1>3, <1>4, <1>5, <1>7, <1>9
  <1>13. next'[base] # base
    BY <1>3, <1>4 DEF Memory, base
  <1> QED
    BY <1>4, <1>10, <1>11, <1>12, <1>13 DEF Taken

\* What ends before allocated is in the pool.
LEMMA ApartInPool ==
  ASSUME NEW sz, NEW S, NEW end \in Int, end <= memory_size,
         S \subseteq Memory, sz \in [Memory \cup {base} -> Nat], Apart(sz, S, end)
  PROVE  Apart(sz, S, memory_size)
PROOF
  <1>1. ASSUME NEW b \in S
        PROVE  sz[b] >= 1 /\ b + sz[b] <= memory_size
    <2>1. b \in Int /\ sz[b] \in Int /\ b + sz[b] <= end
      BY DEF Apart, Memory
    <2> QED
      BY <2>1, AllocatorAssumption, UIntRangeType DEF Apart
  <1> QED
    BY <1>1 DEF Apart

LEMMA AfterTaken ==
  ASSUME TypeOK, Walk, WhileAllocating, past = "allocates", fault = "no",
         Allocating, TypeOK', NEW b, Taken(b)
  PROVE  WhileAllocating' /\ WhileFreeing'
PROOF
  <1> USE DEF Taken
  <1>1. CASE call.op = "Alloc"
    <2>1. /\ call' = Idle /\ live' = live \cup {b}
          /\ past' = "allocates" /\ offset' = offset /\ allocated' = allocated
      BY <1>1 DEF Return
    <2>2. ~ Allocating' /\ call'.op = "idle"
      BY <2>1 DEF Allocating, Idle
    <2>3. WhileFreeing'
      BY <2>1 DEF WhileFreeing
    <2> QED
      BY <2>1, <2>2, <2>3 DEF WhileAllocating
  <1>2. CASE call.op = "ReAlloc"
    <2>1. /\ call' = [op |-> "Free", old |-> call.old] /\ p' = base
          /\ live' = (live \cup {b}) \ {call.old} /\ past' = "frees"
      BY <1>2 DEF Return, Frees
    <2>2. call.old \in live /\ call.old \in Memory
      BY <1>2, CallFields DEF WhileAllocating
    <2>3. /\ call'.op = "Free" /\ call'.old = call.old /\ ~ Allocating'
          /\ Held' = live \cup {b}
      BY <2>1, <2>2 DEF Held, Allocating
    <2>4. Apart(size', Held' \cup Rest', memory_size)
      <3>1. live \cup {b} \cup Rest' \subseteq Memory
        BY DEF TypeOK, Rest
      <3>2. allocated \in Int /\ allocated <= memory_size
        BY DEF TypeOK, WhileAllocating
      <3>3. size' \in [Memory \cup {base} -> Nat]
        BY DEF TypeOK
      <3> QED
        BY <2>3, <3>1, <3>2, <3>3, ApartInPool
    <2>5. PICK F \in SUBSET Memory : FreeList(F)'
      BY <2>3, <2>4, RestIsFreeListNext
    <2>6. base < call'.old /\ call'.old \notin live'
      BY <2>1, <2>2, <2>3 DEF Memory, base
    <2>7. fault' = "no"
      OBVIOUS
    <2> QED
      BY <2>1, <2>3, <2>5, <2>6, <2>7 DEF WhileAllocating, WhileFreeing
  <1> QED
    BY <1>1, <1>2 DEF Allocating

LEMMA AllocatingClient ==
  ASSUME TypeOK, Walk, WhileAllocating, past = "allocates", fault = "no",
         TypeOK', NoWrap, Client
  PROVE  WhileAllocating' /\ WhileFreeing'
PROOF
  <1>1. ASSUME NEW bytes \in Sizes
        PROVE  memory_size + Chunk(new_alloc(bytes)) < UIntRange
    BY DEF NoWrap
  <1>2. ASSUME past' = "allocates"
        PROVE  WhileFreeing'
    BY <1>2 DEF WhileFreeing
  <1>3. CASE \E bytes \in Sizes : Alloc(bytes)
    <2>1. PICK bytes \in Sizes : Alloc(bytes)
      BY <1>3
    <2>2. Rest' = Rest /\ past' = "allocates"
      BY <2>1 DEF Rest, Alloc, Allocates
    <2>3. /\ call'.op = "Alloc" /\ call'.n = new_alloc(bytes) /\ p' = base
          /\ fault' = "no"
      BY <2>1 DEF Alloc
    <2> QED
      BY <1>1, <1>2, <2>1, <2>2, <2>3 DEF Alloc, WhileAllocating
  <1>4. CASE \E b \in live, bytes \in Sizes : ReAlloc(b, bytes)
    <2>1. PICK b \in live, bytes \in Sizes : ReAlloc(b, bytes)
      BY <1>4
    <2>2. Rest' = Rest /\ past' = "allocates"
      BY <2>1 DEF Rest, ReAlloc, Allocates
    <2>3. /\ call'.op = "ReAlloc" /\ call'.n = new_alloc(bytes) /\ p' = base
          /\ fault' = "no" /\ call'.old = b
      BY <2>1 DEF ReAlloc
    <2> QED
      BY <1>1, <1>2, <2>1, <2>2, <2>3 DEF ReAlloc, WhileAllocating
  <1>5. CASE \E b \in live : Free(b)
    <2>1. PICK b \in live : Free(b)
      BY <1>5
    <2>2. /\ b \in Memory /\ call'.op = "Free" /\ call'.old = b /\ ~ Allocating'
          /\ past' = "frees" /\ fault' = "no" /\ p' = base /\ live' = live \ {b}
          /\ next' = next /\ size' = size /\ Rest' = Rest
      BY <2>1 DEF Free, Frees, TypeOK, Allocating, Rest
    <2>3. Held' = live
      BY <2>1, <2>2 DEF Held
    <2>4. Apart(size', Held' \cup Rest', memory_size)
      <3>1. live \cup Rest \subseteq Memory
        BY DEF TypeOK, Rest
      <3>2. allocated \in Int /\ allocated <= memory_size
        BY DEF TypeOK, WhileAllocating
      <3>3. size \in [Memory \cup {base} -> Nat]
        BY DEF TypeOK
      <3>4. Apart(size, live \cup Rest, allocated)
        BY DEF WhileAllocating
      <3> QED
        BY <2>2, <2>3, <3>1, <3>2, <3>3, <3>4, ApartInPool
    <2>5. PICK F \in SUBSET Memory : FreeList(F)'
      BY <2>2, <2>3, <2>4, RestIsFreeListNext DEF WhileAllocating
    <2>6. base < b /\ b \notin live'
      BY <2>2 DEF Memory, base
    <2> QED
      BY <2>2, <2>5, <2>6 DEF WhileAllocating, WhileFreeing
  <1> QED
    BY <1>3, <1>4, <1>5 DEF Client

\* Alloc asks for a new block as soon as it finds none, at base.
LEMMA AsksAtBase ==
  ASSUME TypeOK, Walk, WhileAllocating, past = "allocates", fault = "no",
         Allocating, size[p] < call.n
  PROVE  /\ p = base /\ p = freep /\ Skipped = allocated
         /\ call.n \in Nat /\ Chunk(call.n) \in Nat /\ Chunk(call.n) >= 1
         /\ UInt(allocated + Chunk(call.n)) = allocated + Chunk(call.n)
PROOF
  <1>1. /\ call.n \in Nat /\ call.n >= 1
        /\ Chunk(call.n) \in Nat /\ Chunk(call.n) >= call.n
    BY CallFields, ChunkType DEF Walk
  <1>2. p = base
    BY <1>1 DEF WhileAllocating
  <1>3. allocated \in Nat /\ allocated + Chunk(call.n) < UIntRange
    BY <1>1, AllocatorAssumption, UIntRangeType DEF TypeOK, WhileAllocating
  <1>4. UInt(allocated + Chunk(call.n)) = allocated + Chunk(call.n)
    BY <1>1, <1>3, UIntSmall
  <1> QED
    BY <1>1, <1>2, <1>4 DEF Skipped, WhileAllocating

LEMMA AfterGrow ==
  ASSUME TypeOK, Walk, WhileAllocating, past = "allocates", fault = "no",
         TypeOK', Grow
  PROVE  WhileAllocating'
PROOF
  <1> DEFINE n == Chunk(call.n)
             a == allocated
  <1>1. /\ p = base /\ Skipped = a /\ n \in Nat /\ n >= 1
        /\ UInt(a + n) = a + n /\ Allocating
    BY AsksAtBase DEF Grow, Asks
  <1>2. a + n <= memory_size /\ a \in Memory /\ a \in Int
    BY <1>1 DEF Grow, HasRoom, TypeOK
  <1>3. a # base /\ a # null
    BY <1>2 DEF Memory, base, null
  <1>4. /\ next' = [next EXCEPT ![a] = null, ![base] = a]
        /\ size' = [size EXCEPT ![a] = n]
        /\ allocated' = a + n /\ offset' = a + n
        /\ p' = a /\ prevp' = base /\ fault' = "no"
        /\ freep' = freep /\ call' = call /\ live' = live /\ past' = past
    BY <1>1, <1>3 DEF Grow, StepTo
  <1> HIDE DEF n, a
  <1>5. /\ next'[base] = a /\ next'[a] = null /\ size'[a] = n
        /\ \A c \in Memory \ {a} : size'[c] = size[c]
    BY <1>2, <1>3, <1>4 DEF TypeOK
  <1>6. Rest' = {a}
    BY <1>2, <1>5 DEF Rest
  <1>7. ASSUME NEW c \in live
        PROVE  /\ c \in Int /\ size[c] \in Int /\ size[c] >= 1 /\ c + size[c] <= a
               /\ c # a /\ size'[c] = size[c]
    <2>1. c \in Memory /\ c \in Int /\ size[c] \in Int
      BY AddressType DEF TypeOK
    <2>2. size[c] >= 1 /\ c + size[c] <= a
      BY DEF WhileAllocating, Apart, a
    <2>3. c # a
      BY <1>2, <2>1, <2>2
    <2> QED
      BY <1>5, <2>1, <2>2, <2>3
  <1>8. Apart(size', live' \cup Rest', allocated')
    <2> DEFINE S == live \cup {a}
    <2>1. ASSUME NEW c \in S
          PROVE  size'[c] >= 1 /\ c + size'[c] <= a + n
      BY <1>1, <1>2, <1>5, <1>7
    <2>2. ASSUME NEW c \in S, NEW d \in S, c < d
          PROVE  c + size'[c] <= d
      <3>1. CASE c \in live /\ d \in live
        <4>1. c + size[c] <= d
          BY <2>2, <3>1 DEF WhileAllocating, Apart
        <4> QED
          BY <1>7, <3>1, <4>1
      <3>2. CASE c \in live /\ d = a
        BY <1>7, <3>2
      <3>3. CASE c = a /\ d \in live
        BY <1>2, <1>7, <2>2, <3>3
      <3>4. CASE c = a /\ d = a
        BY <1>2, <2>2, <3>4
      <3> QED
        BY <3>1, <3>2, <3>3, <3>4
    <2> HIDE DEF S
    <2>3. Apart(size', S, a + n)
      BY <2>1, <2>2 DEF Apart
    <2> QED
      BY <1>4, <1>6, <2>3 DEF S
  <1>9. Rest' \cap live' = {}
    BY <1>4, <1>6, <1>7
  <1>10. Allocating' /\ size'[p'] = Chunk(call'.n)
    BY <1>1, <1>4, <1>5 DEF Allocating, n
  <1> QED
    BY <1>1, <1>2, <1>3, <1>4, <1>5, <1>6, <1>8, <1>9, <1>10 DEF WhileAllocating

LEMMA AfterGiveUp ==
  ASSUME TypeOK, Walk, WhileAllocating, past = "allocates", fault = "no",
         TypeOK', GiveUp
  PROVE  WhileAllocating'
PROOF
  <1>1. p = base /\ Skipped = allocated
    BY AsksAtBase DEF GiveUp, Asks
  <1>2. /\ next' = [next EXCEPT ![base] = null] /\ offset' = allocated
        /\ call' = Idle /\ fault' \in {"no", "copy"}
        /\ UNCHANGED <<size, freep, allocated, live, past>>
    BY <1>1 DEF GiveUp
  <1>3. next'[base] = null /\ Rest' = {}
    BY <1>2 DEF TypeOK, Rest, Memory, null
  <1>4. Apart(size', live' \cup Rest', allocated')
    BY <1>2, <1>3 DEF WhileAllocating, Apart
  <1> QED
    BY <1>2, <1>3, <1>4 DEF WhileAllocating, Allocating, Idle, base, null

LEMMA AllocatingAllocator ==
  ASSUME TypeOK, Walk, WhileAllocating, past = "allocates", fault = "no",
         TypeOK', Allocator
  PROVE  WhileAllocating' /\ WhileFreeing'
PROOF
  <1>1. ASSUME past' = "allocates"
        PROVE  WhileFreeing'
    BY <1>1 DEF WhileFreeing
  <1>2. CASE TakeWhole
    BY <1>2, WholeIsTaken, AfterTaken DEF TakeWhole
  <1>3. CASE Cut
    BY <1>3, EndIsTaken, AfterTaken DEF Cut
  <1>4. CASE Grow
    BY <1>1, <1>4, AfterGrow DEF Grow
  <1>5. CASE GiveUp
    BY <1>1, <1>5, AfterGiveUp DEF GiveUp
  <1>6. CASE Skip
    BY <1>6, AsksAtBase DEF Skip
  <1>7. CASE GrowOutside
    <2>1. /\ Skipped = allocated /\ Chunk(call.n) \in Nat /\ Chunk(call.n) >= 1
          /\ allocated + Chunk(call.n) <= memory_size
      BY <1>7, AsksAtBase DEF GrowOutside, Asks, HasRoom
    <2>2. allocated \in Memory
      BY <2>1, AllocatorAssumption, UIntRangeType DEF TypeOK, Memory
    <2> QED
      BY <1>7, <2>1, <2>2 DEF GrowOutside
  <1>8. CASE CutOutside
    <2>1. call.n \in Nat /\ call.n >= 1 /\ Allocating
      BY <1>8, CallFields DEF CutOutside, Walk
    <2>2. p \in Memory \cup {base}
      BY <2>1, AtABlock DEF Allocating, Idle
    <2>3. size[p] \in Nat /\ size[p] > call.n
      BY <1>8, <2>2, AddressType DEF CutOutside
    <2>4. p \in Memory /\ p + size[p] <= allocated
      BY <2>1, <2>3, AtRest
    <2>5. p + size[p] - call.n \in Memory
      BY <2>1, <2>3, <2>4, AllocatorAssumption, UIntRangeType
         DEF TypeOK, WhileAllocating, Memory
    <2> QED
      BY <1>8, <2>5 DEF CutOutside
  <1>9. CASE Search \/ Link
    BY <1>9 DEF Search, Link, WhileAllocating
  <1> QED
    BY <1>2, <1>3, <1>4, <1>5, <1>6, <1>7, <1>8, <1>9 DEF Allocator

-------------------------------------------------------------------------------
(***************************************************************************)
(* While the client frees.                                                 *)
(***************************************************************************)

LEMMA FreeingClient ==
  ASSUME TypeOK, WhileFreeing, past = "frees", TypeOK', Client
  PROVE  WhileAllocating' /\ WhileFreeing'
PROOF
  <1>1. past' # "allocates"
    BY DEF Client, Alloc, ReAlloc, Free, Allocates, Frees
  <1>2. WhileAllocating'
    BY <1>1 DEF WhileAllocating
  <1>3. CASE past' = "reuses"
    BY <1>2, <1>3 DEF WhileFreeing
  <1>4. CASE \E b \in live : Free(b)
    <2>1. PICK b \in live : Free(b)
      BY <1>4
    <2>2. /\ b \in Memory /\ call'.op = "Free" /\ call'.old = b /\ ~ Allocating'
          /\ fault' = "no" /\ p' = base /\ live' = live \ {b}
          /\ next' = next /\ size' = size /\ call = Idle
      BY <2>1 DEF Free, TypeOK, Allocating, WhileFreeing
    <2>3. Held' = live /\ Held = live
      BY <2>1, <2>2 DEF Held, Idle
    <2>4. PICK F \in SUBSET Memory : FreeList(F)
      BY DEF WhileFreeing
    <2>5. FreeList(F)'
      BY <2>2, <2>3, <2>4 DEF FreeList
    <2>6. base < b /\ b \notin live'
      BY <2>2 DEF Memory, base
    <2> QED
      BY <1>2, <2>2, <2>5, <2>6 DEF WhileFreeing
  <1> QED
    BY <1>3, <1>4 DEF Client, Alloc, ReAlloc, Allocates

\* Where the search is: the block in hand is above p, and what follows p is a
\* free block or nothing.
LEMMA AtFree ==
  ASSUME TypeOK, NEW F \in SUBSET Memory, FreeList(F), call.op = "Free",
         p \in F \cup {base}, p < call.old, call.old \notin live
  PROVE  /\ p \in Memory \cup {base} /\ p \in Int /\ next[p] \in Int
         /\ call.old \in Memory /\ call.old \in Int /\ call.old \notin F
         /\ Held = live \cup {call.old}
         /\ next[p] = null \/ (next[p] \in F /\ next[p] # call.old /\ p < next[p])
PROOF
  <1>1. /\ call.old \in Memory /\ call.old \in Int
        /\ Held = live \cup {call.old} /\ call.old \notin F
    BY CallFields DEF Held, Memory, FreeList
  <1>2. p \in Memory \cup {base} /\ p \in Int /\ next[p] \in Int /\ size[p] \in Nat
    BY AddressType
  <1>3. CASE p = base
    BY <1>1, <1>2, <1>3 DEF FreeList, Memory, base
  <1>4. CASE p \in F
    <2>1. next[p] = null \/ (next[p] \in F /\ next[p] > p + size[p])
      BY <1>4 DEF FreeList
    <2> QED
      BY <1>1, <1>2, <2>1
  <1> QED
    BY <1>1, <1>2, <1>3, <1>4

LEMMA AfterSearch ==
  ASSUME TypeOK, WhileFreeing, past = "frees", TypeOK', Search
  PROVE  WhileFreeing'
PROOF
  <1>1. call.op = "Free"
    BY DEF Search
  <1>2. PICK F \in SUBSET Memory :
          FreeList(F) /\ p \in F \cup {base} /\ p < call.old /\ call.old \notin live
    BY <1>1 DEF WhileFreeing
  <1>3. /\ p \in Int /\ next[p] \in Int /\ call.old \in Int
        /\ next[p] = null \/ (next[p] \in F /\ p < next[p])
    BY <1>1, <1>2, AtFree
  <1>4. next[p] < call.old /\ p < next[p]
    BY <1>2, <1>3 DEF Search, Between
  <1>5. next[p] \in F /\ next[p] # null
    BY <1>3, <1>4, <1>2 DEF Memory, base, null
  <1>6. /\ p' = next[p] /\ fault' = "no"
        /\ UNCHANGED <<next, size, call, live, past>>
    BY <1>5 DEF Search, StepTo, WhileFreeing
  <1>7. FreeList(F)'
    BY <1>2, <1>6 DEF FreeList, Held
  <1>8. ~ Allocating'
    BY <1>1, <1>6 DEF Allocating
  <1> QED
    BY <1>2, <1>4, <1>5, <1>6, <1>7, <1>8 DEF WhileFreeing

\* The list after Link: without q when that was merged into the block b in
\* hand, with b unless that was merged into p.
LEMMA AfterLink ==
  ASSUME TypeOK, Walk, WhileFreeing, past = "frees", TypeOK', Link
  PROVE  WhileFreeing'
PROOF
  <1>1. call.op = "Free"
    BY DEF Link
  <1>2. PICK F \in SUBSET Memory :
          FreeList(F) /\ p \in F \cup {base} /\ p < call.old /\ call.old \notin live
    BY <1>1 DEF WhileFreeing
  <1> DEFINE b    == call.old
             q    == next[p]
             up   == b + size[b] = q
             bnext == IF up THEN next[q] ELSE q
             bsize == IF up THEN size[b] + size[q] ELSE size[b]
             down == p + size[p] = b
             below == IF down THEN bnext ELSE b
  <1>3. /\ p \in Memory \cup {base} /\ p \in Int /\ q \in Int
        /\ b \in Memory /\ b \in Int /\ b \notin F /\ b \notin live /\ p < b
        /\ Held = live \cup {b}
        /\ q = null \/ (q \in F /\ q # b /\ p < q)
    BY <1>1, <1>2, AtFree
  <1>4. q = null \/ (q \in F /\ b < q)
    BY <1>3 DEF Link, Between
  <1>5. /\ next' = [next EXCEPT ![b] = bnext, ![p] = below]
        /\ size' = [[size EXCEPT ![b] = bsize]
                      EXCEPT ![p] = IF down THEN @ + bsize ELSE @]
        /\ call' = Idle /\ live' = live /\ past' = past /\ fault' = fault
    BY DEF Link
  <1>6. /\ size[b] \in Nat /\ size[b] >= 1 /\ size[p] \in Nat
        /\ b + size[b] <= memory_size
        /\ \A c \in F \cup live : b < c => b + size[b] <= c
        /\ \A c \in F \cup live : c < b => c + size[c] <= b
    BY <1>2, <1>3, AddressType DEF FreeList, Apart
  <1>7. ASSUME NEW c \in F \cup live
        PROVE  /\ c \in Memory /\ c \in Int /\ size[c] \in Nat /\ size[c] >= 1
               /\ c + size[c] <= memory_size /\ next[c] \in Int
               /\ c # b /\ c # base /\ base < c
    <2>1. c \in Memory
      BY DEF TypeOK
    <2>2. size[c] >= 1 /\ c + size[c] <= memory_size
      BY <1>2, <1>3 DEF FreeList, Apart
    <2> QED
      BY <1>2, <1>3, <2>1, <2>2, AddressType DEF Memory, base
  <1>8. q \in F => q # null /\ b < q /\ p < q /\ base < q
    <2>1. q \in F => q # null
      BY DEF Memory, null
    <2> QED
      BY <1>3, <1>4, <1>7, <2>1
  <1>9. ASSUME NEW c \in F \cup live, NEW d \in F \cup live, c < d
        PROVE  c + size[c] <= d
    BY <1>2, <1>3, <1>9 DEF FreeList, Apart
  <1>10. up => q \in F /\ q = b + size[b]
    <2>1. up => q # null
      BY <1>3, <1>6 DEF Memory, null
    <2> QED
      BY <1>4, <2>1
  <1>11. down => p \in F /\ p + size[p] = b
    <2>1. p = base => ~ down
      BY <1>3 DEF Walk, Memory, base
    <2> QED
      BY <1>2, <2>1
  <1>12. \A d \in F : p < d => q \in F /\ q <= d
    BY <1>2 DEF FreeList
  <1>13. ASSUME NEW c \in F \cup {base}, c # p, next[c] \in F
         PROVE  next[c] # q \/ q \notin F
    <2>1. SUFFICES ASSUME next[c] = q, q \in F
                   PROVE  FALSE
      OBVIOUS
    <2>2. c \in Int /\ c < q
      <3>1. CASE c \in F
        <4>1. next[c] > c + size[c]
          BY <1>2, <1>7, <1>13, <3>1 DEF FreeList, Memory, null
        <4> QED
          BY <1>3, <1>7, <2>1, <3>1, <4>1
      <3>2. CASE c = base
        BY <1>8, <2>1, <3>2 DEF base
      <3> QED
        BY <3>1, <3>2
    <2>3. CASE c < p
      <3>1. p \in F
        BY <1>2, <1>7, <2>2, <2>3
      <3>2. next[c] \in F /\ next[c] <= p
        BY <1>2, <2>3, <3>1 DEF FreeList
      <3> QED
        BY <1>3, <1>8, <2>1, <3>2
    <2>4. CASE c > p
      <3>1. c \in F
        BY <1>2, <1>7, <2>2, <2>4
      <3> QED
        BY <1>3, <1>12, <2>2, <2>4, <3>1
    <2> QED
      BY <1>3, <1>13, <2>2, <2>3, <2>4
  <1>14. /\ bnext \in Int /\ bsize \in Nat /\ bsize >= 1
         /\ bnext = null \/ (bnext \in F /\ bnext > b + bsize)
         /\ b + bsize <= memory_size
    <2>1. CASE up
      <3>1. q \in F /\ q = b + size[b] /\ size[q] \in Nat /\ q + size[q] <= memory_size
        BY <1>7, <1>10, <2>1
      <3>2. next[q] = null \/ (next[q] \in F /\ next[q] > q + size[q])
        BY <1>2, <3>1 DEF FreeList
      <3>3. next[q] \in Int
        BY <1>7, <3>1
      <3> QED
        BY <1>3, <1>6, <2>1, <3>1, <3>2, <3>3
    <2>2. CASE ~ up
      <3>1. q \in F => b + size[b] <= q
        BY <1>3, <1>6, <1>8
      <3> QED
        BY <1>3, <1>4, <1>6, <1>7, <2>2, <3>1
    <2> QED
      BY <2>1, <2>2
  <1>15. up => bnext # q /\ b + bsize = q + size[q]
    <2>1. SUFFICES ASSUME up
                   PROVE  bnext # q /\ b + bsize = q + size[q]
      OBVIOUS
    <2>2. q \in F /\ q = b + size[b] /\ size[q] \in Nat
      BY <1>7, <1>10, <2>1
    <2>3. b + bsize = q + size[q]
      BY <1>3, <1>6, <2>1, <2>2
    <2>4. bnext = null \/ bnext > q + size[q]
      BY <1>14, <2>3
    <2> QED
      BY <1>3, <1>8, <1>14, <2>2, <2>3, <2>4
  <1>16. ~ up => bnext = q /\ bsize = size[b]
    OBVIOUS
  <1> DEFINE joins == up
  <1>17. /\ joins => q \in F /\ bnext # q /\ bnext = next[q] /\ b + bsize = q + size[q]
                     /\ b + size[b] = q
         /\ ~ joins => bnext = q /\ bsize = size[b]
         /\ down => below = bnext
         /\ ~ down => below = b
         /\ down <=> p + size[p] = b
         /\ q = next[p]
    BY <1>10, <1>15, <1>16
  <1> HIDE DEF b, q, bnext, bsize, down, below, joins
  <1>18. PICK G \in SUBSET Memory :
           G = (F \ (IF joins THEN {q} ELSE {})) \cup (IF down THEN {} ELSE {b})
    BY <1>3
  <1>19. /\ next'[b] = bnext /\ next'[p] = below
         /\ \A a \in Memory \cup {base} : a # b /\ a # p => next'[a] = next[a]
    BY <1>3, <1>5 DEF TypeOK
  <1>20. /\ size'[b] = bsize
         /\ down => size'[p] = size[p] + bsize
         /\ ~ down => size'[p] = size[p]
         /\ \A a \in Memory \cup {base} : a # b /\ a # p => size'[a] = size[a]
    BY <1>3, <1>5 DEF TypeOK
  <1>21. /\ \A d \in G : d \in Memory
         /\ \A d \in G : d = b \/ (d \in F /\ (joins => d # q))
         /\ \A d \in F : (joins => d # q) => d \in G
         /\ b \in G <=> ~ down
    BY <1>3, <1>18
  <1>22. bnext = null \/ bnext \in G
    BY <1>14, <1>17, <1>21
  <1>23. ASSUME NEW c \in F \cup {base}, c # p, next[c] \in F
         PROVE  next[c] \in G
    BY <1>13, <1>17, <1>21, <1>23
  <1>24. ASSUME NEW d \in F, p < d, joins => d # q
         PROVE  bnext \in G /\ bnext <= d
    <2>1. q \in F /\ q <= d /\ d \in Int
      BY <1>7, <1>12, <1>24
    <2>2. CASE joins
      <3>1. q < d
        BY <1>3, <1>24, <2>1, <2>2
      <3>2. next[q] \in F /\ next[q] <= d
        BY <1>2, <2>1, <3>1 DEF FreeList
      <3> QED
        BY <1>17, <1>21, <2>2, <3>2
    <2>3. CASE ~ joins
      BY <1>17, <1>21, <2>1, <2>3
    <2> QED
      BY <2>2, <2>3
  <1>25. next'[base] \in G
    <2>1. CASE p = base
      <3>1. ~ down
        BY <1>7, <1>11, <2>1
      <3> QED
        BY <1>17, <1>19, <1>21, <2>1, <3>1
    <2>2. CASE p # base
      <3>1. p \in F /\ base < p
        BY <1>2, <1>7, <2>2
      <3>2. next[base] \in F
        BY <1>2, <3>1 DEF FreeList
      <3>3. base # b
        BY <1>3 DEF Memory, base
      <3> QED
        BY <1>19, <1>23, <2>2, <3>2, <3>3
    <2> QED
      BY <2>1, <2>2
  <1>26. ASSUME NEW d \in G
         PROVE  next'[d] = null \/ (next'[d] \in G /\ next'[d] > d + size'[d])
    <2>1. CASE d = b
      BY <1>14, <1>19, <1>20, <1>22, <2>1
    <2>2. CASE d = p /\ down
      <3>1. p + size'[p] = b + bsize
        BY <1>3, <1>6, <1>11, <1>14, <1>20, <2>2
      <3> QED
        BY <1>14, <1>17, <1>19, <1>22, <2>2, <3>1
    <2>3. CASE d = p /\ ~ down
      <3>1. p \in F
        BY <1>3, <1>21, <2>3
      <3>2. p + size[p] < b
        BY <1>3, <1>6, <1>17, <2>3, <3>1
      <3> QED
        BY <1>17, <1>19, <1>20, <1>21, <2>3, <3>2
    <2>4. CASE d # b /\ d # p
      <3>1. d \in F /\ d \in Memory
        BY <1>21, <2>4
      <3>2. next[d] = null \/ (next[d] \in F /\ next[d] > d + size[d])
        BY <1>2, <3>1 DEF FreeList
      <3> QED
        BY <1>19, <1>20, <1>23, <2>4, <3>1, <3>2
    <2> QED
      BY <2>1, <2>2, <2>3, <2>4
  <1>27. ASSUME NEW c \in G \cup {base}, NEW d \in G, c < d
         PROVE  next'[c] \in G /\ next'[c] <= d
    <2>1. /\ d \in Int /\ c \in Int /\ c \in Memory \cup {base}
          /\ d = b \/ (d \in F /\ (joins => d # q))
      BY <1>21, AddressType
    <2>2. CASE c = b \/ (c = p /\ down)
      <3>1. next'[c] = bnext
        BY <1>17, <1>19, <2>2
      <3>2. d # b
        BY <1>21, <1>27, <2>1, <2>2
      <3>3. p < d
        BY <1>3, <1>27, <2>1, <2>2
      <3> QED
        BY <1>24, <2>1, <3>1, <3>2, <3>3
    <2>3. CASE c = p /\ ~ down
      <3>1. next'[c] = b /\ b \in G
        BY <1>17, <1>19, <1>21, <2>3
      <3>2. d = b \/ b < d
        BY <1>3, <1>8, <1>12, <1>27, <2>1, <2>3
      <3> QED
        BY <1>3, <3>1, <3>2
    <2>4. CASE c # b /\ c # p
      <3>1. c \in F \cup {base} /\ next'[c] = next[c]
        BY <1>19, <1>21, <2>1, <2>4
      <3>2. CASE d \in F
        <4>1. next[c] \in F /\ next[c] <= d
          BY <1>2, <1>27, <3>1, <3>2 DEF FreeList
        <4> QED
          BY <1>23, <2>4, <3>1, <4>1
      <3>3. CASE d = b
        <4>1. c < p
          <5>1. SUFFICES ASSUME c > p
                         PROVE  FALSE
            BY <1>3, <2>1, <2>4
          <5>2. c \in F
            BY <1>2, <1>7, <2>1, <3>1, <5>1
          <5>3. q \in F /\ q <= c
            BY <1>12, <5>1, <5>2
          <5> QED
            BY <1>3, <1>8, <1>27, <2>1, <3>3, <5>3
        <4>2. p \in F
          BY <1>2, <1>7, <2>1, <3>1, <4>1
        <4>3. next[c] \in F /\ next[c] <= p
          BY <1>2, <3>1, <4>1, <4>2 DEF FreeList
        <4>4. next[c] \in Int
          BY <1>7, <4>3
        <4> QED
          BY <1>3, <1>23, <2>4, <3>1, <3>3, <4>3, <4>4
      <3> QED
        BY <2>1, <3>2, <3>3
    <2> QED
      BY <2>2, <2>3, <2>4
  <1>28. /\ \A d \in G \cup live : d # b => d \in F \cup live /\ (joins => d # q)
         /\ b \in G \cup live => ~ down
         /\ G \cap live = {}
    <2>1. F \cap live = {}
      BY <1>2, <1>3 DEF FreeList
    <2> QED
      BY <1>3, <1>17, <1>21, <2>1
  <1>29. ASSUME NEW d \in G \cup live, b < d
         PROVE  b + bsize <= d
    <2>1. d # b
      BY <1>3, <1>29
    <2>2. d \in F \cup live /\ d \in Int /\ (joins => d # q) /\ b + size[b] <= d
      BY <1>6, <1>7, <1>28, <1>29, <2>1
    <2>3. CASE joins
      <3>1. q \in F /\ q < d
        BY <1>3, <1>17, <2>2, <2>3
      <3> QED
        BY <1>9, <1>17, <2>2, <2>3, <3>1
    <2> QED
      BY <1>17, <2>2, <2>3
  <1>30. Apart(size', G \cup live, memory_size)
    <2>1. ASSUME NEW c \in G \cup live
          PROVE  size'[c] >= 1 /\ c + size'[c] <= memory_size
      <3>1. CASE c = b
        BY <1>14, <1>20, <3>1
      <3>2. CASE c = p /\ down
        BY <1>3, <1>6, <1>11, <1>14, <1>20, <3>2
      <3>3. CASE c # b /\ ~ (c = p /\ down)
        BY <1>7, <1>20, <1>28, <3>3
      <3> QED
        BY <3>1, <3>2, <3>3
    <2>2. ASSUME NEW c \in G \cup live, NEW d \in G \cup live, c < d
          PROVE  c + size'[c] <= d
      <3>1. CASE c = b
        BY <1>20, <1>29, <2>2, <3>1
      <3>2. CASE c = p /\ down
        <4>1. d \in F \cup live /\ d \in Int
          BY <1>7, <1>28, <3>2
        <4>2. p \in F /\ p + size[p] = b
          BY <1>11, <3>2
        <4>3. b < d
          BY <1>3, <1>7, <1>9, <2>2, <3>2, <4>1, <4>2
        <4>4. b + bsize <= d
          BY <1>29, <4>3
        <4> QED
          BY <1>3, <1>6, <1>14, <1>20, <3>2, <4>1, <4>2, <4>4
      <3>3. CASE c # b /\ ~ (c = p /\ down)
        <4>1. c \in F \cup live /\ size'[c] = size[c]
          BY <1>7, <1>20, <1>28, <3>3
        <4>2. CASE d = b
          BY <1>6, <2>2, <4>1, <4>2
        <4>3. CASE d # b
          BY <1>9, <1>28, <2>2, <4>1, <4>3
        <4> QED
          BY <4>2, <4>3
      <3> QED
        BY <3>1, <3>2, <3>3
    <2> QED
      BY <2>1, <2>2 DEF Apart
  <1>31. Held' = live
    BY <1>5 DEF Held, Idle
  <1>32. FreeList(G)'
    <2>1. next'[base] # base
      BY <1>21, <1>25 DEF Memory, base
    <2> QED
      BY <1>21, <1>25, <1>26, <1>27, <1>28, <1>30, <1>31, <2>1 DEF FreeList
  <1>33. call'.op # "Free" /\ ~ Allocating' /\ fault' = "no"
    BY <1>5 DEF Allocating, Idle, WhileFreeing
  <1> QED
    BY <1>32, <1>33 DEF WhileFreeing

LEMMA FreeingAllocator ==
  ASSUME TypeOK, Walk, WhileFreeing, past = "frees", TypeOK', Allocator
  PROVE  WhileAllocating' /\ WhileFreeing'
PROOF
  <1>1. ~ Allocating
    BY DEF WhileFreeing
  <1>2. Search \/ Link
    BY <1>1 DEF Allocator, TakeWhole, Cut, CutOutside, Skip, Grow, GrowOutside,
                GiveUp, Asks
  <1>3. past' = "frees"
    BY <1>2 DEF Search, Link
  <1> QED
    BY <1>2, <1>3, AfterSearch, AfterLink DEF WhileAllocating

-------------------------------------------------------------------------------
(***************************************************************************)
(* The invariant holds.                                                    *)
(***************************************************************************)

LEMMA InvInit == Init => IInv
PROOF
  <1> SUFFICES ASSUME Init
               PROVE  IInv
    OBVIOUS
  <1>1. TypeOK /\ Walk
    BY TypeInit
  <1>2. next[base] = base /\ Rest = {}
    BY DEF Init, Rest, Memory, base
  <1>3. Apart(size, live \cup Rest, allocated)
    BY <1>2 DEF Init, Apart
  <1>4. ~ Allocating /\ call.op # "Free" /\ call.op # "ReAlloc"
    BY DEF Init, Allocating, Idle
  <1>5. WhileAllocating
    BY <1>2, <1>3, <1>4, AllocatorAssumption, UIntRangeType DEF Init, WhileAllocating
  <1>6. WhileFreeing
    BY DEF Init, WhileFreeing
  <1> QED
    BY <1>1, <1>5, <1>6 DEF IInv

LEMMA InvStep ==
  ASSUME NoWrap, IInv, [Next]_vars
  PROVE  IInv'
PROOF
  <1>1. TypeOK' /\ Walk'
    BY TypeStep DEF IInv
  <1>2. CASE UNCHANGED vars
    BY <1>1, <1>2
       DEF vars, IInv, WhileAllocating, WhileFreeing, FreeList, Rest, Held, Allocating
  <1>3. CASE Next
    <2>1. fault = "no" /\ (Client \/ Allocator)
      BY <1>3 DEF Next, Defined
    <2>2. CASE past = "allocates"
      BY <1>1, <2>1, <2>2, AllocatingClient, AllocatingAllocator DEF IInv
    <2>3. CASE past = "frees"
      BY <1>1, <2>1, <2>3, FreeingClient, FreeingAllocator DEF IInv
    <2>4. CASE past = "reuses"
      <3>1. past' = "reuses"
        BY <2>1, <2>4 DEF Client, Alloc, ReAlloc, Free, Allocates, Frees, Allocator,
             TakeWhole, Cut, CutOutside, Skip, Grow, GrowOutside, GiveUp, Search,
             Link, Return, Outside
      <3> QED
        BY <1>1, <3>1 DEF IInv, WhileAllocating, WhileFreeing
    <2> QED
      BY <2>2, <2>3, <2>4 DEF IInv, TypeOK
  <1> QED
    BY <1>2, <1>3

LEMMA Invariance ==
  ASSUME NoWrap
  PROVE  Spec => []IInv
PROOF
  <1>1. IInv /\ [Next]_vars => IInv'
    BY InvStep
  <1> QED
    BY InvInit, <1>1, PTL DEF Spec

-------------------------------------------------------------------------------
(***************************************************************************)
(* The client's blocks.                                                    *)
(***************************************************************************)

\* What an orderly client and the allocator hold is a list and blocks apart
\* from it.
LEMMA OrderlyList ==
  ASSUME IInv, Orderly
  PROVE  \E F \in SUBSET Memory : FreeList(F)
PROOF
  <1>1. CASE past = "allocates"
    <2>1. Held = live
      BY <1>1 DEF IInv, WhileAllocating, Held
    <2>2. Apart(size, Held \cup Rest, memory_size)
      <3>1. Held \cup Rest \subseteq Memory
        BY <2>1 DEF IInv, TypeOK, Rest
      <3>2. allocated \in Int /\ allocated <= memory_size
        BY <1>1 DEF IInv, TypeOK, WhileAllocating
      <3>3. size \in [Memory \cup {base} -> Nat]
        BY DEF IInv, TypeOK
      <3>4. Apart(size, Held \cup Rest, allocated)
        BY <1>1, <2>1 DEF IInv, WhileAllocating
      <3> QED
        BY <3>1, <3>2, <3>3, <3>4, ApartInPool
    <2> QED
      BY <1>1, <2>1, <2>2, RestIsFreeList DEF IInv, WhileAllocating
  <1>2. CASE past = "frees"
    BY <1>2 DEF IInv, WhileFreeing
  <1> QED
    BY <1>1, <1>2 DEF IInv, TypeOK, Orderly

\* The blocks of a set apart have extents apart.
LEMMA ExtentsApart ==
  ASSUME TypeOK, NEW S \in SUBSET Memory, Apart(size, S, memory_size)
  PROVE  /\ \A b \in S : Extent(b) \subseteq Memory
         /\ \A b, c \in S : b # c => Extent(b) \cap Extent(c) = {}
PROOF
  <1>1. ASSUME NEW b \in S
        PROVE  b \in Nat /\ size[b] \in Nat /\ b + size[b] <= memory_size
    BY AddressType DEF Apart, Memory
  <1>2. memory_size \in Nat
    BY AllocatorAssumption, UIntRangeType
  <1>3. \A b \in S : Extent(b) \subseteq Memory
    BY <1>1, <1>2 DEF Extent, Memory
  <1>4. ASSUME NEW b \in S, NEW c \in S, b < c
        PROVE  Extent(b) \cap Extent(c) = {}
    <2>1. b + size[b] <= c
      BY <1>4 DEF Apart
    <2> QED
      BY <1>1, <2>1 DEF Extent
  <1>5. ASSUME NEW b \in S, NEW c \in S, b # c
        PROVE  Extent(b) \cap Extent(c) = {}
    <2>1. b < c \/ c < b
      BY <1>1, <1>5
    <2> QED
      BY <1>4, <2>1
  <1> QED
    BY <1>3, <1>5

(***************************************************************************)
(* A client whose allocations all come before its first Free holds blocks  *)
(* that are inside the pool and apart, whatever it asks for, reallocates   *)
(* and frees and in whatever order (alloc.cpp 71-165): nothing of one is   *)
(* overwritten through another, which check_block asserts on one order.    *)
(***************************************************************************)
THEOREM BlocksStayApart ==
  ASSUME NoWrap
  PROVE  Spec => []PoolInv
PROOF
  <1>1. ASSUME IInv
        PROVE  PoolInv
    <2>1. ASSUME Orderly
          PROVE  Disjoint
      <3>1. PICK F \in SUBSET Memory : FreeList(F)
        BY <1>1, <2>1, OrderlyList
      <3>2. Apart(size, live, memory_size)
        BY <3>1 DEF FreeList, Apart, Held
      <3> QED
        BY <1>1, <3>2, ExtentsApart DEF IInv, TypeOK, Disjoint
    <2> QED
      BY <1>1, <2>1 DEF IInv, PoolInv, BlocksApart
  <1> QED
    BY <1>1, Invariance, PTL

(***************************************************************************)
(* For such a client neither Alloc's nor Free's walk follows a null        *)
(* pointer, and no header is written outside the pool (76-106, 140-146).   *)
(***************************************************************************)
THEOREM WalksStayInside ==
  ASSUME NoWrap
  PROVE  Spec => []WalksInside
PROOF
  <1>1. IInv => WalksInside
    BY DEF IInv, TypeOK, WhileAllocating, WhileFreeing, WalksInside, Orderly
  <1> QED
    BY <1>1, Invariance, PTL

-------------------------------------------------------------------------------
(***************************************************************************)
(* The free list.  Its recursive definition is met by the ends of the      *)
(* paths along next, so it holds of Listed.                                *)
(***************************************************************************)

\* A path of k steps, each along next or none, from base's next to b.
Path(f, k, b) ==
  /\ f \in [0..k -> Memory]
  /\ f[0] = next[base] /\ f[k] = b
  /\ \A i \in 0..(k - 1) : f[i + 1] = f[i] \/ f[i + 1] = next[f[i]]

Reached == [k \in Nat |-> {b \in Memory : \E f : Path(f, k, b)}]

LEMMA ReachedFirst ==
  ASSUME TypeOK
  PROVE  Reached[0] = {next[base]} \ {base, null}
PROOF
  <1>1. /\ next[base] \in Pointers /\ base \notin Memory /\ null \notin Memory
    BY DEF TypeOK, Memory, base, null
  <1>2. ASSUME next[base] \in Memory
        PROVE  Path([i \in 0..0 |-> next[base]], 0, next[base])
    BY <1>2 DEF Path
  <1>3. ASSUME NEW b \in Memory, NEW f, Path(f, 0, b)
        PROVE  b = next[base]
    BY <1>3 DEF Path
  <1> QED
    BY <1>1, <1>2, <1>3 DEF Reached, Pointers

LEMMA ReachedNext ==
  ASSUME TypeOK, NEW k \in Nat \ {0}
  PROVE  Reached[k] = (UNION {{b, next[b]} : b \in Reached[k - 1]}) \ {base, null}
PROOF
  <1> DEFINE R == Reached[k - 1]
             P == {{b, next[b]} : b \in R}
             U == (UNION P) \ {base, null}
  <1>1. ASSUME NEW x
        PROVE  x \in U <=> x \notin {base, null} /\ \E c \in R : x = c \/ x = next[c]
    <2> HIDE DEF R
    <2>1. ASSUME NEW c \in R
          PROVE  {c, next[c]} \in P
      OBVIOUS
    <2>2. ASSUME NEW s \in P
          PROVE  \E c \in R : s = {c, next[c]}
      OBVIOUS
    <2>3. x \in UNION P <=> \E s \in P : x \in s
      <3> HIDE DEF P
      <3> QED
        OBVIOUS
    <2> HIDE DEF P
    <2>4. ASSUME NEW c \in R, x = c \/ x = next[c]
          PROVE  x \in UNION P
      <3>1. {c, next[c]} \in P /\ x \in {c, next[c]}
        BY <2>1, <2>4
      <3> QED
        BY <2>3, <3>1
    <2>5. ASSUME x \in UNION P
          PROVE  \E c \in R : x = c \/ x = next[c]
      <3>1. PICK s \in P : x \in s
        BY <2>3, <2>5
      <3>2. PICK c \in R : s = {c, next[c]}
        BY <2>2
      <3> QED
        BY <3>1, <3>2
    <2> QED
      BY <2>4, <2>5
  <1>2. base \notin Memory /\ null \notin Memory /\ k - 1 \in Nat
    BY DEF Memory, base, null
  <1>3. ASSUME NEW b \in Reached[k]
        PROVE  b \in U
    <2>1. b \in Memory /\ \E f : Path(f, k, b)
      BY DEF Reached
    <2>2. PICK f : Path(f, k, b)
      BY <2>1
    <2> DEFINE g == [i \in 0..(k - 1) |-> f[i]]
               c == f[k - 1]
    <2>3. c \in Memory /\ (b = c \/ b = next[c])
      <3>1. k - 1 \in 0..(k - 1) /\ k - 1 \in 0..k /\ (k - 1) + 1 = k
        OBVIOUS
      <3> QED
        BY <2>2, <3>1 DEF Path
    <2>4. Path(g, k - 1, c)
      <3>1. g \in [0..(k - 1) -> Memory]
        BY <2>2 DEF Path
      <3>2. g[0] = next[base] /\ g[k - 1] = c
        BY <2>2 DEF Path
      <3>3. ASSUME NEW i \in 0..((k - 1) - 1)
            PROVE  g[i + 1] = g[i] \/ g[i + 1] = next[g[i]]
        <4>1. i \in 0..(k - 1) /\ i + 1 \in 0..(k - 1)
          OBVIOUS
        <4>2. g[i] = f[i] /\ g[i + 1] = f[i + 1]
          BY <4>1
        <4> QED
          BY <2>2, <4>1, <4>2 DEF Path
      <3> QED
        BY <3>1, <3>2, <3>3 DEF Path
    <2>5. c \in Reached[k - 1]
      BY <1>2, <2>3, <2>4 DEF Reached
    <2> HIDE DEF c
    <2> QED
      BY <1>1, <1>2, <2>1, <2>3, <2>5
  <1>4. ASSUME NEW b \in U
        PROVE  b \in Reached[k]
    <2>1. PICK c \in R : (b = c \/ b = next[c]) /\ b \notin {base, null}
      <3> HIDE DEF U, R
      <3> QED
        BY <1>1
    <2>2. c \in Memory /\ \E f : Path(f, k - 1, c)
      BY <1>2 DEF Reached
    <2>3. PICK f : Path(f, k - 1, c)
      BY <2>2
    <2>4. b \in Memory
      BY <2>1, <2>2 DEF TypeOK, Pointers
    <2> DEFINE g == [i \in 0..k |-> IF i = k THEN b ELSE f[i]]
    <2>5. Path(g, k, b)
      <3>1. g \in [0..k -> Memory]
        BY <2>3, <2>4 DEF Path
      <3>2. g[0] = next[base] /\ g[k] = b
        BY <2>3 DEF Path
      <3>3. ASSUME NEW i \in 0..(k - 1)
            PROVE  g[i + 1] = g[i] \/ g[i + 1] = next[g[i]]
        <4>1. CASE i = k - 1
          <5>1. g[i + 1] = b /\ g[i] = c
            BY <2>3, <4>1 DEF Path
          <5> QED
            BY <2>1, <5>1
        <4>2. CASE i # k - 1
          <5>1. i \in 0..((k - 1) - 1) /\ g[i + 1] = f[i + 1] /\ g[i] = f[i]
            BY <4>2
          <5> QED
            BY <2>3, <5>1 DEF Path
        <4> QED
          BY <4>1, <4>2
      <3> QED
        BY <3>1, <3>2, <3>3 DEF Path
    <2> QED
      BY <2>4, <2>5 DEF Reached
  <1> QED
    BY <1>3, <1>4

LEMMA ListedUnfolds ==
  ASSUME TypeOK
  PROVE  /\ Listed[0] = {next[base]} \ {base, null}
         /\ \A k \in Nat \ {0} :
              Listed[k] = (UNION {{b, next[b]} : b \in Listed[k - 1]}) \ {base, null}
PROOF
  <1> DEFINE Step(f, k) == IF k = 0 THEN {next[base]} \ {base, null}
                           ELSE (UNION {{b, next[b]} : b \in f[k - 1]}) \ {base, null}
             Eq(f) == f = [k \in Nat |-> Step(f, k)]
  <1>1. Eq(Reached)
    <2>1. ASSUME NEW k \in Nat
          PROVE  Reached[k] = Step(Reached, k)
      BY ReachedFirst, ReachedNext
    <2>2. Reached = [k \in Nat |-> Reached[k]]
      BY DEF Reached
    <2> HIDE DEF Step
    <2> QED
      BY <2>1, <2>2
  <1>2. Listed = CHOOSE f : Eq(f)
    BY DEF Listed
  <1>3. Eq(Listed)
    <2> HIDE DEF Eq
    <2> QED
      BY <1>1, <1>2
  <1> QED
    BY <1>3

\* A set of naturals has a least one: of the intervals from 0 to its
\* elements, one has none of the others strictly inside.
LEMMA LeastNatural ==
  ASSUME NEW M \in SUBSET Nat, M # {}
  PROVE  \E m \in M : \A k \in M : m <= k
PROOF
  <1> DEFINE T == {0..m : m \in M}
              R == StrictSubsetOrdering(Nat)
  <1>1. IsWellFoundedOn(R, FiniteSubsetsOf(Nat))
    BY FS_StrictSubsetOrderingWellFounded
  <1>2. T \subseteq FiniteSubsetsOf(Nat)
    <2>1. \A m \in M : IsFiniteSet(0..m) /\ 0..m \in SUBSET Nat
      BY FS_Interval
    <2> QED
      BY <2>1 DEF FiniteSubsetsOf
  <1>3. T # {}
    OBVIOUS
  <1> HIDE DEF R
  <1>4. PICK X \in T : \A Y \in T : <<Y, X>> \notin R
    <2> HIDE DEF T
    <2> QED
      BY <1>1, <1>2, <1>3, WFMin
  <1>5. PICK m \in M : X = 0..m
    BY <1>4
  <1>6. ASSUME NEW k \in M, k < m PROVE FALSE
    <2>1. 0..k \in T /\ 0..k \in SUBSET Nat /\ 0..m \in SUBSET Nat
      BY <1>6
    <2>2. 0..k \subseteq 0..m /\ 0..k # 0..m
      <3>1. m \in 0..m /\ m \notin 0..k
        BY <1>6
      <3>2. 0..k \subseteq 0..m
        BY <1>6
      <3> QED
        BY <3>1, <3>2
    <2>3. <<0..k, 0..m>> \in R
      BY <2>1, <2>2 DEF R, StrictSubsetOrdering
    <2> QED
      BY <1>4, <1>5, <2>1, <2>3
  <1> QED
    BY <1>5, <1>6

\* Whatever the list leads to is on it.
LEMMA ListedIsFree ==
  ASSUME TypeOK, NEW F \in SUBSET Memory, FreeList(F)
  PROVE  FreeBlocks \subseteq F
PROOF
  <1> DEFINE Bad == {k \in Nat : ~ (Listed[k] \subseteq F)}
  <1>1. ASSUME Bad # {}
        PROVE  FALSE
    <2>1. PICK m \in Bad : \A k \in Bad : m <= k
      <3> HIDE DEF Bad
      <3>1. Bad \in SUBSET Nat
        BY DEF Bad
      <3> QED
        BY <1>1, <3>1, LeastNatural
    <2>2. m \in Nat /\ ~ (Listed[m] \subseteq F)
      OBVIOUS
    <2>3. CASE m = 0
      <3>1. {next[base]} \ {base, null} \subseteq F
        BY DEF FreeList
      <3> QED
        BY <2>2, <2>3, <3>1, ListedUnfolds
    <2>4. CASE m # 0
      <3>1. m - 1 \in Nat /\ m - 1 \notin Bad
        BY <2>1, <2>2, <2>4
      <3>2. Listed[m - 1] \subseteq F
        BY <3>1
      <3>3. Listed[m] = (UNION {{b, next[b]} : b \in Listed[m - 1]}) \ {base, null}
        BY <2>2, <2>4, ListedUnfolds
      <3> DEFINE R == Listed[m - 1]
      <3> HIDE DEF R
      <3>4. ASSUME NEW x \in (UNION {{b, next[b]} : b \in R}) \ {base, null}
            PROVE  \E c \in R : x = c \/ x = next[c]
        OBVIOUS
      <3>5. ASSUME NEW x \in Listed[m]
            PROVE  x \in F
        <4>1. x \in (UNION {{b, next[b]} : b \in R}) \ {base, null}
          BY <3>3 DEF R
        <4>2. PICK c \in R : x = c \/ x = next[c]
          BY <3>4, <4>1
        <4>3. c \in F /\ x # null
          BY <3>2, <4>1 DEF R
        <4> QED
          BY <4>2, <4>3 DEF FreeList
      <3> QED
        BY <2>2, <3>5
    <2> QED
      BY <2>3, <2>4
  <1>2. memory_size \in Nat
    BY AllocatorAssumption, UIntRangeType
  <1> QED
    BY <1>1, <1>2 DEF FreeBlocks

(***************************************************************************)
(* For such a client the free list is sound between calls: what it leads   *)
(* to is inside the pool, in nobody's hands, and goes up in memory with    *)
(* room between a block and the next, since Free merges what it touches    *)
(* (alloc.cpp 138-164).                                                    *)
(***************************************************************************)
THEOREM FreeListIsSound ==
  ASSUME NoWrap
  PROVE  Spec => []FreeSound
PROOF
  <1>1. ASSUME IInv
        PROVE  FreeSound
    <2>1. SUFFICES ASSUME Orderly, call = Idle, NEW b \in FreeBlocks
                   PROVE  /\ Extent(b) \subseteq Memory
                          /\ \A c \in live : Extent(b) \cap Extent(c) = {}
                          /\ next[b] # null => next[b] > b + size[b]
      BY DEF FreeSound
    <2>2. PICK F \in SUBSET Memory : FreeList(F)
      BY <1>1, <2>1, OrderlyList
    <2>3. b \in F
      BY <1>1, <2>2, ListedIsFree DEF IInv
    <2>4. Held = live /\ live \subseteq Memory
      BY <1>1, <2>1 DEF Held, Idle, IInv, TypeOK
    <2>5. \A c \in live : b # c
      BY <2>2, <2>3, <2>4 DEF FreeList
    <2> DEFINE S == F \cup live
    <2>6. S \in SUBSET Memory /\ Apart(size, S, memory_size)
      BY <2>2, <2>4 DEF FreeList
    <2>7. b \in S /\ live \subseteq S
      BY <2>3
    <2> HIDE DEF S
    <2>8. /\ Extent(b) \subseteq Memory
          /\ \A c \in live : Extent(b) \cap Extent(c) = {}
      BY <1>1, <2>5, <2>6, <2>7, ExtentsApart DEF IInv
    <2> QED
      BY <2>2, <2>3, <2>8 DEF FreeList
  <1> QED
    BY <1>1, Invariance, PTL

===============================================================================
