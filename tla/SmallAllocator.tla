----------------------------- MODULE SmallAllocator ----------------------------
(***************************************************************************)
(* The allocator of Multithread/week1/alloc.cpp and a client that makes    *)
(* its calls.  Memory is counted in headers (16 bytes): the code's         *)
(* pointers, sizes and offsets into the pool are all whole headers.  A     *)
(* call is a walk along the list that starts at base, one block a step.    *)
(*                                                                         *)
(* The model ends where the program is undefined: fault tells that it      *)
(* followed a null pointer, wrote a header outside the pool or copied to a *)
(* null pointer, and Disjoint that the client's blocks do not overlap.     *)
(***************************************************************************)
EXTENDS Integers, FiniteSets

CONSTANTS
  memory_size, memory_block,    \* in headers
  Sizes,                        \* the sizes the client asks for, in bytes
  Ops,                          \* the calls it makes
  MaxCalls                      \* bound: the calls it makes

UIntRange == 2^28   \* an unsigned int that counts bytes, in headers

ASSUME AllocatorAssumption ==
  /\ memory_block \in Nat \ {0} /\ memory_size \in 0..(UIntRange - 1)
  /\ Sizes \subseteq Nat
  /\ Ops \subseteq {"Alloc", "ReAlloc", "Free"}
  /\ MaxCalls \in Nat

header_size == 16

\* Addresses: the pool is 0..memory_size - 1, base lies before it.
Memory == 0..(memory_size - 1)
base == -2
null == -3
Pointers == Memory \cup {base, null}

UInt(x) == x % UIntRange

Idle == [op |-> "idle"]

VARIABLES
  next, size,           \* the headers, by address
  freep, allocated, offset,
  call,                 \* the call the client is in
  p, prevp,             \* its walk
  live,                 \* the blocks the client holds, as addresses of headers
  past,                 \* history: the client "allocates", then "frees", then
                        \* allocates again, which "reuses" memory
  calls,                \* how many calls it has made
  fault

vars == <<next, size, freep, allocated, offset, call, p, prevp, live, past, calls, fault>>

TypeOK ==
  /\ next \in [Memory \cup {base} -> Pointers]
  /\ size \in [Memory \cup {base} -> Nat]
  /\ freep \in Pointers
  /\ allocated \in 0..(UIntRange - 1) /\ offset \in 0..(UIntRange - 1)
  /\ call \in {Idle}
       \cup [op : {"Alloc"}, n : Nat]
       \cup [op : {"ReAlloc"}, n : Nat, old : Memory]
       \cup [op : {"Free"}, old : Memory]
  /\ p \in Pointers /\ prevp \in Pointers
  /\ live \subseteq Memory
  /\ past \in {"allocates", "frees", "reuses"} /\ calls \in 0..MaxCalls
  /\ fault \in {"no", "null", "outside", "copy"}

Init ==
  /\ next = [a \in Memory \cup {base} |-> IF a = base THEN base ELSE null]
  /\ size = [a \in Memory \cup {base} |-> 0]
  /\ freep = base /\ allocated = 0 /\ offset = 0
  /\ call = Idle /\ p = null /\ prevp = null
  /\ live = {} /\ past = "allocates" /\ calls = 0 /\ fault = "no"

\* The headers a request for bytes takes, its own included.
new_alloc(bytes) == (bytes + header_size - 1) \div header_size + 1

-------------------------------------------------------------------------------
(***************************************************************************)
(* Alloc                                                                   *)
(***************************************************************************)

\* What the client has done, after an allocation and after a Free.
Allocates == past' = IF past = "allocates" THEN past ELSE "reuses"
Frees     == past' = IF past = "allocates" THEN "frees" ELSE past

Alloc(bytes) ==
  /\ call = Idle
  /\ Allocates
  /\ call' = [op |-> "Alloc", n |-> new_alloc(bytes)]
  /\ p' = base
  /\ UNCHANGED <<next, size, freep, allocated, offset, prevp, live, fault>>

Allocating == call.op \in {"Alloc", "ReAlloc"}

\* What Alloc's caller does with block b.  ReAlloc copies to it, and then
\* frees the old block, which starts with offset and allocated.
Return(b) ==
  IF call.op = "ReAlloc"
  THEN /\ call' = [op |-> "Free", old |-> call.old]
       /\ p' = base
       /\ live' = (live \cup {b}) \ {call.old}
       /\ Frees
       /\ offset' = call.old
       /\ allocated' = UInt(allocated - size[call.old])
  ELSE /\ call' = Idle
       /\ p' = null
       /\ live' = live \cup {b}
       /\ UNCHANGED <<past, offset, allocated>>

\* The block at p is of the size asked for: take it off the list.
TakeWhole ==
  /\ Allocating /\ size[p] = call.n
  /\ next' = [next EXCEPT ![prevp] = next[p]]
  /\ freep' = prevp
  /\ prevp' = null
  /\ Return(p)
  /\ UNCHANGED <<size, calls, fault>>

\* Mutant of Cut: the free block keeps its size.
CutUnreduced ==
  LET b == p + size[p]
  IN /\ Allocating /\ size[p] > call.n /\ b \in Memory
     /\ size' = [size EXCEPT ![b] = call.n]
     /\ freep' = prevp
     /\ prevp' = null
     /\ Return(b)
     /\ UNCHANGED <<next, calls, fault>>

\* It is larger: cut the block off its end.
Cut ==
  LET b == p + size[p] - call.n
  IN /\ Allocating /\ size[p] > call.n /\ b \in Memory
     /\ size' = [size EXCEPT ![p] = @ - call.n, ![b] = call.n]
     /\ freep' = prevp
     /\ prevp' = null
     /\ Return(b)
     /\ UNCHANGED <<next, calls, fault>>

\* A header is written outside the pool, by Cut or by alloc_in_mem.
Outside ==
  /\ fault' = "outside"
  /\ UNCHANGED <<next, size, freep, allocated, offset, call, p, prevp, live, past, calls>>

CutOutside ==
  /\ Allocating /\ size[p] > call.n /\ p + size[p] - call.n \notin Memory
  /\ Outside

\* offset after a block too small: the size goes in as bytes, not headers.
Skipped == IF p = base THEN offset ELSE UInt(offset + p + header_size * size[p])

\* The walk goes on to the next block, or follows a null pointer.
StepTo(q) ==
  /\ p' = q
  /\ fault' = IF q = null THEN "null" ELSE fault
  /\ prevp' = p

\* Mutant of Skip: the walk stays where it is.
SkipStays ==
  /\ Allocating /\ size[p] < call.n /\ p # freep
  /\ offset' = Skipped
  /\ StepTo(p)
  /\ UNCHANGED <<next, size, freep, allocated, call, live, past, calls>>

Skip ==
  /\ Allocating /\ size[p] < call.n /\ p # freep
  /\ offset' = Skipped
  /\ StepTo(next[p])
  /\ UNCHANGED <<next, size, freep, allocated, call, live, past, calls>>

\* alloc_in_mem: what a request for n headers takes from the pool.
Chunk(n) == IF n < memory_block THEN memory_block ELSE n

\* At freep the pool is asked for a new block, and has it.
Asks == Allocating /\ size[p] < call.n /\ p = freep
\* Mutant of HasRoom: the new block is not counted.
HasRoomBefore == allocated <= memory_size

HasRoom == UInt(allocated + Chunk(call.n)) <= memory_size

Grow ==
  /\ Asks /\ HasRoom /\ Skipped \in Memory
  /\ allocated' = UInt(allocated + Chunk(call.n))
  /\ offset' = UInt(Skipped + Chunk(call.n))
  /\ next' = [next EXCEPT ![Skipped] = null, ![p] = Skipped]
  /\ size' = [size EXCEPT ![Skipped] = Chunk(call.n)]
  /\ StepTo(Skipped)
  /\ UNCHANGED <<freep, call, live, past, calls>>

GrowOutside ==
  /\ Asks /\ HasRoom /\ Skipped \notin Memory
  /\ Outside

\* The pool is spent: p's next is lost and Alloc returns a null pointer, to
\* which ReAlloc copies.
GiveUp ==
  /\ Asks /\ ~ HasRoom
  /\ offset' = Skipped
  /\ next' = [next EXCEPT ![p] = null]
  /\ fault' = IF call.op = "ReAlloc" THEN "copy" ELSE fault
  /\ call' = Idle /\ p' = null /\ prevp' = null
  /\ UNCHANGED <<size, freep, allocated, live, past, calls>>

-------------------------------------------------------------------------------
(***************************************************************************)
(* ReAlloc and Free                                                        *)
(***************************************************************************)

\* A block that is large enough stays; else Alloc a larger one.
ReAlloc(b, bytes) ==
  /\ call = Idle
  /\ Allocates
  /\ size[b] < new_alloc(bytes)
  /\ call' = [op |-> "ReAlloc", n |-> new_alloc(bytes), old |-> b]
  /\ p' = base
  /\ UNCHANGED <<next, size, freep, allocated, offset, prevp, live, fault>>

Free(b) ==
  /\ call = Idle
  /\ call' = [op |-> "Free", old |-> b]
  /\ p' = base
  /\ live' = live \ {b}
  /\ Frees
  /\ offset' = b
  /\ allocated' = UInt(allocated - size[b])
  /\ UNCHANGED <<next, size, freep, prevp, fault>>

\* Whether the block goes between p and p's next: the list is in the order
\* of addresses, and p may be its last.
Between ==
  \/ call.old >= p /\ call.old <= next[p]
  \/ p >= next[p] /\ (call.old >= p \/ call.old <= next[p])

Search ==
  /\ call.op = "Free" /\ ~ Between
  /\ StepTo(next[p])
  /\ UNCHANGED <<next, size, freep, allocated, offset, call, live, past, calls>>

\* Mutant of Link: the block above is merged, and stays on the list.
LinkKeepsUpper ==
  LET b  == call.old
      up == b + size[b] = next[p]
  IN /\ call.op = "Free" /\ Between
     /\ next' = [next EXCEPT ![b] = next[p], ![p] = b]
     /\ size' = [size EXCEPT ![b] = IF up THEN @ + size[next[p]] ELSE @]
     /\ freep' = b
     /\ call' = Idle /\ p' = null /\ prevp' = null
     /\ UNCHANGED <<allocated, offset, live, past, calls, fault>>

\* Link the block in after p, merged with the neighbours it touches.
Link ==
  LET b  == call.old
      up == b + size[b] = next[p]           \* it touches the block above
      b1 == [ next |-> IF up THEN next[next[p]] ELSE next[p],
              size |-> IF up THEN size[b] + size[next[p]] ELSE size[b] ]
      down == p + size[p] = b               \* and the block below
      below == IF down THEN b1.next ELSE b  \* p's next from now on
  IN /\ call.op = "Free" /\ Between
     /\ next' = [next EXCEPT ![b] = b1.next, ![p] = below]
     /\ size' = [[size EXCEPT ![b] = b1.size]
                   EXCEPT ![p] = IF down THEN @ + b1.size ELSE @]
     /\ freep' = below
     /\ call' = Idle /\ p' = null /\ prevp' = null
     /\ UNCHANGED <<allocated, offset, live, past, calls, fault>>

-------------------------------------------------------------------------------

Extent(b) == b..(b + size[b] - 1)

(***************************************************************************)
(* The blocks the client holds are inside the pool and apart, so that each *)
(* keeps what is written to it: what check_block (178-182) asserts.        *)
(***************************************************************************)
Disjoint ==
  /\ \A b \in live : Extent(b) \subseteq Memory
  /\ \A b, c \in live : b # c => Extent(b) \cap Extent(c) = {}

Client ==
  /\ calls < MaxCalls
  /\ calls' = calls + 1
  /\ \/ "Alloc" \in Ops /\ \E bytes \in Sizes : Alloc(bytes)
     \/ "ReAlloc" \in Ops /\ \E b \in live, bytes \in Sizes : ReAlloc(b, bytes)
     \/ "Free" \in Ops /\ \E b \in live : Free(b)

Allocator ==
  \/ TakeWhole \/ Cut \/ CutOutside
  \/ Skip \/ Grow \/ GrowOutside \/ GiveUp
  \/ Search \/ Link

\* The free blocks: those the list leads to within k steps.
Listed[k \in Nat] ==
  IF k = 0 THEN {next[base]} \ {base, null}
  ELSE (UNION {{b, next[b]} : b \in Listed[k - 1]}) \ {base, null}
FreeBlocks == Listed[memory_size]

\* Once a block of the client's overlaps another, or holds the header of a
\* free one, headers are what the client writes.
Defined ==
  /\ fault = "no"
  /\ Disjoint
  /\ \A b \in FreeBlocks, c \in live : b \notin Extent(c)

Next == Defined /\ (Client \/ Allocator)

Spec == Init /\ [][Next]_vars

\* A call that has begun runs on.
FairSpec == Spec /\ WF_vars(Defined /\ Allocator)

-------------------------------------------------------------------------------
(***************************************************************************)
(* The properties.                                                         *)
(***************************************************************************)

\* The client has not allocated after a Free.
Orderly == past # "reuses"

(***************************************************************************)
(* While all allocations, ReAlloc's included, come before the first Free,  *)
(* the client's blocks are in the pool and apart, however Alloc cut and    *)
(* chained them and however far past the pool's end it was asked.          *)
(***************************************************************************)
BlocksApart == Orderly => Disjoint

(***************************************************************************)
(* The headers, the walk and the counters keep their types and widths, and *)
(* the client's blocks stay apart, by parts.                               *)
(***************************************************************************)
PoolInv == TypeOK /\ BlocksApart

(***************************************************************************)
(* For such a client the free list goes up in memory between calls, in     *)
(* whatever order blocks are freed, and what is on it is in nobody's       *)
(* hands: Free's search and merges need the first and the next Alloc needs *)
(* the second.                                                             *)
(***************************************************************************)
FreeSound ==
  Orderly /\ call = Idle =>
    \A b \in FreeBlocks :
      /\ Extent(b) \subseteq Memory
      /\ \A c \in live : Extent(b) \cap Extent(c) = {}
      /\ next[b] # null => next[b] > b + size[b]

(***************************************************************************)
(* For such a client no walk follows a null pointer and no header is       *)
(* written outside the pool (the comment of 93-94): a request that finds   *)
(* no room returns a null pointer (98-104).                                *)
(***************************************************************************)
WalksInside == Orderly => fault \notin {"null", "outside"}

(***************************************************************************)
(* Every call of every client ends, up to where the program is undefined:  *)
(* the walk along the list does not go round for ever.                     *)
(***************************************************************************)
CallReturns == (call # Idle) ~> (call = Idle \/ ~ Defined)
===============================================================================
