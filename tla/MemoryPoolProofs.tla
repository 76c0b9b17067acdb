-------------------------- MODULE MemoryPoolProofs --------------------------
(***************************************************************************)
(* MemoryPool for every finite set of threads and of blocks, every request *)
(* and every set of loops that stays below MAX_ALLOC_SIZE: each block is   *)
(* in one place, the asserts of Pop and Deallocate hold, a block is never  *)
(* handed out for more than it has, and the counters settle.               *)
(***************************************************************************)
EXTENDS MemoryPool, FiniteSetTheorems, SequenceTheorems, TLAPS

States ==
    {Idle, [at |-> "fault"]}
        \cup [at : {"counting"}, block : Block, real : Nat, pool : Pools]
        \cup [at : {"attaching"}, block : Block, real : Nat]
        \cup [at : {"pushing"}, block : Block, pool : Pools]
        \cup [at : {"uncounting"}, pool : Pools]

Types ==
    /\ mFreeList \in [Pools -> Seq(Block)]
    /\ mAllocCount \in [Pools -> Int]
    /\ capacity \in [Block -> Nat]
    /\ mAllocSize \in [Block -> Nat]
    /\ live \subseteq Block
    /\ thread \in [Threads -> States]

Elements(s) == {s[i] : i \in 1 .. Len(s)}

Distinct(s) == \A i, j \in 1 .. Len(s) : s[i] = s[j] => i = j

\* The blocks on the list of pool p.
On(p) == Elements(mFreeList[p])

Holds(t, b) == thread[t].at \in {"counting", "attaching", "pushing"} /\ thread[t].block = b

\* Block b is in one place when it is got from the heap, else in none.
PlaceOf(b) ==
    /\ \A p, q \in Pools : b \in On(p) /\ b \in On(q) => p = q
    /\ \A p \in Pools : b \in On(p) => b \notin live /\ \A t \in Threads : ~Holds(t, b)
    /\ b \in live => \A t \in Threads : ~Holds(t, b)
    /\ \A s, t \in Threads : Holds(s, b) /\ Holds(t, b) => s = t
    /\ capacity[b] # 0 <=> b \in live \/ (\E p \in Pools : b \in On(p)) \/ (\E t \in Threads : Holds(t, b))

Places ==
    /\ \A p \in Pools : Distinct(mFreeList[p])
    /\ \A b \in Block : PlaceOf(b)

\* Block b is one that Allocate would get for real bytes.
Serves(b, real) ==
    /\ real > 0
    /\ IF real > MAX_ALLOC_SIZE
       THEN capacity[b] = real
       ELSE /\ mSmallSizeMemoryPoolTable[real] # 0
            /\ capacity[b] = mSmallSizeMemoryPoolTable[real]

HeaderOf(t) ==
    /\ thread[t].at \in {"counting", "attaching"} => Serves(thread[t].block, thread[t].real)
    /\ thread[t].at = "counting" => /\ thread[t].real <= MAX_ALLOC_SIZE
                                    /\ capacity[thread[t].block] = thread[t].pool
    /\ thread[t].at = "pushing" => /\ mAllocSize[thread[t].block] = 0
                                   /\ capacity[thread[t].block] = thread[t].pool

\* The size in a block's header leads Deallocate back to where the block is from.
Headers ==
    /\ \A p \in Pools : \A b \in On(p) : mAllocSize[b] = 0 /\ capacity[b] = p
    /\ \A b \in live : Serves(b, mAllocSize[b])
    /\ \A t \in Threads : HeaderOf(t)

\* The thread has counted a block of pool p that is not, or no more, with the program.
Counted(t, p) ==
    \/ /\ thread[t].at = "attaching"
       /\ thread[t].real <= MAX_ALLOC_SIZE
       /\ mSmallSizeMemoryPoolTable[thread[t].real] = p
    \/ thread[t].at \in {"pushing", "uncounting"} /\ thread[t].pool = p

CountedIn(p) == {t \in Threads : Counted(t, p)}

LiveOf(p) == {b \in live : capacity[b] = p}

\* Every counter is off by what the threads have still to do, and no more.
Counts ==
    \A p \in Pools : mAllocCount[p] = Cardinality(LiveOf(p)) + Cardinality(CountedIn(p))

IInv == Types /\ Places /\ Headers /\ Counts

-----------------------------------------------------------------------------
(***************************************************************************)
(* The table: the pool of a size is one whose blocks are large enough.     *)
(***************************************************************************)
LEMMA LeastNatural ==
    ASSUME NEW T, T \subseteq Nat, T # {}
    PROVE  \E m \in T : \A n \in T : m <= n
  <1> DEFINE F == {0 .. n : n \in T}
  <1>1. F \subseteq FiniteSubsetsOf(Nat) /\ F # {}
    <2>1. \A n \in Nat : IsFiniteSet(0 .. n) /\ 0 .. n \subseteq Nat
      BY FS_Interval
    <2> QED BY <2>1 DEF FiniteSubsetsOf
  <1>2. PICK x \in F : \A y \in F : ~ (<<y, x>> \in StrictSubsetOrdering(Nat))
    <2>1. IsWellFoundedOn(StrictSubsetOrdering(Nat), FiniteSubsetsOf(Nat))
      BY FS_StrictSubsetOrderingWellFounded
    <2> HIDE DEF F
    <2> QED BY <1>1, <2>1, WFMin
  <1>3. PICK m \in T : x = 0 .. m
    OBVIOUS
  <1>4. ASSUME NEW n \in T, ~(m <= n) PROVE FALSE
    <2>1. m \in Nat /\ n \in Nat /\ n < m
      BY <1>4
    <2>2. 0 .. n \subseteq 0 .. m /\ 0 .. n # 0 .. m
      BY <2>1
    <2>3. <<0 .. n, 0 .. m>> \in StrictSubsetOrdering(Nat)
      <3>1. 0 .. n \in SUBSET Nat /\ 0 .. m \in SUBSET Nat
        BY <2>1
      <3> QED BY <2>2, <3>1 DEF StrictSubsetOrdering
    <2> QED BY <1>2, <1>3, <2>3
  <1> QED BY <1>4

LEMMA LoopBound ==
    ASSUME NEW from \in Nat, NEW to \in Nat, NEW step \in Nat \ {0},
           NEW k \in 0 .. (to - 1 - from) \div step
    PROVE  from + k * step \in 0 .. to - 1
  <1> DEFINE x == to - 1 - from
  <1>1. x \in Int /\ (x \div step) \in Int
    OBVIOUS
  <1>2. step * (x \div step) <= x
    OBVIOUS
  <1>3. k * step <= step * (x \div step) /\ k * step >= 0 /\ k * step \in Int
    OBVIOUS
  <1> QED BY <1>1, <1>2, <1>3

LEMMA PoolsBound == Pools \subseteq 0 .. MAX_ALLOC_SIZE
  <1> SUFFICES ASSUME NEW n \in DOMAIN Bands, NEW p \in LoopValues(Bands[n])
               PROVE  p \in 0 .. MAX_ALLOC_SIZE
    BY DEF Pools
  <1>1. Bands[n] \in [from : Nat, to : 0 .. MAX_ALLOC_SIZE, step : Nat \ {0}]
    <2> DEFINE Band == [from : Nat, to : 0 .. MAX_ALLOC_SIZE, step : Nat \ {0}]
    <2>1. Bands \in Seq(Band)
      BY MemoryPoolAssumption
    <2> HIDE DEF Band
    <2>2. Bands[n] \in Band
      BY <2>1
    <2> QED BY <2>2 DEF Band
  <1>2. PICK k \in 0 .. (Bands[n].to - 1 - Bands[n].from) \div Bands[n].step :
           p = Bands[n].from + k * Bands[n].step
    BY DEF LoopValues
  <1>3. p \in 0 .. Bands[n].to - 1
    <2>1. Bands[n].from \in Nat /\ Bands[n].to \in Nat /\ Bands[n].step \in Nat \ {0}
      BY <1>1, MemoryPoolAssumption
    <2> QED BY <1>2, <2>1, LoopBound
  <1> QED BY <1>1, <1>3, MemoryPoolAssumption

LEMMA PoolFacts == \A p \in Pools : p \in Nat /\ p <= MAX_ALLOC_SIZE
  <1>1. MAX_ALLOC_SIZE \in Nat
    BY MemoryPoolAssumption
  <1> QED BY <1>1, PoolsBound

LEMMA TableFacts ==
    ASSUME NEW real \in 1 .. MAX_ALLOC_SIZE, mSmallSizeMemoryPoolTable[real] # 0
    PROVE  /\ mSmallSizeMemoryPoolTable[real] \in Pools
           /\ mSmallSizeMemoryPoolTable[real] >= real
  <1> DEFINE fit == {p \in Pools : p >= real}
  <1>1. mSmallSizeMemoryPoolTable[real] = Min(fit) /\ fit # {}
    BY MemoryPoolAssumption DEF mSmallSizeMemoryPoolTable
  <1>2. fit \subseteq Nat
    BY PoolFacts
  <1>3. \E m \in fit : \A n \in fit : m <= n
    <2> HIDE DEF fit
    <2> QED BY <1>1, <1>2, LeastNatural
  <1>4. Min(fit) \in fit
    <2> HIDE DEF fit
    <2> QED BY <1>3 DEF Min
  <1> QED BY <1>1, <1>4

-----------------------------------------------------------------------------
(***************************************************************************)
(* The lists.                                                              *)
(***************************************************************************)
LEMMA Popped ==
    ASSUME NEW S, NEW s \in Seq(S), s # <<>>, Distinct(s)
    PROVE  /\ Tail(s) \in Seq(S) /\ Head(s) \in S /\ Head(s) \in Elements(s)
           /\ Distinct(Tail(s)) /\ Elements(Tail(s)) = Elements(s) \ {Head(s)}
  <1>1. Len(s) \in Nat /\ Len(s) > 0 /\ Head(s) = s[1] /\ Head(s) \in S
    BY HeadTailProperties, LenProperties, EmptySeq
  <1>2. /\ Tail(s) \in Seq(S) /\ Len(Tail(s)) = Len(s) - 1
        /\ \A i \in 1 .. Len(s) - 1 : Tail(s)[i] = s[i + 1]
    BY HeadTailProperties
  <1>3. Head(s) \in Elements(s)
    BY <1>1 DEF Elements
  <1>4. Distinct(Tail(s))
    BY <1>1, <1>2 DEF Distinct
  <1>5. ASSUME NEW x \in Elements(Tail(s)) PROVE x \in Elements(s) \ {Head(s)}
    <2>1. PICK i \in 1 .. Len(s) - 1 : x = s[i + 1]
      BY <1>1, <1>2, <1>5 DEF Elements
    <2>2. i + 1 \in 1 .. Len(s) /\ i + 1 # 1 /\ 1 \in 1 .. Len(s)
      BY <1>1
    <2>3. x # s[1]
      BY <2>1, <2>2 DEF Distinct
    <2> QED BY <1>1, <2>1, <2>2, <2>3 DEF Elements
  <1>6. ASSUME NEW x \in Elements(s) \ {Head(s)} PROVE x \in Elements(Tail(s))
    <2>1. PICK i \in 1 .. Len(s) : x = s[i]
      BY DEF Elements
    <2>2. i # 1 /\ i - 1 \in 1 .. Len(s) - 1 /\ (i - 1) + 1 = i
      BY <1>1, <1>6, <2>1
    <2>3. x = Tail(s)[i - 1]
      BY <1>2, <2>1, <2>2
    <2> QED BY <1>2, <2>2, <2>3 DEF Elements
  <1> QED BY <1>1, <1>2, <1>3, <1>4, <1>5, <1>6

LEMMA Pushed ==
    ASSUME NEW S, NEW s \in Seq(S), NEW x \in S, x \notin Elements(s), Distinct(s)
    PROVE  /\ <<x>> \o s \in Seq(S)
           /\ Distinct(<<x>> \o s) /\ Elements(<<x>> \o s) = Elements(s) \cup {x}
  <1> DEFINE r == <<x>> \o s
  <1>0. Len(s) \in Nat
    BY LenProperties
  <1>1. r \in Seq(S) /\ Len(r) = Len(s) + 1
    BY <1>0, ConcatProperties
  <1>2. r[1] = x /\ \A i \in 2 .. Len(s) + 1 : r[i] = s[i - 1]
    <2>1. <<x>> \in Seq(S) /\ Len(<<x>>) = 1 /\ <<x>>[1] = x
      OBVIOUS
    <2>2. \A i \in 1 .. 1 + Len(s) : r[i] = IF i <= 1 THEN <<x>>[i] ELSE s[i - 1]
      BY <2>1, ConcatProperties
    <2> QED BY <1>0, <2>1, <2>2
  <1> HIDE DEF r
  <1>3. Distinct(r)
    <2> SUFFICES ASSUME NEW i \in 1 .. Len(s) + 1, NEW j \in 1 .. Len(s) + 1, r[i] = r[j], i < j
                 PROVE  FALSE
      BY <1>0, <1>1 DEF Distinct
    <2>1. j \in 2 .. Len(s) + 1 /\ j - 1 \in 1 .. Len(s) /\ r[j] = s[j - 1]
      BY <1>0, <1>2
    <2>2. CASE i = 1
      BY <1>2, <2>1, <2>2 DEF Elements
    <2>3. CASE i # 1
      <3>1. i \in 2 .. Len(s) + 1 /\ i - 1 \in 1 .. Len(s) /\ r[i] = s[i - 1]
        BY <1>0, <1>2, <2>3
      <3>2. i - 1 = j - 1
        BY <2>1, <3>1 DEF Distinct
      <3> QED BY <3>1, <2>1, <3>2
    <2> QED BY <2>2, <2>3
  <1>4. ASSUME NEW y \in Elements(r) PROVE y \in Elements(s) \cup {x}
    <2>1. PICK i \in 1 .. Len(s) + 1 : y = r[i]
      BY <1>1, <1>4 DEF Elements
    <2>2. i = 1 \/ (i \in 2 .. Len(s) + 1 /\ i - 1 \in 1 .. Len(s))
      BY <1>0
    <2> QED BY <1>2, <2>1, <2>2 DEF Elements
  <1>5. x \in Elements(r)
    BY <1>0, <1>1, <1>2 DEF Elements
  <1>6. ASSUME NEW y \in Elements(s) PROVE y \in Elements(r)
    <2>1. PICK i \in 1 .. Len(s) : y = s[i]
      BY <1>6 DEF Elements
    <2>2. i + 1 \in 2 .. Len(s) + 1 /\ i + 1 \in 1 .. Len(s) + 1 /\ (i + 1) - 1 = i
      BY <1>0
    <2>3. r[i + 1] = y
      BY <1>2, <2>1, <2>2
    <2> QED BY <1>1, <2>2, <2>3 DEF Elements
  <1> QED BY <1>1, <1>3, <1>4, <1>5, <1>6 DEF r

-----------------------------------------------------------------------------
(***************************************************************************)
(* The threads, and what a step that moves one block leaves alone.         *)
(***************************************************************************)
LEMMA StateFacts ==
    ASSUME Types, NEW t \in Threads
    PROVE  /\ thread[t] = Idle <=> thread[t].at = "idle"
           /\ thread[t].at \in {"idle", "fault", "counting", "attaching", "pushing", "uncounting"}
           /\ thread[t].at \in {"counting", "attaching", "pushing"} => thread[t].block \in Block
           /\ thread[t].at \in {"counting", "attaching"} => thread[t].real \in Nat
           /\ thread[t].at \in {"counting", "pushing", "uncounting"} => thread[t].pool \in Pools
           /\ "block" \in DOMAIN thread[t] <=> thread[t].at \in {"counting", "attaching", "pushing"}
  <1>1. thread[t] \in States
    BY DEF Types
  <1>2. CASE thread[t] = Idle
    BY <1>2 DEF Idle
  <1>3. CASE thread[t] = [at |-> "fault"]
    BY <1>3 DEF Idle
  <1>4. CASE thread[t] \in [at : {"counting"}, block : Block, real : Nat, pool : Pools]
    BY <1>4 DEF Idle
  <1>5. CASE thread[t] \in [at : {"attaching"}, block : Block, real : Nat]
    BY <1>5 DEF Idle
  <1>6. CASE thread[t] \in [at : {"pushing"}, block : Block, pool : Pools]
    BY <1>6 DEF Idle
  <1>7. CASE thread[t] \in [at : {"uncounting"}, pool : Pools]
    BY <1>7 DEF Idle
  <1> QED BY <1>1, <1>2, <1>3, <1>4, <1>5, <1>6, <1>7 DEF States

LEMMA ThreadMoves ==
    ASSUME Types, NEW t \in Threads, NEW s \in States, Becomes(t, s)
    PROVE  /\ thread' \in [Threads -> States] /\ thread'[t] = s
           /\ \A v \in Threads : v # t => thread'[v] = thread[v]
  BY DEF Types, Becomes

\* Thread t moves block b, and no other.
Moves(t, b) ==
    /\ \A c \in Block : c # b =>
          /\ capacity'[c] = capacity[c] /\ mAllocSize'[c] = mAllocSize[c]
          /\ c \in live' <=> c \in live
          /\ \A p \in Pools : c \in On(p)' <=> c \in On(p)
          /\ Holds(t, c)' <=> Holds(t, c)
    /\ \A v \in Threads : v # t => thread'[v] = thread[v]

LEMMA OthersHold ==
    ASSUME NEW t, NEW b, Moves(t, b), NEW v \in Threads, v # t, NEW c
    PROVE  Holds(v, c)' <=> Holds(v, c)
  BY DEF Moves, Holds

LEMMA PlacesMoved ==
    ASSUME IInv, NEW t \in Threads, NEW b \in Block, Moves(t, b),
           \A p \in Pools : Distinct(mFreeList'[p]), PlaceOf(b)'
    PROVE  Places'
  <1> SUFFICES ASSUME NEW c \in Block, c # b PROVE PlaceOf(c)'
    BY DEF Places
  <1>1. PlaceOf(c)
    BY DEF IInv, Places
  <1>2. \A v \in Threads : Holds(v, c)' <=> Holds(v, c)
    BY OthersHold DEF Moves
  <1>3. /\ capacity'[c] = capacity[c] /\ (c \in live' <=> c \in live)
        /\ \A p \in Pools : c \in On(p)' <=> c \in On(p)
    BY DEF Moves
  <1> QED BY <1>1, <1>2, <1>3 DEF PlaceOf

LEMMA HeadersMoved ==
    ASSUME IInv, Types', NEW t \in Threads, NEW b \in Block, Moves(t, b),
           \A v \in Threads : v # t => ~Holds(v, b),
           HeaderOf(t)',
           \A p \in Pools : b \in On(p)' => mAllocSize'[b] = 0 /\ capacity'[b] = p,
           b \in live' => Serves(b, mAllocSize[b])'
    PROVE  Headers'
  <1>1. Types /\ Headers
    BY DEF IInv
  <1>2. \A p \in Pools : \A c \in On(p)' : c \in Block
    BY ElementOfSeq DEF On, Elements, Types
  <1>3. \A p \in Pools : \A c \in On(p)' : mAllocSize'[c] = 0 /\ capacity'[c] = p
    BY <1>1, <1>2 DEF Moves, Headers
  <1>4. \A c \in live' : Serves(c, mAllocSize[c])'
    <2> SUFFICES ASSUME NEW c \in live', c # b PROVE Serves(c, mAllocSize[c])'
      OBVIOUS
    <2>1. c \in Block
      BY DEF Types
    <2>2. c \in live /\ capacity'[c] = capacity[c] /\ mAllocSize'[c] = mAllocSize[c]
      BY <2>1 DEF Moves
    <2> QED BY <1>1, <2>2 DEF Headers, Serves
  <1>5. ASSUME NEW v \in Threads, v # t PROVE HeaderOf(v)'
    <2>1. thread'[v] = thread[v] /\ HeaderOf(v)
      BY <1>1, <1>5 DEF Moves, Headers
    <2>2. thread[v].at \in {"counting", "attaching", "pushing"} =>
             /\ capacity'[thread[v].block] = capacity[thread[v].block]
             /\ mAllocSize'[thread[v].block] = mAllocSize[thread[v].block]
      BY <1>1, <1>5, StateFacts DEF Holds, Moves
    <2> QED BY <2>1, <2>2 DEF HeaderOf, Serves
  <1> QED BY <1>3, <1>4, <1>5 DEF Headers

LEMMA SetsFinite ==
    ASSUME Types, NEW p
    PROVE  /\ IsFiniteSet(LiveOf(p)) /\ Cardinality(LiveOf(p)) \in Nat
           /\ IsFiniteSet(CountedIn(p)) /\ Cardinality(CountedIn(p)) \in Nat
           /\ Cardinality(LiveOf(p)) <= Cardinality(Block)
           /\ Cardinality(CountedIn(p)) <= Cardinality(Threads)
  <1>1. LiveOf(p) \in SUBSET Block /\ CountedIn(p) \in SUBSET Threads
    BY DEF LiveOf, CountedIn, Types
  <1> QED BY <1>1, FS_Subset, FS_CardinalityType, MemoryPoolAssumption

\* No block comes to the program or leaves it, and no thread counts one.
LEMMA CountsKept ==
    ASSUME IInv, UNCHANGED mAllocCount, \A p \in Pools : LiveOf(p)' = LiveOf(p),
           \A p \in Pools : \A t \in Threads : Counted(t, p)' <=> Counted(t, p)
    PROVE  Counts'
  <1>1. \A p \in Pools : CountedIn(p)' = CountedIn(p)
    BY DEF CountedIn
  <1> QED BY <1>1 DEF IInv, Counts

-----------------------------------------------------------------------------
(***************************************************************************)
(* The steps.                                                              *)
(***************************************************************************)
LEMMA InitOK == Init => IInv
  <1> SUFFICES ASSUME Init PROVE IInv
    OBVIOUS
  <1>1. Types
    BY DEF Init, Types, States
  <1>2. \A t \in Threads : thread[t].at = "idle"
    BY DEF Init, Idle
  <1>3. \A p \in Pools : Distinct(mFreeList[p]) /\ On(p) = {}
    BY DEF Init, Distinct, On, Elements
  <1>4. Places
    BY <1>2, <1>3 DEF Init, Places, PlaceOf, Holds
  <1>5. Headers
    BY <1>2, <1>3 DEF Init, Headers, HeaderOf
  <1>6. Counts
    <2>1. \A p \in Pools : LiveOf(p) = {} /\ CountedIn(p) = {} /\ mAllocCount[p] = 0
      BY <1>2 DEF Init, LiveOf, CountedIn, Counted
    <2> QED BY <2>1, FS_EmptySet DEF Counts
  <1> QED BY <1>1, <1>4, <1>5, <1>6 DEF IInv

LEMMA FromHeapOK ==
    ASSUME IInv, NEW t \in Threads, thread[t] = Idle,
           NEW b \in Block, NEW size \in Nat \ {0}, AlignedMalloc(b, size),
           NEW s \in States, Becomes(t, s), s.at \in {"counting", "attaching"}, s.block = b,
           s.real \in Nat \ {0},
           IF s.real > MAX_ALLOC_SIZE THEN size = s.real
           ELSE mSmallSizeMemoryPoolTable[s.real] # 0 /\ size = mSmallSizeMemoryPoolTable[s.real],
           s.at = "counting" => s.real <= MAX_ALLOC_SIZE /\ s.pool = size,
           s.at = "attaching" => s.real > MAX_ALLOC_SIZE,
           UNCHANGED <<mFreeList, mAllocCount, mAllocSize, live>>
    PROVE  IInv'
  <1>1. Types /\ thread[t].at = "idle"
    BY DEF IInv, Idle
  <1>2. /\ thread' \in [Threads -> States] /\ thread'[t] = s
        /\ \A v \in Threads : v # t => thread'[v] = thread[v]
    BY <1>1, ThreadMoves
  <1>3. /\ capacity[b] = 0 /\ capacity' \in [Block -> Nat] /\ capacity'[b] = size
        /\ \A c \in Block : c # b => capacity'[c] = capacity[c]
    BY <1>1 DEF AlignedMalloc, Types
  <1>4. Types'
    BY <1>1, <1>2, <1>3 DEF Types
  <1>5. \A p : On(p)' = On(p)
    BY DEF On
  <1>6. /\ \A c : Holds(t, c)' <=> c = b
        /\ \A c : ~Holds(t, c)
    BY <1>1, <1>2 DEF Holds
  <1>7. Moves(t, b)
    BY <1>2, <1>3, <1>5, <1>6 DEF Moves
  <1>8. /\ b \notin live /\ \A p \in Pools : b \notin On(p)
        /\ \A v \in Threads : ~Holds(v, b)
    BY <1>3 DEF IInv, Places, PlaceOf
  <1>9. Places'
    <2>1. \A v \in Threads : Holds(v, b)' <=> v = t
      BY <1>6, <1>7, <1>8, OthersHold
    <2>2. PlaceOf(b)'
      BY <1>3, <1>5, <1>8, <2>1 DEF PlaceOf
    <2>3. \A p \in Pools : Distinct(mFreeList'[p])
      BY DEF IInv, Places
    <2> QED BY <1>7, <2>2, <2>3, PlacesMoved
  <1>10. Headers'
    <2>1. HeaderOf(t)'
      BY <1>2, <1>3 DEF HeaderOf, Serves
    <2> QED BY <1>4, <1>5, <1>7, <1>8, <2>1, HeadersMoved
  <1>11. Counts'
    <2>1. \A p \in Pools : LiveOf(p)' = LiveOf(p)
      BY <1>1, <1>3, <1>8 DEF LiveOf, Types
    <2>2. \A p \in Pools : \A v \in Threads : Counted(v, p)' <=> Counted(v, p)
      <3>1. \A p \in Pools : ~Counted(t, p) /\ ~Counted(t, p)'
        <4>1. MAX_ALLOC_SIZE \in Nat
          BY MemoryPoolAssumption
        <4> QED BY <1>1, <1>2, <4>1 DEF Counted
      <3> QED BY <1>2, <3>1 DEF Counted
    <2> QED BY <2>1, <2>2, CountsKept
  <1> QED BY <1>4, <1>9, <1>10, <1>11 DEF IInv

LEMMA RealFacts ==
    ASSUME NEW size \in Sizes
    PROVE  /\ size + HEADER \in Nat \ {0} /\ MAX_ALLOC_SIZE \in Nat
           /\ size + HEADER <= MAX_ALLOC_SIZE => size + HEADER \in 1 .. MAX_ALLOC_SIZE
  <1>1. size \in Nat /\ HEADER \in Nat \ {0} /\ MAX_ALLOC_SIZE \in Nat
    BY MemoryPoolAssumption
  <1> QED BY <1>1

LEMMA AllocateLargeOK ==
    ASSUME IInv, NEW t \in Threads, NEW size \in Sizes, AllocateLarge(t, size)
    PROVE  IInv'
  <1>1. PICK b \in Block : /\ AlignedMalloc(b, size + HEADER)
                           /\ Becomes(t, [at |-> "attaching", block |-> b, real |-> size + HEADER])
    BY DEF AllocateLarge
  <1>2. PICK s : s = [at |-> "attaching", block |-> b, real |-> size + HEADER]
    OBVIOUS
  <1>3. s \in States /\ s.at = "attaching" /\ s.block = b /\ s.real = size + HEADER
    BY <1>2, RealFacts DEF States
  <1>4. size + HEADER > MAX_ALLOC_SIZE /\ thread[t] = Idle
        /\ UNCHANGED <<mFreeList, mAllocCount, mAllocSize, live>>
    BY DEF AllocateLarge
  <1> QED BY <1>1, <1>2, <1>3, <1>4, RealFacts, FromHeapOK

LEMMA PopEmptyOK ==
    ASSUME IInv, NEW t \in Threads, NEW size \in Sizes, PopEmpty(t, size)
    PROVE  IInv'
  <1> DEFINE real == size + HEADER
             pool == mSmallSizeMemoryPoolTable[real]
  <1>1. PICK b \in Block : /\ AlignedMalloc(b, pool)
                           /\ Becomes(t, [at |-> "counting", block |-> b, real |-> real, pool |-> pool])
    BY DEF PopEmpty
  <1>2. real <= MAX_ALLOC_SIZE /\ pool # 0 /\ thread[t] = Idle
        /\ UNCHANGED <<mFreeList, mAllocCount, mAllocSize, live>>
    BY DEF PopEmpty
  <1>3. real \in Nat \ {0} /\ real \in 1 .. MAX_ALLOC_SIZE /\ MAX_ALLOC_SIZE \in Nat
    BY <1>2, RealFacts
  <1>4. pool \in Pools
    BY <1>2, <1>3, TableFacts
  <1>5. pool \in Nat \ {0}
    BY <1>2, <1>4, PoolFacts
  <1>6. PICK s : s = [at |-> "counting", block |-> b, real |-> real, pool |-> pool]
    OBVIOUS
  <1> HIDE DEF pool, real
  <1>7. s \in States /\ s.at = "counting" /\ s.block = b /\ s.real = real /\ s.pool = pool
    BY <1>3, <1>4, <1>6 DEF States
  <1>8. ~(real > MAX_ALLOC_SIZE)
    BY <1>2, <1>3
  <1>9. pool = mSmallSizeMemoryPoolTable[s.real]
    BY <1>7 DEF pool
  <1> QED BY <1>1, <1>2, <1>3, <1>5, <1>6, <1>7, <1>8, <1>9, FromHeapOK

LEMMA PopOK ==
    ASSUME IInv, NEW t \in Threads, NEW size \in Sizes, Pop(t, size)
    PROVE  IInv'
  <1> DEFINE real == size + HEADER
             pool == mSmallSizeMemoryPoolTable[real]
  <1>1. PICK b : b = Head(mFreeList[pool])
    OBVIOUS
  <1>2. /\ thread[t] = Idle /\ real <= MAX_ALLOC_SIZE /\ pool # 0 /\ mFreeList[pool] # <<>>
        /\ mFreeList' = [mFreeList EXCEPT ![pool] = Tail(mFreeList[pool])]
        /\ Becomes(t, [at |-> "counting", block |-> b, real |-> real, pool |-> pool])
        /\ UNCHANGED <<mAllocCount, capacity, mAllocSize, live>>
    BY <1>1 DEF Pop
  <1>3. real \in Nat \ {0} /\ real \in 1 .. MAX_ALLOC_SIZE /\ MAX_ALLOC_SIZE \in Nat
    BY <1>2, RealFacts
  <1>4. pool \in Pools
    BY <1>2, <1>3, TableFacts
  <1>5. Types /\ thread[t].at = "idle"
    BY <1>2 DEF IInv, Idle
  <1>6. /\ Tail(mFreeList[pool]) \in Seq(Block) /\ b \in Block /\ b \in On(pool)
        /\ Distinct(Tail(mFreeList[pool])) /\ Elements(Tail(mFreeList[pool])) = On(pool) \ {b}
    <2>1. mFreeList[pool] \in Seq(Block) /\ Distinct(mFreeList[pool])
      BY <1>4 DEF IInv, Types, Places
    <2> QED BY <1>1, <1>2, <2>1, Popped DEF On
  <1>7. PICK s : s = [at |-> "counting", block |-> b, real |-> real, pool |-> pool]
    OBVIOUS
  <1>8. s \in States /\ s.at = "counting" /\ s.block = b /\ s.real = real /\ s.pool = pool
    BY <1>3, <1>4, <1>6, <1>7 DEF States
  <1>9. /\ thread' \in [Threads -> States] /\ thread'[t] = s
        /\ \A v \in Threads : v # t => thread'[v] = thread[v]
    BY <1>2, <1>5, <1>7, <1>8, ThreadMoves
  <1>10. /\ mFreeList' \in [Pools -> Seq(Block)]
         /\ \A p \in Pools : Distinct(mFreeList'[p])
         /\ \A p \in Pools : On(p)' = On(p) \ {b}
    <2>1. /\ mFreeList' \in [Pools -> Seq(Block)] /\ mFreeList'[pool] = Tail(mFreeList[pool])
          /\ \A p \in Pools : p # pool => mFreeList'[p] = mFreeList[p]
      BY <1>2, <1>4, <1>5, <1>6 DEF Types
    <2>2. \A p \in Pools : p # pool => b \notin On(p)
      BY <1>4, <1>6 DEF IInv, Places, PlaceOf
    <2>3. \A p \in Pools : Distinct(mFreeList'[p])
      BY <1>6, <2>1 DEF IInv, Places
    <2>4. On(pool)' = On(pool) \ {b}
      BY <1>6, <2>1 DEF On
    <2>5. \A p \in Pools : p # pool => On(p)' = On(p)
      BY <2>1 DEF On
    <2> QED BY <2>1, <2>2, <2>3, <2>4, <2>5
  <1>11. Types'
    BY <1>2, <1>5, <1>9, <1>10 DEF Types
  <1>12. /\ \A c : Holds(t, c)' <=> c = b
         /\ \A c : ~Holds(t, c)
    BY <1>5, <1>8, <1>9 DEF Holds
  <1>13. Moves(t, b)
    BY <1>2, <1>9, <1>10, <1>12 DEF Moves
  <1>14. /\ b \notin live /\ capacity[b] # 0 /\ \A v \in Threads : ~Holds(v, b)
    BY <1>4, <1>6 DEF IInv, Places, PlaceOf
  <1>15. Places'
    <2>1. \A v \in Threads : Holds(v, b)' <=> v = t
      BY <1>12, <1>13, <1>14, OthersHold
    <2>2. PlaceOf(b)'
      BY <1>2, <1>10, <1>14, <2>1 DEF PlaceOf
    <2> QED BY <1>6, <1>10, <1>13, <2>2, PlacesMoved
  <1>16. Headers'
    <2>1. capacity[b] = pool
      BY <1>4, <1>6 DEF IInv, Headers
    <2>2. HeaderOf(t)'
      BY <1>2, <1>3, <1>8, <1>9, <2>1 DEF HeaderOf, Serves
    <2> QED BY <1>2, <1>6, <1>10, <1>11, <1>13, <1>14, <2>2, HeadersMoved
  <1>17. Counts'
    <2>1. \A p \in Pools : LiveOf(p)' = LiveOf(p)
      BY <1>2 DEF LiveOf
    <2>2. \A p \in Pools : \A v \in Threads : Counted(v, p)' <=> Counted(v, p)
      BY <1>5, <1>8, <1>9 DEF Counted
    <2> QED BY <1>2, <2>1, <2>2, CountsKept
  <1> QED BY <1>11, <1>15, <1>16, <1>17 DEF IInv

\* A step of thread t that moves no block.
LEMMA OnlyCounts ==
    ASSUME IInv, NEW t \in Threads, NEW s \in States, Becomes(t, s),
           UNCHANGED <<mFreeList, capacity, mAllocSize, live>>,
           \A c : Holds(t, c)' <=> Holds(t, c),
           HeaderOf(t)',
           mAllocCount' \in [Pools -> Int], Counts'
    PROVE  IInv'
  <1>1. Types
    BY DEF IInv
  <1>2. /\ thread' \in [Threads -> States] /\ thread'[t] = s
        /\ \A v \in Threads : v # t => thread'[v] = thread[v]
    BY <1>1, ThreadMoves
  <1>3. Types'
    BY <1>1, <1>2 DEF Types
  <1>4. \A p : On(p)' = On(p)
    BY DEF On
  <1>5. \A v \in Threads : \A c : Holds(v, c)' <=> Holds(v, c)
    BY <1>2 DEF Holds
  <1>6. Places'
    <2>1. \A b \in Block : PlaceOf(b)'
      BY <1>4, <1>5 DEF PlaceOf, IInv, Places
    <2> QED BY <2>1 DEF Places, IInv
  <1>7. Headers'
    <2>1. \A v \in Threads : v # t => HeaderOf(v)'
      BY <1>2 DEF IInv, Headers, HeaderOf, Serves
    <2>2. \A b \in live' : Serves(b, mAllocSize[b])'
      BY DEF IInv, Headers, Serves
    <2> QED BY <1>4, <2>1, <2>2 DEF IInv, Headers
  <1> QED BY <1>3, <1>6, <1>7 DEF IInv

LEMMA AllocateFaultOK ==
    ASSUME IInv, NEW t \in Threads, NEW size \in Sizes, AllocateFault(t, size)
    PROVE  IInv'
  <1>1. /\ thread[t] = Idle /\ Becomes(t, [at |-> "fault"])
        /\ UNCHANGED <<mFreeList, mAllocCount, capacity, mAllocSize, live>>
    BY DEF AllocateFault
  <1>2. PICK s : s = [at |-> "fault"]
    OBVIOUS
  <1>3. s \in States /\ s.at = "fault" /\ thread[t].at = "idle"
    BY <1>1, <1>2 DEF States, Idle
  <1>4. thread'[t] = s /\ \A v \in Threads : v # t => thread'[v] = thread[v]
    BY <1>1, <1>2, <1>3, ThreadMoves DEF IInv
  <1>5. \A c : Holds(t, c)' <=> Holds(t, c)
    BY <1>3, <1>4 DEF Holds
  <1>6. HeaderOf(t)'
    BY <1>3, <1>4 DEF HeaderOf
  <1>7. Counts'
    <2>1. \A p \in Pools : LiveOf(p)' = LiveOf(p)
      BY <1>1 DEF LiveOf
    <2>2. \A p \in Pools : \A v \in Threads : Counted(v, p)' <=> Counted(v, p)
      BY <1>3, <1>4 DEF Counted
    <2> QED BY <1>1, <2>1, <2>2, CountsKept
  <1>8. mAllocCount' \in [Pools -> Int]
    BY <1>1 DEF IInv, Types
  <1> QED BY <1>1, <1>2, <1>3, <1>5, <1>6, <1>7, <1>8, OnlyCounts

LEMMA CountAllocOK ==
    ASSUME IInv, NEW t \in Threads, CountAlloc(t)
    PROVE  IInv'
  <1>1. PICK b, real, pool : b = thread[t].block /\ real = thread[t].real /\ pool = thread[t].pool
    OBVIOUS
  <1>2. /\ thread[t].at = "counting"
        /\ mAllocCount' = [mAllocCount EXCEPT ![pool] = mAllocCount[pool] + 1]
        /\ Becomes(t, [at |-> "attaching", block |-> b, real |-> real])
        /\ UNCHANGED <<mFreeList, capacity, mAllocSize, live>>
    BY <1>1 DEF CountAlloc
  <1>3. b \in Block /\ real \in Nat /\ pool \in Pools
    BY <1>1, <1>2, StateFacts DEF IInv
  <1>4. PICK s : s = [at |-> "attaching", block |-> b, real |-> real]
    OBVIOUS
  <1>5. s \in States /\ s.at = "attaching" /\ s.block = b /\ s.real = real
    BY <1>3, <1>4 DEF States
  <1>6. thread'[t] = s /\ \A v \in Threads : v # t => thread'[v] = thread[v]
    BY <1>2, <1>4, <1>5, ThreadMoves DEF IInv
  <1>7. /\ Serves(b, real) /\ real <= MAX_ALLOC_SIZE /\ capacity[b] = pool
    BY <1>1, <1>2 DEF IInv, Headers, HeaderOf
  <1>8. mSmallSizeMemoryPoolTable[real] = pool
    BY <1>3, <1>7, MemoryPoolAssumption DEF Serves
  <1>9. \A c : Holds(t, c)' <=> Holds(t, c)
    BY <1>1, <1>2, <1>5, <1>6 DEF Holds
  <1>10. HeaderOf(t)'
    BY <1>2, <1>5, <1>6, <1>7 DEF HeaderOf, Serves
  <1>11. /\ mAllocCount' \in [Pools -> Int] /\ mAllocCount'[pool] = mAllocCount[pool] + 1
         /\ \A p \in Pools : p # pool => mAllocCount'[p] = mAllocCount[p]
    BY <1>2, <1>3 DEF IInv, Types
  <1>12. Counts'
    <2>1. \A p \in Pools : LiveOf(p)' = LiveOf(p)
      BY <1>2 DEF LiveOf
    <2>2. \A p \in Pools : ~Counted(t, p) /\ (Counted(t, p)' <=> p = pool)
      BY <1>2, <1>5, <1>6, <1>7, <1>8 DEF Counted
    <2>3. \A p \in Pools : \A v \in Threads : v # t => (Counted(v, p)' <=> Counted(v, p))
      BY <1>6 DEF Counted
    <2>4. CountedIn(pool)' = CountedIn(pool) \cup {t} /\ t \notin CountedIn(pool)
      BY <1>3, <2>2, <2>3 DEF CountedIn
    <2>5. \A p \in Pools : p # pool => CountedIn(p)' = CountedIn(p)
      BY <2>2, <2>3 DEF CountedIn
    <2>6. Cardinality(CountedIn(pool)') = Cardinality(CountedIn(pool)) + 1
      BY <2>4, SetsFinite, FS_AddElement DEF IInv
    <2>7. ASSUME NEW p \in Pools
          PROVE  mAllocCount'[p] = Cardinality(LiveOf(p)') + Cardinality(CountedIn(p)')
      <3>1. mAllocCount[p] = Cardinality(LiveOf(p)) + Cardinality(CountedIn(p))
        BY DEF IInv, Counts
      <3>2. Cardinality(LiveOf(p)) \in Nat /\ Cardinality(CountedIn(p)) \in Nat
        BY SetsFinite DEF IInv
      <3> QED BY <1>11, <2>1, <2>5, <2>6, <3>1, <3>2
    <2> QED BY <2>7 DEF Counts
  <1> QED BY <1>2, <1>4, <1>5, <1>9, <1>10, <1>11, <1>12, OnlyCounts

\* The count of one pool's blocks changes.
LEMMA CountsAt ==
    ASSUME IInv, Types', NEW q \in Pools,
           \A p \in Pools : p # q => /\ mAllocCount'[p] = mAllocCount[p]
                                     /\ LiveOf(p)' = LiveOf(p) /\ CountedIn(p)' = CountedIn(p),
           mAllocCount'[q] - mAllocCount[q]
              = (Cardinality(LiveOf(q)') - Cardinality(LiveOf(q)))
                   + (Cardinality(CountedIn(q)') - Cardinality(CountedIn(q)))
    PROVE  Counts'
  <1> SUFFICES ASSUME NEW p \in Pools
               PROVE  mAllocCount'[p] = Cardinality(LiveOf(p)') + Cardinality(CountedIn(p)')
    BY DEF Counts
  <1>1. mAllocCount[p] = Cardinality(LiveOf(p)) + Cardinality(CountedIn(p))
    BY DEF IInv, Counts
  <1>2. Cardinality(LiveOf(p)) \in Nat /\ Cardinality(CountedIn(p)) \in Nat
    BY SetsFinite DEF IInv
  <1>3. Cardinality(LiveOf(p)') \in Nat /\ Cardinality(CountedIn(p)') \in Nat
    <2>1. LiveOf(p)' \in SUBSET Block /\ CountedIn(p)' \in SUBSET Threads
      BY DEF LiveOf, CountedIn, Types
    <2> QED BY <2>1, FS_Subset, FS_CardinalityType, MemoryPoolAssumption
  <1>4. mAllocCount[p] \in Int /\ mAllocCount'[p] \in Int
    BY DEF IInv, Types
  <1>5. CASE p = q
    BY <1>1, <1>2, <1>3, <1>4, <1>5
  <1>6. CASE p # q
    BY <1>1, <1>6
  <1> QED BY <1>5, <1>6

LEMMA AttachMemAllocInfoOK ==
    ASSUME IInv, NEW t \in Threads, AttachMemAllocInfo(t)
    PROVE  IInv'
  <1>1. PICK b, real : b = thread[t].block /\ real = thread[t].real
    OBVIOUS
  <1>2. /\ thread[t].at = "attaching"
        /\ mAllocSize' = [mAllocSize EXCEPT ![b] = real]
        /\ live' = live \cup {b} /\ Becomes(t, Idle)
        /\ UNCHANGED <<mFreeList, mAllocCount, capacity>>
    BY <1>1 DEF AttachMemAllocInfo
  <1>3. b \in Block /\ real \in Nat /\ MAX_ALLOC_SIZE \in Nat
    BY <1>1, <1>2, StateFacts, MemoryPoolAssumption DEF IInv
  <1>4. Idle \in States /\ Idle.at = "idle"
    BY DEF States, Idle
  <1>5. /\ thread' \in [Threads -> States] /\ thread'[t] = Idle
        /\ \A v \in Threads : v # t => thread'[v] = thread[v]
    BY <1>2, <1>4, ThreadMoves DEF IInv
  <1>6. /\ mAllocSize' \in [Block -> Nat] /\ mAllocSize'[b] = real
        /\ \A c \in Block : c # b => mAllocSize'[c] = mAllocSize[c]
    BY <1>2, <1>3 DEF IInv, Types
  <1>7. Types'
    BY <1>2, <1>3, <1>5, <1>6 DEF IInv, Types
  <1>8. \A p : On(p)' = On(p)
    BY <1>2 DEF On
  <1>9. /\ \A c : Holds(t, c) <=> c = b
        /\ \A c : ~Holds(t, c)'
    BY <1>1, <1>2, <1>4, <1>5 DEF Holds
  <1>10. Moves(t, b)
    BY <1>2, <1>5, <1>6, <1>8, <1>9 DEF Moves
  <1>11. /\ b \notin live /\ capacity[b] # 0 /\ \A p \in Pools : b \notin On(p)
         /\ \A v \in Threads : v # t => ~Holds(v, b)
    BY <1>3, <1>9 DEF IInv, Places, PlaceOf
  <1>12. Places'
    <2>1. \A v \in Threads : ~Holds(v, b)'
      BY <1>9, <1>10, <1>11, OthersHold
    <2>2. PlaceOf(b)'
      BY <1>2, <1>8, <1>11, <2>1 DEF PlaceOf
    <2>3. \A p \in Pools : Distinct(mFreeList'[p])
      BY <1>2 DEF IInv, Places
    <2> QED BY <1>3, <1>10, <2>2, <2>3, PlacesMoved
  <1>13. Serves(b, real) /\ Serves(b, mAllocSize[b])'
    BY <1>1, <1>2, <1>6 DEF IInv, Headers, HeaderOf, Serves
  <1>14. Headers'
    <2>1. HeaderOf(t)'
      BY <1>4, <1>5 DEF HeaderOf
    <2> QED BY <1>3, <1>7, <1>8, <1>10, <1>11, <1>13, <2>1, HeadersMoved
  <1>15. \A p \in Pools : \A v \in Threads : v # t => (Counted(v, p)' <=> Counted(v, p))
    BY <1>5 DEF Counted
  <1>16. \A p \in Pools : ~Counted(t, p)'
    BY <1>4, <1>5 DEF Counted
  <1>17. CASE real > MAX_ALLOC_SIZE
    <2>1. \A p \in Pools : capacity[b] # p
      BY <1>3, <1>13, <1>17, PoolFacts DEF Serves
    <2>2. \A p \in Pools : LiveOf(p)' = LiveOf(p)
      BY <1>2, <2>1 DEF LiveOf
    <2>3. \A p \in Pools : ~Counted(t, p)
      BY <1>1, <1>2, <1>3, <1>17 DEF Counted
    <2>4. Counts'
      BY <1>2, <1>15, <1>16, <2>2, <2>3, CountsKept
    <2> QED BY <1>7, <1>12, <1>14, <2>4 DEF IInv
  <1>18. CASE real <= MAX_ALLOC_SIZE
    <2>1. PICK q : q = mSmallSizeMemoryPoolTable[real]
      OBVIOUS
    <2>2. capacity[b] = q /\ q \in Pools
      BY <1>3, <1>13, <1>18, <2>1, TableFacts DEF Serves
    <2>3. LiveOf(q)' = LiveOf(q) \cup {b} /\ b \notin LiveOf(q)
      BY <1>2, <1>11, <2>2 DEF LiveOf
    <2>4. CountedIn(q)' = CountedIn(q) \ {t} /\ t \in CountedIn(q)
      BY <1>1, <1>2, <1>15, <1>16, <1>18, <2>1, <2>2 DEF CountedIn, Counted
    <2>5. \A p \in Pools : p # q => LiveOf(p)' = LiveOf(p)
      BY <1>2, <2>2 DEF LiveOf
    <2>6. \A p \in Pools : p # q => ~Counted(t, p)
      BY <1>1, <1>2, <2>1 DEF Counted
    <2>7. \A p \in Pools : p # q => CountedIn(p)' = CountedIn(p)
      BY <1>15, <1>16, <2>6 DEF CountedIn
    <2>8. Cardinality(LiveOf(q)') = Cardinality(LiveOf(q)) + 1
      BY <2>3, SetsFinite, FS_AddElement DEF IInv
    <2>9. Cardinality(CountedIn(q)') = Cardinality(CountedIn(q)) - 1
      BY <2>4, SetsFinite, FS_RemoveElement DEF IInv
    <2>10. /\ Cardinality(LiveOf(q)) \in Nat /\ Cardinality(CountedIn(q)) \in Nat
           /\ mAllocCount[q] \in Int /\ mAllocCount'[q] = mAllocCount[q]
      BY <1>2, <2>2, SetsFinite DEF IInv, Types
    <2>11. mAllocCount'[q] - mAllocCount[q]
              = (Cardinality(LiveOf(q)') - Cardinality(LiveOf(q)))
                   + (Cardinality(CountedIn(q)') - Cardinality(CountedIn(q)))
      BY <2>8, <2>9, <2>10
    <2>12. Counts'
      BY <1>2, <1>7, <2>2, <2>5, <2>7, <2>11, CountsAt
    <2> QED BY <1>7, <1>12, <1>14, <2>12 DEF IInv
  <1> QED BY <1>3, <1>17, <1>18

\* What both ways of Deallocate share.
LEMMA LeavesProgram ==
    ASSUME IInv, NEW t \in Threads, NEW b \in live, Deallocate(t, b)
    PROVE  /\ thread[t].at = "idle" /\ b \in Block /\ MAX_ALLOC_SIZE \in Nat
           /\ mAllocSize[b] \in Nat /\ Serves(b, mAllocSize[b])
           /\ mAllocSize' \in [Block -> Nat] /\ mAllocSize'[b] = 0
           /\ \A c \in Block : c # b => mAllocSize'[c] = mAllocSize[c]
           /\ live' = live \ {b} /\ UNCHANGED <<mFreeList, mAllocCount>>
           /\ \A p : On(p)' = On(p)
           /\ \A p \in Pools : b \notin On(p)
           /\ \A v \in Threads : ~Holds(v, b)
           /\ capacity[b] # 0
  <1>1. /\ thread[t] = Idle /\ live' = live \ {b} /\ mAllocSize' = [mAllocSize EXCEPT ![b] = 0]
        /\ UNCHANGED <<mFreeList, mAllocCount>>
    BY DEF Deallocate
  <1>2. b \in Block /\ MAX_ALLOC_SIZE \in Nat /\ mAllocSize \in [Block -> Nat]
    BY MemoryPoolAssumption DEF IInv, Types
  <1>3. /\ mAllocSize[b] \in Nat /\ mAllocSize' \in [Block -> Nat] /\ mAllocSize'[b] = 0
        /\ \A c \in Block : c # b => mAllocSize'[c] = mAllocSize[c]
    BY <1>1, <1>2
  <1>4. thread[t].at = "idle"
    BY <1>1 DEF Idle
  <1>5. \A p : On(p)' = On(p)
    BY <1>1 DEF On
  <1>6. /\ \A p \in Pools : b \notin On(p)
        /\ \A v \in Threads : ~Holds(v, b)
        /\ capacity[b] # 0
    BY <1>2 DEF IInv, Places, PlaceOf
  <1>7. Serves(b, mAllocSize[b])
    BY DEF IInv, Headers
  <1> QED BY <1>1, <1>2, <1>3, <1>4, <1>5, <1>6, <1>7

LEMMA DeallocateLargeOK ==
    ASSUME IInv, NEW t \in Threads, NEW b \in live, Deallocate(t, b), mAllocSize[b] > MAX_ALLOC_SIZE
    PROVE  IInv'
  <1>1. capacity' = [capacity EXCEPT ![b] = 0] /\ UNCHANGED thread
    BY DEF Deallocate
  <1>2. /\ thread[t].at = "idle" /\ b \in Block /\ MAX_ALLOC_SIZE \in Nat
        /\ mAllocSize[b] \in Nat /\ Serves(b, mAllocSize[b])
        /\ mAllocSize' \in [Block -> Nat] /\ mAllocSize'[b] = 0
        /\ \A c \in Block : c # b => mAllocSize'[c] = mAllocSize[c]
        /\ live' = live \ {b} /\ UNCHANGED <<mFreeList, mAllocCount>>
        /\ \A p : On(p)' = On(p)
        /\ \A p \in Pools : b \notin On(p)
        /\ \A v \in Threads : ~Holds(v, b)
    BY LeavesProgram
  <1>3. /\ capacity' \in [Block -> Nat] /\ capacity'[b] = 0
        /\ \A c \in Block : c # b => capacity'[c] = capacity[c]
    BY <1>1, <1>2 DEF IInv, Types
  <1>4. Types'
    BY <1>1, <1>2, <1>3 DEF IInv, Types
  <1>5. \A v \in Threads : \A c : Holds(v, c)' <=> Holds(v, c)
    BY <1>1 DEF Holds
  <1>6. Moves(t, b)
    BY <1>1, <1>2, <1>3, <1>5 DEF Moves
  <1>7. Places'
    <2>1. PlaceOf(b)'
      BY <1>2, <1>3, <1>5 DEF PlaceOf
    <2>2. \A p \in Pools : Distinct(mFreeList'[p])
      BY <1>2 DEF IInv, Places
    <2> QED BY <1>2, <1>6, <2>1, <2>2, PlacesMoved
  <1>8. Headers'
    <2>1. HeaderOf(t)'
      BY <1>1, <1>2 DEF HeaderOf
    <2> QED BY <1>2, <1>4, <1>6, <2>1, HeadersMoved
  <1>9. Counts'
    <2>1. \A p \in Pools : capacity[b] # p
      BY <1>2, PoolFacts DEF Serves
    <2>2. \A p \in Pools : LiveOf(p)' = LiveOf(p)
      BY <1>2, <1>3, <2>1 DEF LiveOf, IInv, Types
    <2>3. \A p \in Pools : \A v \in Threads : Counted(v, p)' <=> Counted(v, p)
      BY <1>1 DEF Counted
    <2> QED BY <1>2, <2>2, <2>3, CountsKept
  <1> QED BY <1>4, <1>7, <1>8, <1>9 DEF IInv

LEMMA DeallocateSmallOK ==
    ASSUME IInv, NEW t \in Threads, NEW b \in live, Deallocate(t, b),
           ~(mAllocSize[b] > MAX_ALLOC_SIZE)
    PROVE  IInv'
  <1>0. PICK q : q = mSmallSizeMemoryPoolTable[mAllocSize[b]]
    OBVIOUS
  <1>1. Becomes(t, [at |-> "pushing", block |-> b, pool |-> q]) /\ UNCHANGED capacity
    BY <1>0 DEF Deallocate
  <1>2. /\ thread[t].at = "idle" /\ b \in Block /\ MAX_ALLOC_SIZE \in Nat
        /\ mAllocSize[b] \in Nat /\ Serves(b, mAllocSize[b])
        /\ mAllocSize' \in [Block -> Nat] /\ mAllocSize'[b] = 0
        /\ \A c \in Block : c # b => mAllocSize'[c] = mAllocSize[c]
        /\ live' = live \ {b} /\ UNCHANGED <<mFreeList, mAllocCount>>
        /\ \A p : On(p)' = On(p)
        /\ \A p \in Pools : b \notin On(p)
        /\ \A v \in Threads : ~Holds(v, b)
        /\ capacity[b] # 0
    BY LeavesProgram
  <1>3. capacity[b] = q /\ q \in Pools
    BY <1>0, <1>2, TableFacts DEF Serves
  <1>4. PICK s : s = [at |-> "pushing", block |-> b, pool |-> q]
    OBVIOUS
  <1>5. s \in States /\ s.at = "pushing" /\ s.block = b /\ s.pool = q
    BY <1>2, <1>3, <1>4 DEF States
  <1>6. /\ thread' \in [Threads -> States] /\ thread'[t] = s
        /\ \A v \in Threads : v # t => thread'[v] = thread[v]
    BY <1>1, <1>4, <1>5, ThreadMoves DEF IInv
  <1>7. Types'
    BY <1>1, <1>2, <1>6 DEF IInv, Types
  <1>8. /\ \A c : Holds(t, c)' <=> c = b
        /\ \A c : ~Holds(t, c)
    BY <1>2, <1>5, <1>6 DEF Holds
  <1>9. Moves(t, b)
    BY <1>1, <1>2, <1>6, <1>8 DEF Moves
  <1>10. Places'
    <2>1. \A v \in Threads : Holds(v, b)' <=> v = t
      BY <1>2, <1>8, <1>9, OthersHold
    <2>2. PlaceOf(b)'
      BY <1>1, <1>2, <2>1 DEF PlaceOf
    <2>3. \A p \in Pools : Distinct(mFreeList'[p])
      BY <1>2 DEF IInv, Places
    <2> QED BY <1>2, <1>9, <2>2, <2>3, PlacesMoved
  <1>11. Headers'
    <2>1. HeaderOf(t)'
      BY <1>1, <1>2, <1>3, <1>5, <1>6 DEF HeaderOf
    <2> QED BY <1>2, <1>7, <1>9, <2>1, HeadersMoved
  <1>12. Counts'
    <2>1. \A p \in Pools : \A v \in Threads : v # t => (Counted(v, p)' <=> Counted(v, p))
      BY <1>6 DEF Counted
    <2>2. \A p \in Pools : ~Counted(t, p) /\ (Counted(t, p)' <=> p = q)
      BY <1>2, <1>5, <1>6 DEF Counted
    <2>3. LiveOf(q)' = LiveOf(q) \ {b} /\ b \in LiveOf(q)
      BY <1>1, <1>2, <1>3 DEF LiveOf
    <2>4. \A p \in Pools : p # q => LiveOf(p)' = LiveOf(p)
      BY <1>1, <1>2, <1>3 DEF LiveOf
    <2>5. CountedIn(q)' = CountedIn(q) \cup {t} /\ t \notin CountedIn(q)
      BY <1>3, <2>1, <2>2 DEF CountedIn
    <2>6. \A p \in Pools : p # q => CountedIn(p)' = CountedIn(p)
      BY <2>1, <2>2 DEF CountedIn
    <2>7. Cardinality(LiveOf(q)') = Cardinality(LiveOf(q)) - 1
      BY <2>3, SetsFinite, FS_RemoveElement DEF IInv
    <2>8. Cardinality(CountedIn(q)') = Cardinality(CountedIn(q)) + 1
      BY <2>5, SetsFinite, FS_AddElement DEF IInv
    <2>9. /\ Cardinality(LiveOf(q)) \in Nat /\ Cardinality(CountedIn(q)) \in Nat
          /\ mAllocCount[q] \in Int /\ mAllocCount'[q] = mAllocCount[q]
      BY <1>2, <1>3, SetsFinite DEF IInv, Types
    <2>10. mAllocCount'[q] - mAllocCount[q]
              = (Cardinality(LiveOf(q)') - Cardinality(LiveOf(q)))
                   + (Cardinality(CountedIn(q)') - Cardinality(CountedIn(q)))
      BY <2>7, <2>8, <2>9
    <2> QED BY <1>2, <1>3, <1>7, <2>4, <2>6, <2>10, CountsAt
  <1> QED BY <1>7, <1>10, <1>11, <1>12 DEF IInv

LEMMA PushOK ==
    ASSUME IInv, NEW t \in Threads, Push(t)
    PROVE  IInv'
  <1>1. PICK b, q : b = thread[t].block /\ q = thread[t].pool
    OBVIOUS
  <1>2. /\ thread[t].at = "pushing"
        /\ mFreeList' = [mFreeList EXCEPT ![q] = <<b>> \o mFreeList[q]]
        /\ Becomes(t, [at |-> "uncounting", pool |-> q])
        /\ UNCHANGED <<mAllocCount, capacity, mAllocSize, live>>
    BY <1>1 DEF Push
  <1>3. b \in Block /\ q \in Pools
    BY <1>1, <1>2, StateFacts DEF IInv
  <1>4. PICK s : s = [at |-> "uncounting", pool |-> q]
    OBVIOUS
  <1>5. s \in States /\ s.at = "uncounting" /\ s.pool = q
    BY <1>3, <1>4 DEF States
  <1>6. /\ thread' \in [Threads -> States] /\ thread'[t] = s
        /\ \A v \in Threads : v # t => thread'[v] = thread[v]
    BY <1>2, <1>4, <1>5, ThreadMoves DEF IInv
  <1>7. /\ \A c : Holds(t, c) <=> c = b
        /\ \A c : ~Holds(t, c)'
    BY <1>1, <1>2, <1>5, <1>6 DEF Holds
  <1>8. /\ b \notin live /\ capacity[b] # 0 /\ \A p \in Pools : b \notin On(p)
        /\ \A v \in Threads : v # t => ~Holds(v, b)
    BY <1>3, <1>7 DEF IInv, Places, PlaceOf
  <1>9. /\ <<b>> \o mFreeList[q] \in Seq(Block) /\ Distinct(<<b>> \o mFreeList[q])
        /\ Elements(<<b>> \o mFreeList[q]) = On(q) \cup {b}
    <2>1. mFreeList[q] \in Seq(Block) /\ Distinct(mFreeList[q]) /\ b \notin Elements(mFreeList[q])
      BY <1>3, <1>8 DEF IInv, Types, Places, On
    <2> QED BY <1>3, <2>1, Pushed DEF On
  <1>10. /\ mFreeList' \in [Pools -> Seq(Block)] /\ mFreeList'[q] = <<b>> \o mFreeList[q]
         /\ \A p \in Pools : p # q => mFreeList'[p] = mFreeList[p]
    BY <1>2, <1>3, <1>9 DEF IInv, Types
  <1>11. \A p \in Pools : Distinct(mFreeList'[p])
    BY <1>9, <1>10 DEF IInv, Places
  <1>12. /\ On(q)' = On(q) \cup {b}
         /\ \A p \in Pools : p # q => On(p)' = On(p)
    BY <1>3, <1>9, <1>10 DEF On
  <1>13. Types'
    BY <1>2, <1>6, <1>10 DEF IInv, Types
  <1>14. Moves(t, b)
    BY <1>2, <1>6, <1>7, <1>12 DEF Moves
  <1>15. Places'
    <2>1. \A v \in Threads : ~Holds(v, b)'
      BY <1>7, <1>8, <1>14, OthersHold
    <2>2. \A p \in Pools : b \in On(p)' <=> p = q
      BY <1>3, <1>8, <1>12
    <2>3. PlaceOf(b)'
      BY <1>2, <1>3, <1>8, <2>1, <2>2 DEF PlaceOf
    <2> QED BY <1>3, <1>11, <1>14, <2>3, PlacesMoved
  <1>16. Headers'
    <2>1. mAllocSize[b] = 0 /\ capacity[b] = q
      BY <1>1, <1>2 DEF IInv, Headers, HeaderOf
    <2>2. HeaderOf(t)'
      BY <1>5, <1>6 DEF HeaderOf
    <2>3. \A p \in Pools : b \in On(p)' => p = q
      BY <1>8, <1>12
    <2> QED BY <1>2, <1>3, <1>8, <1>13, <1>14, <2>1, <2>2, <2>3, HeadersMoved
  <1>17. Counts'
    <2>1. \A p \in Pools : LiveOf(p)' = LiveOf(p)
      BY <1>2 DEF LiveOf
    <2>2. \A p \in Pools : \A v \in Threads : Counted(v, p)' <=> Counted(v, p)
      BY <1>1, <1>2, <1>5, <1>6 DEF Counted
    <2> QED BY <1>2, <2>1, <2>2, CountsKept
  <1> QED BY <1>13, <1>15, <1>16, <1>17 DEF IInv

LEMMA UncountAllocOK ==
    ASSUME IInv, NEW t \in Threads, UncountAlloc(t)
    PROVE  IInv'
  <1>1. PICK q : q = thread[t].pool
    OBVIOUS
  <1>2. /\ thread[t].at = "uncounting"
        /\ mAllocCount' = [mAllocCount EXCEPT ![q] = mAllocCount[q] - 1]
        /\ Becomes(t, Idle)
        /\ UNCHANGED <<mFreeList, capacity, mAllocSize, live>>
    BY <1>1 DEF UncountAlloc
  <1>3. q \in Pools /\ Idle \in States /\ Idle.at = "idle"
    BY <1>1, <1>2, StateFacts DEF IInv, States, Idle
  <1>4. /\ thread' \in [Threads -> States] /\ thread'[t] = Idle
        /\ \A v \in Threads : v # t => thread'[v] = thread[v]
    BY <1>2, <1>3, ThreadMoves DEF IInv
  <1>5. \A c : Holds(t, c)' <=> Holds(t, c)
    BY <1>2, <1>3, <1>4 DEF Holds
  <1>6. HeaderOf(t)'
    BY <1>3, <1>4 DEF HeaderOf
  <1>7. /\ mAllocCount' \in [Pools -> Int] /\ mAllocCount'[q] = mAllocCount[q] - 1
        /\ \A p \in Pools : p # q => mAllocCount'[p] = mAllocCount[p]
    BY <1>2, <1>3 DEF IInv, Types
  <1>8. Types'
    BY <1>2, <1>4, <1>7 DEF IInv, Types
  <1>9. Counts'
    <2>1. \A p \in Pools : \A v \in Threads : v # t => (Counted(v, p)' <=> Counted(v, p))
      BY <1>4 DEF Counted
    <2>2. \A p \in Pools : (Counted(t, p) <=> p = q) /\ ~Counted(t, p)'
      BY <1>1, <1>2, <1>3, <1>4 DEF Counted
    <2>3. \A p \in Pools : LiveOf(p)' = LiveOf(p)
      BY <1>2 DEF LiveOf
    <2>4. CountedIn(q)' = CountedIn(q) \ {t} /\ t \in CountedIn(q)
      BY <1>3, <2>1, <2>2 DEF CountedIn
    <2>5. \A p \in Pools : p # q => CountedIn(p)' = CountedIn(p)
      BY <2>1, <2>2 DEF CountedIn
    <2>6. Cardinality(CountedIn(q)') = Cardinality(CountedIn(q)) - 1
      BY <2>4, SetsFinite, FS_RemoveElement DEF IInv
    <2>7. /\ Cardinality(LiveOf(q)) \in Nat /\ Cardinality(CountedIn(q)) \in Nat
          /\ mAllocCount[q] \in Int
      BY <1>3, SetsFinite DEF IInv, Types
    <2>8. mAllocCount'[q] - mAllocCount[q]
              = (Cardinality(LiveOf(q)') - Cardinality(LiveOf(q)))
                   + (Cardinality(CountedIn(q)') - Cardinality(CountedIn(q)))
      BY <1>3, <1>7, <2>3, <2>6, <2>7
    <2> QED BY <1>3, <1>7, <1>8, <2>3, <2>5, <2>8, CountsAt
  <1> QED BY <1>2, <1>3, <1>5, <1>6, <1>7, <1>9, OnlyCounts

LEMMA NextOK == IInv /\ [Next]_vars => IInv'
  <1> SUFFICES ASSUME IInv, [Next]_vars PROVE IInv'
    OBVIOUS
  <1>1. ASSUME NEW t \in Threads, Step(t) PROVE IInv'
    BY <1>1, AllocateLargeOK, PopOK, PopEmptyOK, AllocateFaultOK, CountAllocOK,
       AttachMemAllocInfoOK, DeallocateLargeOK, DeallocateSmallOK, PushOK, UncountAllocOK DEF Step
  <1>2. CASE UNCHANGED vars
    <2>1. UNCHANGED <<mFreeList, mAllocCount, capacity, mAllocSize, live, thread>>
      BY <1>2 DEF vars
    <2>2. Types' /\ Places' /\ Headers'
      <3>1. /\ \A p : On(p)' = On(p)
            /\ \A t, c : Holds(t, c)' <=> Holds(t, c)
        BY <2>1 DEF On, Holds
      <3>2. Places'
        BY <2>1, <3>1 DEF IInv, Places, PlaceOf
      <3>3. Headers'
        BY <2>1, <3>1 DEF IInv, Headers, HeaderOf, Serves
      <3> QED BY <2>1, <3>2, <3>3 DEF IInv, Types
    <2>3. Counts'
      BY <2>1, CountsKept DEF LiveOf, Counted
    <2> QED BY <2>2, <2>3 DEF IInv
  <1> QED BY <1>1, <1>2 DEF Next

LEMMA Inductive == Spec => []IInv
  BY InitOK, NextOK, PTL DEF Spec

-----------------------------------------------------------------------------
(***************************************************************************)
(* What the invariant says in the words of the MemoryPool module.          *)
(***************************************************************************)
\* A list without repetitions is no longer than there are blocks.
LEMMA ListBound ==
    ASSUME IInv, NEW p \in Pools
    PROVE  /\ mFreeList[p] \in Seq(Block) /\ Len(mFreeList[p]) \in Nat
           /\ Len(mFreeList[p]) <= Cardinality(Block) /\ Cardinality(Block) \in Nat
           /\ DOMAIN mFreeList[p] = 1 .. Len(mFreeList[p])
  <1>1. mFreeList[p] \in Seq(Block) /\ Distinct(mFreeList[p])
    BY DEF IInv, Types, Places
  <1>2. PICK s \in Seq(Block) : s = mFreeList[p]
    BY <1>1
  <1>3. Len(s) \in Nat /\ s \in [1 .. Len(s) -> Block] /\ DOMAIN s = 1 .. Len(s)
    BY LenProperties
  <1>4. s \in Injection(1 .. Len(s), Block)
    BY <1>1, <1>2, <1>3 DEF Injection, IsInjective, Distinct
  <1>5. Cardinality(1 .. Len(s)) <= Cardinality(Block) /\ Cardinality(Block) \in Nat
    BY <1>4, FS_Injection, FS_CardinalityType, MemoryPoolAssumption
  <1>6. Cardinality(1 .. Len(s)) = Len(s)
    BY <1>3, FS_Interval
  <1> QED BY <1>2, <1>3, <1>5, <1>6

LEMMA AtMostOne ==
    ASSUME NEW S, \A x, y \in S : x = y
    PROVE  Cardinality(S) = IF S = {} THEN 0 ELSE 1
  <1>1. CASE S = {}
    BY <1>1, FS_EmptySet
  <1>2. ASSUME NEW x \in S PROVE S # {} /\ Cardinality(S) = 1
    <2>1. S = {x}
      BY <1>2
    <2> QED BY <2>1, FS_Singleton
  <1> QED BY <1>1, <1>2

LEMMA PlacesHold == IInv => OnePlace
  <1> SUFFICES ASSUME IInv, NEW b \in Block
               PROVE  Cardinality(Spots(b)) + (IF b \in live THEN 1 ELSE 0) + Cardinality(Holders(b))
                         = IF capacity[b] = 0 THEN 0 ELSE 1
    BY DEF OnePlace
  <1>1. PlaceOf(b)
    BY DEF IInv, Places
  <1>2. \A t : t \in Holders(b) <=> t \in Threads /\ Holds(t, b)
    BY StateFacts DEF Holders, Holds, IInv
  <1>3. ASSUME NEW x \in Spots(b)
        PROVE  /\ x = <<x[1], x[2]>> /\ x[1] \in Pools /\ x[2] \in 1 .. Len(mFreeList[x[1]])
               /\ mFreeList[x[1]][x[2]] = b /\ b \in On(x[1])
    <2>1. /\ x = <<x[1], x[2]>> /\ x[1] \in Pools /\ x[2] \in 1 .. Cardinality(Block)
          /\ x[2] <= Len(mFreeList[x[1]]) /\ mFreeList[x[1]][x[2]] = b
      BY <1>3 DEF Spots
    <2>2. x[2] \in 1 .. Len(mFreeList[x[1]])
      BY <2>1, ListBound
    <2> QED BY <2>1, <2>2 DEF On, Elements
  <1>4. ASSUME NEW p \in Pools, b \in On(p) PROVE Spots(b) # {}
    <2>1. PICK n \in 1 .. Len(mFreeList[p]) : mFreeList[p][n] = b
      BY <1>4 DEF On, Elements
    <2>2. n \in 1 .. Cardinality(Block) /\ n <= Len(mFreeList[p])
      BY ListBound
    <2>3. <<p, n>> \in Spots(b)
      BY <2>1, <2>2 DEF Spots
    <2> QED BY <2>3
  <1>5. Spots(b) # {} <=> \E p \in Pools : b \in On(p)
    BY <1>3, <1>4
  <1>6. Cardinality(Spots(b)) = IF \E p \in Pools : b \in On(p) THEN 1 ELSE 0
    <2>1. ASSUME NEW x \in Spots(b), NEW y \in Spots(b) PROVE x = y
      <3>1. x[1] = y[1]
        BY <1>1, <1>3, <2>1 DEF PlaceOf
      <3>2. x[2] = y[2]
        BY <1>3, <2>1, <3>1 DEF IInv, Places, Distinct
      <3> QED BY <1>3, <2>1, <3>1, <3>2
    <2> QED BY <1>5, <2>1, AtMostOne
  <1>7. Cardinality(Holders(b)) = IF \E t \in Threads : Holds(t, b) THEN 1 ELSE 0
    <2>1. \A s, t \in Holders(b) : s = t
      BY <1>1, <1>2 DEF PlaceOf
    <2>2. Holders(b) # {} <=> \E t \in Threads : Holds(t, b)
      BY <1>2
    <2> QED BY <2>1, <2>2, AtMostOne
  <1> QED BY <1>1, <1>6, <1>7 DEF PlaceOf

LEMMA SizesHold == IInv => SizesMarkFree
  <1> SUFFICES ASSUME IInv PROVE SizesMarkFree
    OBVIOUS
  <1>1. \A p \in Pools : \A n \in DOMAIN mFreeList[p] : mFreeList[p][n] \in On(p)
    BY ListBound DEF On, Elements
  <1> QED BY <1>1 DEF IInv, Headers, Serves, SizesMarkFree

LEMMA FitHolds == IInv => BlocksFit
  <1> SUFFICES ASSUME IInv PROVE BlocksFit
    OBVIOUS
  <1>1. \A p \in Pools : \A n \in DOMAIN mFreeList[p] : mFreeList[p][n] \in On(p)
    BY ListBound DEF On, Elements
  <1>2. ASSUME NEW b \in live PROVE mAllocSize[b] <= capacity[b]
    <2>1. Serves(b, mAllocSize[b]) /\ mAllocSize[b] \in Nat /\ MAX_ALLOC_SIZE \in Nat
      BY MemoryPoolAssumption DEF IInv, Headers, Types
    <2>2. CASE mAllocSize[b] > MAX_ALLOC_SIZE
      BY <2>1, <2>2 DEF Serves
    <2>3. CASE ~(mAllocSize[b] > MAX_ALLOC_SIZE)
      <3>1. mAllocSize[b] \in 1 .. MAX_ALLOC_SIZE /\ mSmallSizeMemoryPoolTable[mAllocSize[b]] # 0
            /\ capacity[b] = mSmallSizeMemoryPoolTable[mAllocSize[b]]
        BY <2>1, <2>3 DEF Serves
      <3>2. capacity[b] >= mAllocSize[b] /\ capacity[b] \in Nat
        BY <3>1, TableFacts, PoolFacts
      <3> QED BY <2>1, <3>2
    <2> QED BY <2>2, <2>3
  <1>3. \A t \in Threads : thread[t].at = "pushing" => capacity[thread[t].block] = thread[t].pool
    BY DEF IInv, Headers, HeaderOf
  <1>4. \A p \in Pools : \A n \in DOMAIN mFreeList[p] : capacity[mFreeList[p][n]] = p
    BY <1>1 DEF IInv, Headers
  <1> QED BY <1>2, <1>3, <1>4 DEF BlocksFit

LEMMA CountsHold == IInv => CountsSettle
  <1> SUFFICES ASSUME IInv, \A t \in Threads : thread[t].at \in {"idle", "fault"}, NEW p \in Pools
               PROVE  mAllocCount[p] = Cardinality({b \in live : capacity[b] = p})
    BY DEF CountsSettle
  <1>1. CountedIn(p) = {}
    BY DEF CountedIn, Counted
  <1>2. mAllocCount[p] = Cardinality(LiveOf(p)) + Cardinality(CountedIn(p))
    BY DEF IInv, Counts
  <1>3. Cardinality(LiveOf(p)) \in Nat
    BY SetsFinite DEF IInv
  <1>4. mAllocCount[p] = Cardinality(LiveOf(p))
    BY <1>1, <1>2, <1>3, FS_EmptySet
  <1> QED BY <1>4 DEF LiveOf

LEMMA TypesHold == IInv => TypeOK
  <1> SUFFICES ASSUME IInv PROVE TypeOK
    OBVIOUS
  <1>1. \A t \in Threads : "block" \in DOMAIN thread[t] => thread[t].block \in Block
    BY StateFacts DEF IInv
  <1>2. mAllocCount \in [Pools -> 0 .. Cardinality(Block) + Cardinality(Threads)]
    <2>1. Cardinality(Block) \in Nat /\ Cardinality(Threads) \in Nat
      BY FS_CardinalityType, MemoryPoolAssumption
    <2>2. ASSUME NEW p \in Pools
          PROVE  mAllocCount[p] \in 0 .. Cardinality(Block) + Cardinality(Threads)
      <3>1. mAllocCount[p] = Cardinality(LiveOf(p)) + Cardinality(CountedIn(p))
        BY DEF IInv, Counts
      <3> QED BY <2>1, <3>1, SetsFinite DEF IInv
    <2>3. mAllocCount \in [Pools -> Int]
      BY DEF IInv, Types
    <2> QED BY <2>2, <2>3
  <1> QED BY <1>1, <1>2 DEF IInv, Types, TypeOK

-----------------------------------------------------------------------------
\* The variables of the pools keep their types; above all no counter falls
\* below 0 or grows beyond the blocks and the threads there are.
THEOREM PoolTypes == Spec => []TypeOK
  BY Inductive, TypesHold, PTL

\* A block from the heap is on one list once, with the program, or inside
\* one call of Allocate or Deallocate, whichever threads pop, push and free.
THEOREM BlocksHaveOnePlace == Spec => []OnePlace
  BY Inductive, PlacesHold, PTL

\* The asserts of Pop and of Deallocate on mAllocSize never fail.
THEOREM AssertsOnSizesHold == Spec => []SizesMarkFree
  BY Inductive, SizesHold, PTL

\* A block goes back to the pool it came from, and is never handed out for
\* more bytes than it was got with.
THEOREM BlocksAreLargeEnough == Spec => []BlocksFit
  BY Inductive, FitHolds, PTL

\* When no call is under way mAllocCount of every pool is the number of its
\* blocks the program holds.
THEOREM CountersSettle == Spec => []CountsSettle
  BY Inductive, CountsHold, PTL
=============================================================================
