--------------------------- MODULE RequestsProofs ---------------------------
(***************************************************************************)
(* The arithmetic of the requests of dlmalloc.c, for every width of size_t *)
(* and all arguments, as far as the rounding of the arguments does not     *)
(* wrap itself: what a call gets has the bytes and the alignment that it   *)
(* asked for.                                                              *)
(***************************************************************************)
EXTENDS Requests, TLAPS

\* The next power of two is still a size_t.
AlignmentsFit == \A a \in Alignments \cup {page_size} : 2 * a <= MAX_SIZE_T + 1
\* Rounded up to whole pages, a size is still a size_t.
PagesFit == \A n \in Bytes : n + page_size <= MAX_SIZE_T + 1

-----------------------------------------------------------------------------
(* Numbers                                                                   *)

LEMMA RequestConstants ==
  \/ /\ SIZE_T_SIZE = 4 /\ MALLOC_ALIGNMENT = 8 /\ CHUNK_OVERHEAD = 4 /\ MIN_CHUNK_SIZE = 16
     /\ MIN_REQUEST = 11 /\ MAX_SIZE_T >= 127
  \/ /\ SIZE_T_SIZE = 8 /\ MALLOC_ALIGNMENT = 16 /\ CHUNK_OVERHEAD = 8 /\ MIN_CHUNK_SIZE = 32
     /\ MIN_REQUEST = 23 /\ MAX_SIZE_T >= 255
BY RequestsAssumption DEF MALLOC_ALIGNMENT, CHUNK_OVERHEAD, MIN_CHUNK_SIZE, MIN_REQUEST

\* A number wraps to one that is not larger, and to itself if it is a size_t.
LEMMA Wrap ==
  ASSUME NEW n \in Nat
  PROVE  /\ wrap(n) \in 0..MAX_SIZE_T /\ wrap(n) <= n
         /\ n <= MAX_SIZE_T => wrap(n) = n
<1>1. PICK m \in Nat \ {0} : m = MAX_SIZE_T + 1
  BY RequestsAssumption
<1>2. /\ n % m \in 0..(m - 1) /\ n % m <= n
      /\ n < m => n % m = n
  BY <1>1
<1> QED
  BY <1>1, <1>2, RequestsAssumption DEF wrap

\* Rounding up gives the next multiple, unless it wraps.
LEMMA Up ==
  ASSUME NEW n \in Nat, NEW a \in Nat \ {0}, n + a - 1 <= MAX_SIZE_T
  PROVE  /\ up(n, a) \in Nat /\ up(n, a) % a = 0
         /\ n <= up(n, a) /\ up(n, a) < n + a
         /\ up(n, a) = ((n + a - 1) \div a) * a
<1>1. up(n, a) = ((n + a - 1) \div a) * a
  BY Wrap DEF up
<1>2. PICK q \in Nat : q = (n + a - 1) \div a
  OBVIOUS
<1>3. /\ q * a \in Nat /\ (q * a) % a = 0 /\ n <= q * a /\ q * a < n + a
  BY <1>2
<1> QED
  BY <1>1, <1>2, <1>3

\* (-MIN_CHUNK_SIZE) << 2
LEMMA MaxRequest == MAX_REQUEST = MAX_SIZE_T + 1 - 4 * MIN_CHUNK_SIZE
<1>1. PICK m \in Nat : m = MAX_SIZE_T + 1 /\ m > 4 * MIN_CHUNK_SIZE /\ MIN_CHUNK_SIZE \in {16, 32}
  BY RequestsAssumption, RequestConstants
<1>2. PICK r \in Nat : r = m - 4 * MIN_CHUNK_SIZE /\ r < m
  BY <1>1
<1>3. (3 * m + r) % m = r
  BY <1>1, <1>2
<1>4. 4 * (MAX_SIZE_T + 1 - MIN_CHUNK_SIZE) = 3 * m + r
  BY <1>1, <1>2, RequestsAssumption
<1>5. MAX_REQUEST = (3 * m + r) % m
  BY <1>1, <1>4 DEF MAX_REQUEST, wrap
<1> QED
  BY <1>1, <1>2, <1>3, <1>5, RequestsAssumption

\* A number is a multiple of another if nothing is left over.
LEMMA Quotient ==
  ASSUME NEW n \in Nat, NEW a \in Nat \ {0}
  PROVE  /\ n % a = 0 => \E k \in Nat : n = a * k
         /\ \A k \in Nat : n = a * k => n % a = 0
<1>1. ASSUME n % a = 0 PROVE n = a * (n \div a)
  BY <1>1
<1>2. n % a = 0 => \E k \in Nat : n = a * k
  BY <1>1
<1>3. \A k \in Nat : (a * k) % a = 0
  OBVIOUS
<1> QED
  BY <1>2, <1>3

\* The chunk of a request holds it and the overhead, and is aligned.
LEMMA ChunkOfRequest ==
  ASSUME NEW r \in Nat, r < MAX_REQUEST
  PROVE  /\ request2size(r) \in Nat /\ request2size(r) % MALLOC_ALIGNMENT = 0
         /\ request2size(r) >= MIN_CHUNK_SIZE
         /\ request2size(r) >= r + CHUNK_OVERHEAD
         /\ \/ request2size(r) = MIN_CHUNK_SIZE
            \/ request2size(r) < r + CHUNK_OVERHEAD + MALLOC_ALIGNMENT
<1>1. CASE r < MIN_REQUEST
  BY <1>1, RequestConstants DEF request2size
<1>2. CASE ~ (r < MIN_REQUEST)
  <2> DEFINE n == r + CHUNK_OVERHEAD
  <2>1. /\ n \in Nat /\ MALLOC_ALIGNMENT \in Nat \ {0} /\ n + MALLOC_ALIGNMENT - 1 <= MAX_SIZE_T
        /\ n >= MIN_CHUNK_SIZE - 1
    BY <1>2, RequestConstants, MaxRequest, RequestsAssumption
  <2>2. request2size(r) = up(n, MALLOC_ALIGNMENT)
    BY <1>2 DEF request2size, pad_request
  <2> HIDE DEF n
  <2>3. /\ request2size(r) \in Nat /\ request2size(r) % MALLOC_ALIGNMENT = 0
        /\ n <= request2size(r) /\ request2size(r) < n + MALLOC_ALIGNMENT
    BY <2>1, <2>2, Up
  <2>4. request2size(r) >= MIN_CHUNK_SIZE
    BY <2>1, <2>3, RequestConstants
  <2> QED
    BY <2>3, <2>4 DEF n
<1> QED
  BY <1>1, <1>2, RequestConstants

\* A product that dividing does not find wrapped is the product.
LEMMA ProductFits ==
  ASSUME NEW n \in 0..MAX_SIZE_T, NEW e \in 0..MAX_SIZE_T
  PROVE  Product(n, e) \in 0..MAX_SIZE_T /\ (Product(n, e) = MAX_SIZE_T \/ Product(n, e) >= n * e)
<1>1. /\ MAX_SIZE_T \in Nat /\ HALF_WORD \in Nat /\ HALF_WORD * HALF_WORD <= MAX_SIZE_T
  BY RequestsAssumption
<1>2. PICK x \in Nat : x = n * e
  BY <1>1
<1>3. /\ wrap(x) \in 0..MAX_SIZE_T /\ wrap(x) <= x
      /\ x <= MAX_SIZE_T => wrap(x) = x
  BY Wrap
<1>4. CASE n = 0
  <2>1. x = 0
    BY <1>1, <1>2, <1>4
  <2> QED
    BY <1>1, <1>2, <1>3, <1>4, <2>1 DEF Product
<1>5. CASE n <= HALF_WORD /\ e <= HALF_WORD
  <2>1. x <= HALF_WORD * HALF_WORD
    <3>1. n * e <= HALF_WORD * e /\ HALF_WORD * e <= HALF_WORD * HALF_WORD
      BY <1>1, <1>5
    <3> QED
      BY <3>1, <1>1, <1>2
  <2>2. wrap(x) = x
    BY <1>1, <1>3, <2>1
  <2> QED
    BY <1>1, <1>2, <1>3, <1>5, <2>2 DEF Product
<1>6. CASE n # 0 /\ wrap(x) \div n # e
  BY <1>1, <1>2, <1>3, <1>5, <1>6 DEF Product
<1>7. CASE n # 0 /\ wrap(x) \div n = e
  <2>1. PICK w \in Nat : w = wrap(x)
    BY <1>3
  <2>2. w >= n * (w \div n)
    BY <1>7, <2>1
  <2> QED
    BY <1>1, <1>2, <1>3, <1>7, <2>1, <2>2 DEF Product
<1> QED
  BY <1>4, <1>6, <1>7

-----------------------------------------------------------------------------
(* Powers of two                                                             *)

\* A small power of two divides every one that is not smaller.
LEMMA Divides ==
  ASSUME NEW a \in Nat, IsPowerOf2(a), NEW k \in {1, 2, 4, 8, 16, 32}, a >= k
  PROVE  a % k = 0
<1>0. a > 0 /\ \A d \in 2..a : a % d = 0 => d % 2 = 0
  BY DEF IsPowerOf2
<1>1. ASSUME a >= 2 PROVE a % 2 = 0
  <2>1. a \in 2..a /\ a % a = 0
    BY <1>1
  <2> QED
    BY <2>1, <1>0
<1>2. ASSUME NEW j \in {2, 4, 8, 16}, a % j = 0, a >= 2 * j PROVE a % (2 * j) = 0
  <2>1. PICK h \in Nat : a = j * h
    BY <1>2
  <2>2. h \in 2..a /\ a % h = 0
    BY <2>1, <1>2
  <2>3. h % 2 = 0
    BY <2>2, <1>0
  <2>4. PICK i \in Nat : h = 2 * i
    BY <2>3
  <2>5. a = (2 * j) * i
    BY <2>1, <2>4
  <2> QED
    BY <2>5
<1>3. /\ a >= 4 => a % 4 = 0
      /\ a >= 8 => a % 8 = 0
      /\ a >= 16 => a % 16 = 0
      /\ a >= 32 => a % 32 = 0
  BY <1>1, <1>2
<1> QED
  BY <1>1, <1>3

LEMMA SmallPowers == \A k \in {1, 2, 4, 8, 16, 32} : IsPowerOf2(k)
<1>1. \A d \in 2..32 : 32 % d = 0 => d % 2 = 0
  OBVIOUS
<1>2. \A k \in {1, 2, 4, 8, 16} : \A d \in 2..k : k % d = 0 => d % 2 = 0
  OBVIOUS
<1> QED
  BY <1>1, <1>2 DEF IsPowerOf2

\* One of them lies between a small number and its double.
LEMMA SmallPowerAbove ==
  ASSUME NEW n \in 1..32
  PROVE  \E k \in {1, 2, 4, 8, 16, 32} : n <= k /\ k < 2 * n
OBVIOUS

\* Doubling keeps a power of two one.
LEMMA DoubledPower ==
  ASSUME NEW a \in Nat, IsPowerOf2(a)
  PROVE  IsPowerOf2(2 * a)
<1>0. a > 0 /\ \A d \in 2..a : a % d = 0 => d % 2 = 0
  BY DEF IsPowerOf2
<1>1. ASSUME NEW d \in 2..(2 * a), (2 * a) % d = 0, d % 2 # 0 PROVE FALSE
  <2>1. PICK k \in Nat : 2 * a = d * k
    BY <1>1
  <2>2. PICK e \in Nat : d = 2 * e + 1
    BY <1>1
  <2>3. PICK h \in Int : h = a - e * k
    BY <2>1
  <2>4. k = 2 * h
    BY <2>1, <2>2, <2>3
  <2>5. a = d * h
    BY <2>1, <2>4
  <2>6. h > 0
    <3>1. h >= 0
      BY <2>4
    <3>2. h = 0 => a = 0
      BY <2>5
    <3> QED
      BY <3>1, <3>2, <1>0
  <2>7. d <= a /\ a % d = 0
    BY <2>5, <2>6
  <2> QED
    BY <1>0, <1>1, <2>7
<1> QED
  BY <1>0, <1>1 DEF IsPowerOf2

\* A power of two below half of another that divides it: its double divides it too.
LEMMA DoubledDivides ==
  ASSUME NEW m \in Nat, IsPowerOf2(m), NEW a \in Nat \ {0}, m % a = 0, 2 * a < m
  PROVE  m % (2 * a) = 0 /\ 4 * a <= m
<1>1. PICK k \in Nat : m = a * k
  OBVIOUS
<1>2. k \in 2..m /\ m % k = 0
  BY <1>1
<1>3. k % 2 = 0
  BY <1>2 DEF IsPowerOf2
<1>4. PICK i \in Nat : k = 2 * i
  BY <1>3
<1>5. m = (2 * a) * i /\ i >= 2
  <2>1. m = (2 * a) * i
    BY <1>1, <1>4
  <2>2. i # 0 /\ i # 1
    BY <2>1
  <2> QED
    BY <2>1, <2>2
<1>6. PICK b \in Nat \ {0} : b = 2 * a
  OBVIOUS
<1>7. m = b * i
  BY <1>5, <1>6
<1>8. m % b = 0 /\ 2 * b <= m
  BY <1>5, <1>7
<1> QED
  BY <1>6, <1>8

-----------------------------------------------------------------------------
(* The invariant                                                             *)

Functions == {"calloc", "memalign", "posix_memalign", "valloc", "pvalloc"}

RequestTypes ==
  /\ pc \in {"idle", "double", "size", "malloc", "lead", "block", "null"}
  /\ pc \notin {"idle", "null"} =>
       /\ fn \in Functions /\ arg \in 0..MAX_SIZE_T /\ bytes \in 0..MAX_SIZE_T
       /\ fn # "calloc" => 2 * arg <= MAX_SIZE_T + 1
       /\ align \in Nat /\ req \in 0..MAX_SIZE_T
  /\ pc \in {"lead", "block"} => p \in Nat /\ p % MALLOC_ALIGNMENT = 0
  /\ pc # "block" => lead = 0

\* dlmalloc serves the call as it is.
Direct ==
  /\ align = MALLOC_ALIGNMENT
  /\ fn # "calloc" => arg <= MALLOC_ALIGNMENT

\* internal_memalign works with a power of two on the way to the alignment asked for,
\* never twice of it.
Climbing ==
  /\ fn # "calloc" /\ IsPowerOf2(align) /\ align >= MIN_CHUNK_SIZE
  /\ align < 2 * Raised(arg) /\ 2 * align <= MAX_SIZE_T + 1
Reached == Climbing /\ align >= Raised(arg)

\* What dlmalloc is asked for has a chunk for the block, the alignment and one chunk more.
ChunkWanted == req + CHUNK_OVERHEAD - align - MIN_CHUNK_SIZE
PaddedEnough ==
  /\ ChunkWanted \in Nat /\ ChunkWanted >= MIN_CHUNK_SIZE
  /\ ChunkWanted % MALLOC_ALIGNMENT = 0
  /\ ChunkWanted >= Promised + CHUNK_OVERHEAD

\* Where a call is, and what it has secured so far.
RequestsInv ==
  /\ RequestTypes
  /\ pc = "double" => Climbing /\ (MAX_SIZE_T + 1) % align = 0 /\ req >= Promised
  /\ pc = "size" => Reached /\ req >= Promised
  /\ pc = "malloc" =>
       \/ Direct /\ (req = MAX_SIZE_T \/ req >= Promised)
       \/ Reached /\ PaddedEnough
  /\ pc = "lead" =>
       /\ Reached /\ PaddedEnough
       /\ size \in Nat /\ size % MALLOC_ALIGNMENT = 0
       /\ size >= req + CHUNK_OVERHEAD /\ p + size <= MAX_SIZE_T + 1
  /\ pc = "block" =>
       /\ Direct \/ (Reached /\ chunk2mem(p) % align = 0)
       /\ size \in Nat /\ size % MALLOC_ALIGNMENT = 0 /\ size >= MIN_CHUNK_SIZE
       /\ size >= Promised + CHUNK_OVERHEAD
       /\ lead = 0 \/ lead >= MIN_CHUNK_SIZE

-----------------------------------------------------------------------------
(* The steps of a call                                                       *)

\* The promise depends on the call only.
LEMMA PromiseKept ==
  ASSUME UNCHANGED <<fn, arg, bytes>>
  PROVE  Promised' = Promised /\ Raised(arg)' = Raised(arg)
BY DEF Promised, Raised

\* internal_memalign begins with the alignment itself or with the smallest chunk.
LEMMA Begun ==
  ASSUME NEW a \in 0..MAX_SIZE_T, 2 * a <= MAX_SIZE_T + 1, a > 0, StartMemalign(a),
         arg' = a, fn' # "calloc"
  PROVE  /\ align' \in Nat /\ Climbing'
         /\ \/ pc' = "size" /\ Reached'
            \/ pc' = "double" /\ (MAX_SIZE_T + 1) % align' = 0
<1>0. PICK m \in Nat : m = MAX_SIZE_T + 1 /\ IsPowerOf2(m) /\ 8 * MIN_CHUNK_SIZE <= m
  BY RequestsAssumption, RequestConstants
<1>1. /\ MIN_CHUNK_SIZE \in {16, 32} /\ MIN_CHUNK_SIZE = 2 * MALLOC_ALIGNMENT
      /\ Raised(a) \in Nat /\ Raised(a) >= MIN_CHUNK_SIZE /\ Raised(a) >= a
      /\ 2 * Raised(a) <= MAX_SIZE_T + 1
  BY RequestConstants, RequestsAssumption DEF Raised
<1>2. CASE IsPowerOf2(Raised(a))
  <2>1. pc' = "size" /\ align' = Raised(a)
    BY <1>2 DEF StartMemalign
  <2> QED
    BY <1>1, <1>2, <2>1 DEF Climbing, Reached, Raised
<1>3. CASE ~ IsPowerOf2(Raised(a))
  <2>1. pc' = "double" /\ align' = MIN_CHUNK_SIZE
    BY <1>1, <1>3 DEF StartMemalign
  <2>2. IsPowerOf2(MIN_CHUNK_SIZE)
    BY <1>1, SmallPowers
  <2>3. m % MIN_CHUNK_SIZE = 0
    BY <1>0, <1>1, Divides
  <2> QED
    BY <1>0, <1>1, <2>1, <2>2, <2>3 DEF Climbing, Raised
<1> QED
  BY <1>2, <1>3

LEMMA CallStep ==
  ASSUME AlignmentsFit, PagesFit, RequestsInv, Call
  PROVE  RequestsInv'
<1>0. /\ MAX_SIZE_T \in Nat /\ page_size \in 1..MAX_SIZE_T /\ 2 * page_size <= MAX_SIZE_T + 1
      /\ MALLOC_ALIGNMENT \in Nat /\ MALLOC_ALIGNMENT > 0 /\ MALLOC_ALIGNMENT <= MAX_SIZE_T
  <2>1. 2 * page_size <= MAX_SIZE_T + 1
    BY DEF AlignmentsFit
  <2> QED
    BY <2>1, RequestsAssumption, RequestConstants
<1>1. pc = "idle" /\ UNCHANGED <<p, size, lead>> /\ lead = 0
  BY DEF Call, RequestsInv, RequestTypes
<1>2. ASSUME NEW f \in {"memalign", "posix_memalign", "valloc", "pvalloc"},
             NEW a \in 0..MAX_SIZE_T, NEW n \in 0..MAX_SIZE_T, NEW m \in 0..MAX_SIZE_T,
             2 * a <= MAX_SIZE_T + 1, fn' = f, arg' = a, bytes' = n, m >= Promised'
      PROVE  /\ Ask(m) /\ align' = MALLOC_ALIGNMENT /\ a <= MALLOC_ALIGNMENT => RequestsInv'
             /\ StartMemalign(a) /\ a > 0 /\ req' = m => RequestsInv'
  <2>1. ASSUME Ask(m), align' = MALLOC_ALIGNMENT, a <= MALLOC_ALIGNMENT PROVE RequestsInv'
    <3>1. pc' = "malloc" /\ req' = m
      BY <2>1 DEF Ask
    <3> QED
      BY <1>0, <1>1, <1>2, <2>1, <3>1 DEF RequestsInv, RequestTypes, Direct, Functions
  <2>2. ASSUME StartMemalign(a), a > 0, req' = m PROVE RequestsInv'
    <3>1. /\ align' \in Nat /\ Climbing'
          /\ \/ pc' = "size" /\ Reached'
             \/ pc' = "double" /\ (MAX_SIZE_T + 1) % align' = 0
      BY <1>2, <2>2, Begun
    <3> QED
      BY <1>0, <1>1, <1>2, <2>2, <3>1 DEF RequestsInv, RequestTypes, Functions
  <2> QED
    BY <2>1, <2>2
<1>3. ASSUME NEW f \in {"memalign", "valloc", "pvalloc"},
             NEW a \in 0..MAX_SIZE_T, NEW n \in 0..MAX_SIZE_T, NEW m \in 0..MAX_SIZE_T,
             2 * a <= MAX_SIZE_T + 1, dlmemalign(f, a, n, m), m >= Promised'
      PROVE  RequestsInv'
  <2>1. fn' = f /\ arg' = a /\ bytes' = n
    BY <1>3 DEF dlmemalign
  <2>2. \/ Ask(m) /\ align' = MALLOC_ALIGNMENT /\ a <= MALLOC_ALIGNMENT
        \/ StartMemalign(a) /\ a > 0 /\ req' = m
    BY <1>0, <1>3 DEF dlmemalign
  <2> QED
    BY <1>2, <1>3, <2>1, <2>2
<1>4. ASSUME NEW n \in Factors, NEW e \in Factors, dlcalloc(n, e) PROVE RequestsInv'
  <2>1. n \in 0..MAX_SIZE_T /\ e \in 0..MAX_SIZE_T
    BY RequestsAssumption
  <2>2. /\ fn' = "calloc" /\ arg' = e /\ bytes' = n /\ pc' = "malloc"
        /\ req' = Product(n, e) /\ align' = MALLOC_ALIGNMENT
    BY <1>4 DEF dlcalloc, Ask
  <2>3. Promised' = n * e
    BY <2>2 DEF Promised
  <2>4. req' \in 0..MAX_SIZE_T /\ (req' = MAX_SIZE_T \/ req' >= Promised')
    BY <2>1, <2>2, <2>3, ProductFits
  <2> QED
    BY <1>0, <1>1, <2>1, <2>2, <2>4 DEF RequestsInv, RequestTypes, Direct, Functions
<1>5. ASSUME NEW a \in Alignments, NEW n \in Bytes, dlmemalign("memalign", a, n, n)
      PROVE  RequestsInv'
  <2>1. a \in 0..MAX_SIZE_T /\ n \in 0..MAX_SIZE_T /\ 2 * a <= MAX_SIZE_T + 1
    BY RequestsAssumption DEF AlignmentsFit
  <2>2. Promised' = n
    BY <1>5 DEF dlmemalign, Promised
  <2> QED
    BY <1>3, <1>5, <2>1, <2>2
<1>6. ASSUME NEW a \in Alignments, NEW n \in Bytes, dlposix_memalign(a, n)
      PROVE  RequestsInv'
  <2>1. a \in 0..MAX_SIZE_T /\ n \in 0..MAX_SIZE_T /\ 2 * a <= MAX_SIZE_T + 1
    BY RequestsAssumption DEF AlignmentsFit
  <2>2. fn' = "posix_memalign" /\ arg' = a /\ bytes' = n
    BY <1>6 DEF dlposix_memalign
  <2>3. Promised' = n
    BY <2>2 DEF Promised
  <2>4. CASE a = MALLOC_ALIGNMENT /\ Ask(n) /\ align' = a
    BY <1>0, <1>2, <2>1, <2>2, <2>3, <2>4
  <2>5. CASE Refuse
    BY <1>1, <2>5 DEF Refuse, RequestsInv, RequestTypes
  <2>6. CASE a # MALLOC_ALIGNMENT /\ IsPowerOf2(a \div SIZE_T_SIZE) /\ StartMemalign(a) /\ req' = n
    <3>1. a > 0
      <4>1. a = 0 => a \div SIZE_T_SIZE = 0
        BY RequestConstants
      <4> QED
        BY <2>1, <2>6, <4>1 DEF IsPowerOf2
    <3> QED
      BY <1>2, <2>1, <2>2, <2>3, <2>6, <3>1
  <2> QED
    BY <1>6, <2>4, <2>5, <2>6 DEF dlposix_memalign
<1>7. ASSUME NEW n \in Bytes, dlvalloc(n) PROVE RequestsInv'
  <2>1. n \in 0..MAX_SIZE_T /\ dlmemalign("valloc", page_size, n, n)
    BY <1>7, RequestsAssumption DEF dlvalloc
  <2>2. Promised' = n
    BY <2>1 DEF dlmemalign, Promised
  <2> QED
    BY <1>0, <1>3, <2>1, <2>2
<1>8. ASSUME NEW n \in Bytes, dlpvalloc(n) PROVE RequestsInv'
  <2>1. /\ n \in 0..MAX_SIZE_T /\ n + page_size - 1 <= MAX_SIZE_T
        /\ dlmemalign("pvalloc", page_size, n, up(n, page_size))
    BY <1>0, <1>8, RequestsAssumption DEF dlpvalloc, PagesFit
  <2>2. /\ up(n, page_size) \in Nat
        /\ up(n, page_size) = ((n + page_size - 1) \div page_size) * page_size
    BY <1>0, <2>1, Up
  <2>3. Promised' = up(n, page_size)
    BY <2>1, <2>2 DEF dlmemalign, Promised
  <2>4. up(n, page_size) <= MAX_SIZE_T
    BY <1>0, <2>1, <2>2
  <2> QED
    BY <1>0, <1>3, <2>1, <2>2, <2>3, <2>4
<1> QED
  BY <1>4, <1>5, <1>6, <1>7, <1>8 DEF Call

LEMMA RoundUpStep ==
  ASSUME RequestsInv, RoundUp
  PROVE  RequestsInv'
<1>0. PICK m \in Nat : m = MAX_SIZE_T + 1 /\ IsPowerOf2(m)
  BY RequestsAssumption
<1>1. /\ pc = "double" /\ UNCHANGED <<fn, arg, bytes, req, p, size, lead>>
      /\ RequestTypes /\ Climbing /\ m % align = 0 /\ req >= Promised
      /\ align \in Nat /\ arg \in 0..MAX_SIZE_T /\ 2 * arg <= m
  BY <1>0 DEF RoundUp, RequestsInv, RequestTypes, Climbing
<1>2. Promised' = Promised /\ Raised(arg)' = Raised(arg)
  BY <1>1, PromiseKept
<1>3. MIN_CHUNK_SIZE \in {16, 32} /\ 8 * MIN_CHUNK_SIZE <= m /\ align > 0
  BY <1>0, <1>1, RequestConstants, RequestsAssumption DEF Climbing
<1>4. Raised(arg) \in Nat /\ 2 * Raised(arg) <= m
  BY <1>1, <1>3 DEF Raised
<1>5. CASE align < Raised(arg)
  <2>1. align' = Doubled /\ pc' = pc
    BY <1>5 DEF RoundUp
  <2>2. 2 * align <= MAX_SIZE_T
    BY <1>0, <1>1, <1>4, <1>5, RequestsAssumption
  <2>3. align' = 2 * align
    BY <1>1, <2>1, <2>2, Wrap DEF Doubled
  <2>4. 2 * align < m
    BY <1>0, <1>1, <2>2, RequestsAssumption
  <2>5. m % (2 * align) = 0 /\ 4 * align <= m
    BY <1>0, <1>1, <1>3, <2>4, DoubledDivides
  <2>6. IsPowerOf2(2 * align)
    BY <1>1, DoubledPower DEF Climbing
  <2>7. Climbing'
    BY <1>0, <1>1, <1>2, <1>3, <1>4, <1>5, <2>3, <2>5, <2>6 DEF Climbing
  <2> QED
    BY <1>0, <1>1, <1>2, <2>1, <2>3, <2>5, <2>7 DEF RequestsInv, RequestTypes
<1>6. CASE ~ (align < Raised(arg))
  <2>1. pc' = "size" /\ align' = align
    BY <1>6 DEF RoundUp
  <2>2. Reached'
    BY <1>1, <1>2, <1>4, <1>6, <2>1 DEF Reached, Climbing
  <2> QED
    BY <1>0, <1>1, <1>2, <2>1, <2>2 DEF RequestsInv, RequestTypes
<1> QED
  BY <1>5, <1>6

LEMMA PadStep ==
  ASSUME RequestsInv, Pad
  PROVE  RequestsInv'
<1>0. PICK m \in Nat : m = MAX_SIZE_T + 1
  BY RequestsAssumption
<1>1. /\ pc = "size" /\ UNCHANGED <<fn, arg, bytes, align, p, size, lead>>
      /\ RequestTypes /\ Reached /\ req >= Promised
      /\ align \in Nat /\ req \in 0..MAX_SIZE_T /\ lead = 0
  BY DEF Pad, RequestsInv, RequestTypes
<1>2. Promised' = Promised /\ Raised(arg)' = Raised(arg)
  BY <1>1, PromiseKept
<1>3. Reached'
  BY <1>1, <1>2 DEF Reached, Climbing
<1>4. CASE Refuse
  BY <1>1, <1>4 DEF Refuse, RequestsInv, RequestTypes
<1>5. CASE ~ (req >= wrap(MAX_REQUEST - align)) /\ Ask(wrap(Padded(req)))
  <2> DEFINE nb == request2size(req)
  <2>1. /\ MALLOC_ALIGNMENT \in Nat \ {0} /\ MIN_CHUNK_SIZE = 2 * MALLOC_ALIGNMENT
        /\ CHUNK_OVERHEAD \in Nat /\ 2 * CHUNK_OVERHEAD = MALLOC_ALIGNMENT
        /\ m >= 16 * MALLOC_ALIGNMENT /\ MAX_REQUEST = m - 8 * MALLOC_ALIGNMENT
        /\ 2 * align <= m
    BY <1>0, <1>1, RequestConstants, MaxRequest, RequestsAssumption DEF Reached, Climbing
  <2>2. MAX_REQUEST - align \in Nat /\ MAX_REQUEST - align <= MAX_SIZE_T
    <3>1. PICK a \in Nat \ {0}, b \in Nat, x \in Int :
            a = MALLOC_ALIGNMENT /\ b = align /\ x = MAX_REQUEST /\ MAX_SIZE_T = m - 1
      BY <1>0, <1>1, <2>1, RequestsAssumption
    <3>2. m >= 16 * a /\ x = m - 8 * a /\ 2 * b <= m
      BY <2>1, <3>1
    <3>3. x - b \in Nat /\ x - b <= m - 1
      BY <3>2
    <3> QED
      BY <3>1, <3>3
  <2>3. req + align < MAX_REQUEST
    BY <1>1, <1>5, <2>1, <2>2, Wrap
  <2>4. /\ nb \in Nat /\ nb % MALLOC_ALIGNMENT = 0 /\ nb >= MIN_CHUNK_SIZE
        /\ nb >= req + CHUNK_OVERHEAD
        /\ nb = MIN_CHUNK_SIZE \/ nb < req + CHUNK_OVERHEAD + MALLOC_ALIGNMENT
    <3>1. req < MAX_REQUEST
      BY <1>1, <2>1, <2>3
    <3> QED
      BY <1>1, <3>1, ChunkOfRequest
  <2>5. Padded(req) = nb + align + MIN_CHUNK_SIZE - CHUNK_OVERHEAD
    BY DEF Padded
  <2> HIDE DEF nb
  <2>6. Padded(req) \in 0..MAX_SIZE_T
    BY <1>0, <1>1, <2>1, <2>3, <2>4, <2>5, RequestsAssumption
  <2>7. pc' = "malloc" /\ req' = nb + align + MIN_CHUNK_SIZE - CHUNK_OVERHEAD /\ req' \in 0..MAX_SIZE_T
    BY <1>5, <2>5, <2>6, Wrap DEF Ask
  <2>8. ChunkWanted' = nb
    BY <1>1, <2>1, <2>4, <2>7 DEF ChunkWanted
  <2>9. Promised' + CHUNK_OVERHEAD <= nb
    <3>1. Promised \in Int
      BY <1>1, RequestsAssumption DEF Promised, RequestTypes
    <3> QED
      BY <1>1, <1>2, <2>1, <2>4, <3>1
  <2>10. PaddedEnough'
    BY <2>4, <2>8, <2>9 DEF PaddedEnough
  <2> QED
    BY <1>1, <1>3, <2>7, <2>10 DEF RequestsInv, RequestTypes
<1> QED
  BY <1>4, <1>5 DEF Pad

LEMMA MallocStep ==
  ASSUME RequestsInv, Malloc
  PROVE  RequestsInv'
<1>1. /\ pc = "malloc" /\ UNCHANGED <<fn, arg, bytes, align, req, lead>>
      /\ RequestTypes /\ align \in Nat /\ req \in 0..MAX_SIZE_T /\ lead = 0
  BY DEF Malloc, RequestsInv, RequestTypes
<1>2. Promised' = Promised /\ Raised(arg)' = Raised(arg) /\ Promised \in Int
  <2>1. Promised \in Int
    BY <1>1, RequestsAssumption DEF Promised, RequestTypes
  <2> QED
    BY <1>1, <2>1, PromiseKept
<1>3. CASE pc' = "null"
  BY <1>1, <1>3 DEF RequestsInv, RequestTypes
<1>4. CASE pc' # "null"
  <2>1. /\ req < MAX_REQUEST /\ p' \in Places
        /\ size' \in {request2size(req), request2size(req) + MALLOC_ALIGNMENT}
        /\ p' + size' <= MAX_SIZE_T + 1
        /\ pc' = IF align > MALLOC_ALIGNMENT THEN "lead" ELSE "block"
    BY <1>4 DEF Malloc
  <2>2. p' \in Nat /\ p' % MALLOC_ALIGNMENT = 0
    BY <2>1, RequestsAssumption DEF MALLOC_ALIGNMENT
  <2>3. /\ MALLOC_ALIGNMENT \in {8, 16} /\ MIN_CHUNK_SIZE = 2 * MALLOC_ALIGNMENT
        /\ CHUNK_OVERHEAD \in Nat
    BY RequestConstants
  <2>4. /\ request2size(req) \in Nat /\ request2size(req) % MALLOC_ALIGNMENT = 0
        /\ request2size(req) >= MIN_CHUNK_SIZE /\ request2size(req) >= req + CHUNK_OVERHEAD
    BY <1>1, <2>1, ChunkOfRequest
  <2>5. /\ size' \in Nat /\ size' % MALLOC_ALIGNMENT = 0 /\ size' >= MIN_CHUNK_SIZE
        /\ size' >= req + CHUNK_OVERHEAD
    BY <1>1, <2>1, <2>3, <2>4
  <2>6. CASE Direct
    <3>1. pc' = "block"
      BY <2>1, <2>3, <2>6 DEF Direct
    <3>2. Direct'
      BY <1>1, <2>6 DEF Direct
    <3>3. req >= Promised
      <4>1. req # MAX_SIZE_T
        BY <2>1, <2>3, MaxRequest, RequestsAssumption
      <4>2. ~ Reached
        BY <2>3, <2>6 DEF Direct, Reached, Climbing
      <4> QED
        BY <1>1, <4>1, <4>2 DEF RequestsInv
    <3>4. size' >= Promised' + CHUNK_OVERHEAD
      <4>1. req \in Int
        BY <1>1, RequestsAssumption
      <4>2. req + CHUNK_OVERHEAD >= Promised + CHUNK_OVERHEAD
        BY <1>2, <2>3, <3>3, <4>1
      <4> QED
        BY <1>2, <2>3, <2>5, <4>1, <4>2
    <3> QED
      BY <1>1, <2>2, <2>5, <3>1, <3>2, <3>4 DEF RequestsInv, RequestTypes
  <2>7. CASE Reached /\ PaddedEnough
    <3>1. pc' = "lead"
      BY <1>1, <2>1, <2>3, <2>7 DEF Reached, Climbing
    <3>2. Reached'
      BY <1>1, <1>2, <2>7 DEF Reached, Climbing
    <3>3. PaddedEnough'
      BY <1>1, <1>2, <2>7 DEF PaddedEnough, ChunkWanted
    <3> QED
      BY <1>1, <2>1, <2>2, <2>5, <3>1, <3>2, <3>3 DEF RequestsInv, RequestTypes
  <2> QED
    BY <1>1, <2>6, <2>7 DEF RequestsInv
<1> QED
  BY <1>3, <1>4

\* The first aligned place with nothing, or a chunk, in front of it is near.
LEMMA PlaceNear ==
  ASSUME NEW q \in Nat, q % MALLOC_ALIGNMENT = 0, align \in Nat, IsPowerOf2(align),
         align >= MIN_CHUNK_SIZE, q + MALLOC_ALIGNMENT + align - 1 <= MAX_SIZE_T
  PROVE  /\ AlignedPlace(q) \in Nat /\ AlignedPlace(q) >= q
         /\ AlignedPlace(q) - q < align + MIN_CHUNK_SIZE
         /\ AlignedPlace(q) - q = 0 \/ AlignedPlace(q) - q >= MIN_CHUNK_SIZE
         /\ AlignedPlace(q) % MALLOC_ALIGNMENT = 0
         /\ chunk2mem(AlignedPlace(q)) % align = 0
<1> DEFINE mem == q + MALLOC_ALIGNMENT
<1>1. /\ MALLOC_ALIGNMENT \in {8, 16} /\ MIN_CHUNK_SIZE = 2 * MALLOC_ALIGNMENT
      /\ 2 * SIZE_T_SIZE = MALLOC_ALIGNMENT
  BY RequestConstants
<1>2. chunk2mem(q) = mem /\ mem \in Nat /\ \A n : mem2chunk(n) = n - MALLOC_ALIGNMENT
  BY <1>1 DEF chunk2mem, mem2chunk
<1>3. align \in Nat \ {0} /\ align % MALLOC_ALIGNMENT = 0
  BY <1>1, Divides
<1>4. mem + align - 1 <= MAX_SIZE_T
  BY DEF chunk2mem
<1> HIDE DEF mem
<1>5. PICK u \in Nat : u = up(mem, align) /\ u % align = 0 /\ mem <= u /\ u < mem + align
  BY <1>2, <1>3, <1>4, Up
<1>6. PICK r \in Nat : align = MALLOC_ALIGNMENT * r
  BY <1>1, <1>3
<1>7. PICK k \in Nat : u = align * k
  BY <1>3, <1>5, Quotient
<1>8. u % MALLOC_ALIGNMENT = 0 /\ (u + align) % MALLOC_ALIGNMENT = 0 /\ (u + align) % align = 0
  <2>1. u = MALLOC_ALIGNMENT * (r * k) /\ r * k \in Nat
    BY <1>1, <1>6, <1>7
  <2>2. PICK i \in Nat : i = r * k
    BY <2>1
  <2>3. u % MALLOC_ALIGNMENT = 0
    BY <1>1, <2>1, <2>2
  <2>4. (u + align) % MALLOC_ALIGNMENT = 0
    BY <1>1, <1>3, <2>3
  <2>5. (u + align) % align = 0
    <3>1. PICK n \in Nat : n = k + 1
      BY <1>7
    <3>2. u + align = align * n
      BY <1>3, <1>7, <3>1
    <3> QED
      BY <1>3, <1>5, <3>2, Quotient
  <2> QED
    BY <2>3, <2>4, <2>5
<1>9. PICK br \in Int : br = mem2chunk(up(chunk2mem(q), align)) /\ br = u - MALLOC_ALIGNMENT
  BY <1>1, <1>2, <1>5
<1>10. q <= br /\ br < q + align
  BY <1>1, <1>5, <1>9 DEF mem
<1>11. CASE chunk2mem(q) % align = 0
  BY <1>1, <1>3, <1>11 DEF AlignedPlace
<1>12. CASE chunk2mem(q) % align # 0 /\ br - q >= MIN_CHUNK_SIZE
  <2>1. AlignedPlace(q) = br
    BY <1>9, <1>12 DEF AlignedPlace
  <2>2. chunk2mem(br) = u
    BY <1>1, <1>9 DEF chunk2mem
  <2> QED
    BY <1>1, <1>3, <1>5, <1>8, <1>9, <1>10, <1>12, <2>1, <2>2
<1>13. CASE chunk2mem(q) % align # 0 /\ ~ (br - q >= MIN_CHUNK_SIZE)
  <2>1. AlignedPlace(q) = br + align
    BY <1>9, <1>13 DEF AlignedPlace
  <2>2. chunk2mem(br + align) = u + align
    BY <1>1, <1>3, <1>9 DEF chunk2mem
  <2> QED
    BY <1>1, <1>3, <1>5, <1>8, <1>9, <1>10, <1>13, <2>1, <2>2
<1> QED
  BY <1>11, <1>12, <1>13

LEMMA PlaceStep ==
  ASSUME RequestsInv, Place
  PROVE  RequestsInv'
<1>0. PICK m \in Nat : m = MAX_SIZE_T + 1 /\ MAX_SIZE_T = m - 1
  BY RequestsAssumption
<1>1. /\ pc = "lead" /\ UNCHANGED <<fn, arg, bytes, align, req>>
      /\ lead' = AlignedPlace(p) - p /\ p' = AlignedPlace(p) /\ pc' = "block"
  BY DEF Place
<1>2. /\ RequestTypes /\ Reached /\ PaddedEnough
      /\ align \in Nat /\ p \in Nat /\ p % MALLOC_ALIGNMENT = 0
      /\ size \in Nat /\ size % MALLOC_ALIGNMENT = 0
      /\ size >= req + CHUNK_OVERHEAD /\ p + size <= m
  BY <1>0, <1>1 DEF RequestsInv, RequestTypes
<1>3. req \in Nat /\ req < m
  BY <1>0, <1>1, <1>2 DEF RequestTypes
<1>4. /\ MALLOC_ALIGNMENT \in {8, 16} /\ MIN_CHUNK_SIZE = 2 * MALLOC_ALIGNMENT
      /\ CHUNK_OVERHEAD \in Nat /\ 2 * CHUNK_OVERHEAD = MALLOC_ALIGNMENT
  BY RequestConstants
<1>5. PICK nb \in Nat :
        /\ nb = req + CHUNK_OVERHEAD - align - MIN_CHUNK_SIZE
        /\ nb >= MIN_CHUNK_SIZE /\ nb % MALLOC_ALIGNMENT = 0 /\ nb >= Promised + CHUNK_OVERHEAD
  BY <1>2 DEF PaddedEnough, ChunkWanted
<1>6. Wanted = nb
  <2>1. nb <= MAX_SIZE_T
    BY <1>0, <1>2, <1>3, <1>4, <1>5
  <2> QED
    BY <1>5, <2>1, Wrap DEF Wanted
<1>7. IsPowerOf2(align) /\ align >= MIN_CHUNK_SIZE
  BY <1>2 DEF Reached, Climbing
<1>8. PICK l \in Nat :
        /\ l = AlignedPlace(p) - p /\ l < align + MIN_CHUNK_SIZE
        /\ l = 0 \/ l >= MIN_CHUNK_SIZE
        /\ l % MALLOC_ALIGNMENT = 0
        /\ AlignedPlace(p) \in Nat /\ AlignedPlace(p) % MALLOC_ALIGNMENT = 0
        /\ chunk2mem(AlignedPlace(p)) % align = 0
  <2>1. p + MALLOC_ALIGNMENT + align - 1 <= MAX_SIZE_T
    BY <1>0, <1>2, <1>3, <1>4, <1>5
  <2>2. /\ AlignedPlace(p) \in Nat /\ AlignedPlace(p) >= p
        /\ AlignedPlace(p) - p < align + MIN_CHUNK_SIZE
        /\ AlignedPlace(p) - p = 0 \/ AlignedPlace(p) - p >= MIN_CHUNK_SIZE
        /\ AlignedPlace(p) % MALLOC_ALIGNMENT = 0
        /\ chunk2mem(AlignedPlace(p)) % align = 0
    BY <1>2, <1>7, <2>1, PlaceNear
  <2>3. (AlignedPlace(p) - p) % MALLOC_ALIGNMENT = 0
    BY <1>2, <1>4, <2>2
  <2> QED
    BY <1>2, <2>2, <2>3
<1>9. PICK rest \in Nat : rest = size - l /\ rest > nb /\ rest % MALLOC_ALIGNMENT = 0
  <2>1. size - l > nb
    <3>1. PICK o \in Nat, c \in Nat : o = CHUNK_OVERHEAD /\ c = MIN_CHUNK_SIZE
      BY <1>4
    <3>2. size >= req + o /\ l < align + c /\ nb = req + o - align - c
      BY <1>2, <1>5, <1>8, <3>1
    <3> QED
      BY <1>2, <1>3, <1>5, <1>8, <3>1, <3>2
  <2>2. (size - l) % MALLOC_ALIGNMENT = 0
    BY <1>2, <1>4, <1>8
  <2> QED
    BY <1>2, <1>5, <1>8, <2>1, <2>2
<1>10. PICK s \in {nb, rest} : s = size'
  <2>1. lead' = l
    BY <1>1, <1>8
  <2> QED
    BY <1>6, <1>9, <2>1 DEF Place
<1>11. s \in Nat /\ s % MALLOC_ALIGNMENT = 0 /\ s >= MIN_CHUNK_SIZE /\ s >= nb
  <2>1. MIN_CHUNK_SIZE \in Nat /\ nb >= MIN_CHUNK_SIZE /\ rest > nb /\ nb \in Nat /\ rest \in Nat
    BY <1>4, <1>5, <1>9
  <2>2. s >= MIN_CHUNK_SIZE /\ s >= nb /\ s \in Nat
    BY <1>10, <2>1
  <2> QED
    BY <1>5, <1>9, <1>10, <2>2
<1>12. Promised' = Promised /\ Raised(arg)' = Raised(arg) /\ Promised \in Int
  <2>1. Promised \in Int
    BY <1>1, <1>2, RequestsAssumption DEF Promised, RequestTypes
  <2> QED
    BY <1>1, <2>1, PromiseKept
<1>13. Reached'
  BY <1>1, <1>2, <1>12 DEF Reached, Climbing
<1>14. s >= Promised + CHUNK_OVERHEAD
  <2>1. PICK o \in Int : o = CHUNK_OVERHEAD
    BY <1>4
  <2>2. nb >= Promised + o
    BY <1>5, <2>1
  <2> QED
    BY <1>5, <1>12, <1>11, <2>1, <2>2
<1>15. pc' = "block" /\ p' = AlignedPlace(p) /\ lead' = l /\ size' = s
  BY <1>1, <1>8, <1>10
<1> QED
  BY <1>1, <1>2, <1>8, <1>12, <1>13, <1>14, <1>11, <1>15 DEF RequestsInv, RequestTypes, chunk2mem

-----------------------------------------------------------------------------
(* The theorem                                                               *)

\* The invariant says of a block that it serves the call.
LEMMA InvServes ==
  ASSUME RequestsInv
  PROVE  Served /\ RoomForBlock
<1>1. CASE pc = "block"
  <2>1. /\ size >= MIN_CHUNK_SIZE /\ size % MALLOC_ALIGNMENT = 0
        /\ lead = 0 \/ lead >= MIN_CHUNK_SIZE
        /\ p \in Nat /\ p % MALLOC_ALIGNMENT = 0 /\ arg \in Nat /\ align \in Nat
    BY <1>1, RequestsAssumption DEF RequestsInv, RequestTypes
  <2>2. /\ MALLOC_ALIGNMENT \in {8, 16} /\ MIN_CHUNK_SIZE = 2 * MALLOC_ALIGNMENT
        /\ 2 * SIZE_T_SIZE = MALLOC_ALIGNMENT /\ CHUNK_OVERHEAD \in Nat
    BY RequestConstants
  <2>3. size - CHUNK_OVERHEAD >= Promised
    <3>1. Promised \in Int /\ size \in Int
      BY <1>1, RequestsAssumption DEF Promised, RequestsInv, RequestTypes
    <3>2. size >= Promised + CHUNK_OVERHEAD
      BY <1>1 DEF RequestsInv
    <3> QED
      BY <2>2, <3>1, <3>2
  <2>4. PICK mem \in Nat : mem = chunk2mem(p) /\ mem % MALLOC_ALIGNMENT = 0
    BY <2>1, <2>2 DEF chunk2mem
  <2>5. ASSUME fn # "calloc", arg > 0
        PROVE  \E a \in arg..(2 * arg - 1) : IsPowerOf2(a) /\ mem % a = 0
    <3>1. CASE Direct
      <4>1. arg \in 1..32 /\ arg <= MALLOC_ALIGNMENT
        BY <2>1, <2>2, <2>5, <3>1 DEF Direct
      <4>2. PICK k \in {1, 2, 4, 8, 16, 32} : arg <= k /\ k < 2 * arg
        BY <4>1, SmallPowerAbove
      <4>3. k <= MALLOC_ALIGNMENT
        BY <2>2, <4>1, <4>2
      <4>4. mem % k = 0
        BY <2>2, <2>4, <4>2, <4>3
      <4>5. IsPowerOf2(k) /\ k \in arg..(2 * arg - 1)
        BY <2>1, <4>2, SmallPowers
      <4> QED
        BY <4>4, <4>5
    <3>2. CASE Reached /\ mem % align = 0
      <4>1. /\ IsPowerOf2(align) /\ align >= Raised(arg) /\ align < 2 * Raised(arg)
            /\ align >= MIN_CHUNK_SIZE
        BY <3>2 DEF Reached, Climbing
      <4>2. CASE arg >= MIN_CHUNK_SIZE
        BY <2>1, <2>2, <3>2, <4>1, <4>2 DEF Raised
      <4>3. CASE arg < MIN_CHUNK_SIZE
        <5>1. arg \in 1..32
          BY <2>1, <2>2, <2>5, <4>3
        <5>2. PICK k \in {1, 2, 4, 8, 16, 32} : arg <= k /\ k < 2 * arg
          BY <5>1, SmallPowerAbove
        <5>3. k <= MIN_CHUNK_SIZE
          BY <2>2, <4>3, <5>1, <5>2
        <5>4. align % k = 0
          BY <2>1, <2>2, <4>1, <5>2, <5>3, Divides
        <5>5. PICK i \in Nat : align = k * i
          <6>1. k \in Nat \ {0} /\ align \in Nat
            BY <2>1
          <6> QED
            BY <5>4, <6>1, Quotient
        <5>6. PICK j \in Nat : mem = align * j
          <6>1. align \in Nat \ {0}
            BY <2>1, <2>2, <4>1
          <6> QED
            BY <3>2, <6>1, Quotient
        <5>7. mem = k * (i * j) /\ i * j \in Nat
          BY <5>2, <5>5, <5>6
        <5>8. mem % k = 0
          BY <2>4, <5>2, <5>7, Quotient
        <5>9. IsPowerOf2(k) /\ k \in arg..(2 * arg - 1)
          BY <2>1, <5>2, SmallPowers
        <5> QED
          BY <5>8, <5>9
      <4> QED
        BY <2>1, <2>2, <4>2, <4>3
    <3> QED
      BY <1>1, <2>4, <3>1, <3>2 DEF RequestsInv
  <2> QED
    BY <1>1, <2>1, <2>4, <2>5, <2>3 DEF Served, RoomForBlock
<1>2. CASE pc # "block"
  BY <1>2 DEF Served, RoomForBlock
<1> QED
  BY <1>1, <1>2

\* A call that begins keeps the invariant, and so does each step of it.
LEMMA RequestsStep ==
  ASSUME AlignmentsFit, PagesFit, RequestsInv, [Next]_vars
  PROVE  RequestsInv'
<1>1. CASE Return
  BY <1>1 DEF Return, RequestsInv, RequestTypes
<1>2. CASE UNCHANGED vars
  BY <1>2 DEF vars, RequestsInv, RequestTypes, Climbing, Reached, Direct, PaddedEnough, ChunkWanted,
              Promised, Raised
<1> QED
  BY <1>1, <1>2, CallStep, RoundUpStep, PadStep, MallocStep, PlaceStep DEF Next

\* RequestsInv is inductive, and says of a finished call what the properties do.
LEMMA RequestsAlways ==
  ASSUME AlignmentsFit, PagesFit
  PROVE  /\ Init => RequestsInv
         /\ RequestsInv /\ [Next]_vars => RequestsInv'
         /\ RequestsInv => Served /\ RoomForBlock
<1>1. Init => RequestsInv
  BY DEF Init, RequestsInv, RequestTypes
<1> QED
  BY <1>1, RequestsStep, InvServes

\* Whatever the width of size_t: a call of calloc, memalign, posix_memalign, valloc or
\* pvalloc that does not fail gets the bytes and the alignment it asked for, no product,
\* padding or rounding on the way having wrapped.
THEOREM ArgumentsServed ==
  ASSUME AlignmentsFit, PagesFit
  PROVE  Spec => []Served
BY RequestsAlways, PTL DEF Spec

\* Whatever the width of size_t: the chunk that internal_memalign asks for has room for
\* the block wherever the alignment puts it, and what it gives back before and after the
\* block are whole chunks or nothing.
THEOREM RoomForEveryBlock ==
  ASSUME AlignmentsFit, PagesFit
  PROVE  Spec => []RoomForBlock
BY RequestsAlways, PTL DEF Spec
=============================================================================
