--------------------------- MODULE ServiceProofs ---------------------------
(***************************************************************************)
(* The service for any engine, any requests and any number of steps: what  *)
(* a layer reads back, which batches a call fits, and which configurations *)
(* are refused.  Then the init containers that put its artifacts in place, *)
(* for any number of them, of files, of kills and of bad copies.           *)
(***************************************************************************)
EXTENDS KvCacheService, ArtifactExport, SequenceTheorems, FunctionTheorems, FiniteSetTheorems,
        WellFoundedInduction, TLAPS

-----------------------------------------------------------------------------
(* The class that each layer of the engine gets.                           *)
EngineClass ==
  IF Plugin /\ ~ ExtensionSelected(service.cache_dtype) THEN "stock" ELSE "fp8"

Setup   == {"select", "construct", "build", "capture"}
Running == {"update", "forward", "sampled"}

(* A captured call keeps the arguments of a batch of uniform rows.         *)
CapturesUniform ==
  \A n \in DOMAIN graphs :
    /\ n \in Nat /\ n % service.uniform = 0
    /\ graphs[n] = Arguments(n \div service.uniform, n, service.uniform)

SetupInv ==
  /\ service \in Services
  /\ pc \in Setup \cup {"idle"} \cup Running \cup {"refused", "raised"}
  /\ layer \in Layers
  /\ pc = "select" => impl = [l \in 1 .. layer - 1 |-> EngineClass]
  /\ pc \notin {"select", "refused"} => impl = [l \in Layers |-> EngineClass]
  /\ CapturesUniform

(* What each request holds: its pages cover its tokens and are its own.    *)
HoldsPages ==
  /\ step \in Nat
  /\ tokens \in [Requests -> Seq(Nat)]
  /\ table \in [Requests -> Seq(0 .. NumPages - 1)]
  /\ \A r \in Requests : PagesFor(Len(tokens[r])) <= Len(table[r])

PagesHaveOneOwner ==
  \A r, s \in Requests : \A p \in DOMAIN table[r], t \in DOMAIN table[s] :
    table[r][p] = table[s][t] => r = s /\ p = t

(* The batch of a step, the layers it has passed, and its last call.       *)
BatchInv ==
  pc \in Running =>
    /\ batch \in Batches
    /\ \A j \in DOMAIN batch.rows :
         /\ batch.q[j] <= Len(tokens[batch.rows[j]])
         /\ Len(tokens[batch.rows[j]]) <= service.max_len
    /\ \A k \in 1 .. layer - 1 : Served(k)
    /\ pc = "sampled" => layer = Len(service.layers) /\ Served(layer)

CallInv ==
  /\ pc \in Setup \cup {"idle"} => call = NoCall
  /\ pc = "update" /\ layer = 1 => call = NoCall
  /\ HasCall => EngineClass = "fp8"

(* The tokens of this step, and those that layer l has not written yet.    *)
New(r, i) == \E j \in DOMAIN batch.rows : batch.rows[j] = r /\ i >= Len(tokens[r]) - batch.q[j]

Pending(l, r, i) ==
  /\ \/ pc = "update" /\ l >= layer
     \/ pc = "forward" /\ l > layer
  /\ New(r, i)

(* The cache of layer l has the keys and values of r's token at i.         *)
Holds(l, r, i) ==
  \A head \in Heads, half \in Halves :
    cache[l][Offset(PageAt(r, i, service.page_size), head, i % service.page_size, half)]
      = Stored(r, i, l, head, half, Format(CacheDtype(l)))

CacheShape == cache = [l \in Layers |-> [a \in Addresses |-> cache[l][a]]]

(* Every layer with a cache of its own holds every token it need not write.*)
TokensHeld ==
  pc # "raised" /\ EngineClass # "stock" =>
    \A l \in Layers : ~ service.layers[l].shares =>
      \A r \in Requests : \A i \in 0 .. Len(tokens[r]) - 1 : Pending(l, r, i) \/ Holds(l, r, i)

CacheInv == CacheShape /\ TokensHeld

ServiceInv ==
  /\ SetupInv /\ HoldsPages /\ PagesHaveOneOwner /\ BatchInv /\ CallInv /\ CallFitsBatch
  /\ CacheInv
-----------------------------------------------------------------------------
(* Quotient and remainder.                                                 *)
LEMMA DivMod ==
  ASSUME NEW a \in Nat, NEW d \in Nat \ {0}
  PROVE  a \div d \in Nat /\ a % d \in 0 .. d - 1 /\ a = (a \div d) * d + (a % d)
BY SMT

(* Multiplication by a natural number keeps the order.                     *)
LEMMA ProductsOrdered ==
  ASSUME NEW x \in Int, NEW y \in Int, NEW c \in Nat, x <= y
  PROVE  x * c <= y * c
BY SMT

(* A place in a grid of width d has one row and one column.                *)
LEMMA GridPlace ==
  ASSUME NEW d \in Nat \ {0}, NEW x \in Int, NEW y \in Int,
         NEW a \in 0 .. d - 1, NEW b \in 0 .. d - 1, x * d + a = y * d + b
  PROVE  x = y /\ a = b
<1>1. ASSUME NEW u \in Int, NEW v \in Int, NEW e \in 0 .. d - 1, NEW f \in 0 .. d - 1,
             u * d + e = v * d + f
      PROVE  ~ (u < v)
  <2>1. SUFFICES ASSUME u + 1 <= v PROVE FALSE
    OBVIOUS
  <2>2. (u + 1) * d <= v * d
    BY <2>1, ProductsOrdered
  <2>3. (u + 1) * d = u * d + d /\ u * d \in Int /\ v * d \in Int
    OBVIOUS
  <2> QED  BY <1>1, <2>2, <2>3
<1>2. ~ (x < y) /\ ~ (y < x)
  BY <1>1
<1>3. x = y
  BY <1>2
<1> QED  BY <1>3

(* A place in a grid of h rows is one of its h * d places.                 *)
LEMMA GridRange ==
  ASSUME NEW d \in Nat \ {0}, NEW h \in Nat, NEW x \in 0 .. h - 1, NEW a \in 0 .. d - 1
  PROVE  x * d + a \in 0 .. h * d - 1
<1>1. x * d <= (h - 1) * d /\ 0 <= x * d
  BY ProductsOrdered, (0 * d) = 0
<1>2. (h - 1) * d = h * d - d /\ x * d \in Int /\ h * d \in Int
  OBVIOUS
<1> QED  BY <1>1, <1>2

(* A non-empty set of natural numbers has a least element.                 *)
LEMMA LeastOf ==
  ASSUME NEW T \in SUBSET Nat, T # {}
  PROVE  \E m \in T : \A k \in T : m <= k
<1> DEFINE R == OpToRel(<, Nat)
<1>1. IsWellFoundedOn(R, Nat)
  BY NatLessThanWellFounded
<1>2. R = { p \in Nat \X Nat : p[1] < p[2] }
  BY DEF OpToRel
<1> HIDE DEF R
<1>3. PICK m \in T : \A y \in T : <<y, m>> \notin R
  BY <1>1, WFMin
<1>4. ASSUME NEW k \in T PROVE m <= k
  <2>1. k \in Nat /\ m \in Nat /\ <<k, m>> \notin R
    BY <1>3
  <2>2. <<k, m>> \in Nat \X Nat /\ <<k, m>>[1] = k /\ <<k, m>>[2] = m
    BY <2>1
  <2> QED  BY <1>2, <2>1, <2>2
<1> QED  BY <1>4

-----------------------------------------------------------------------------
(* The fields of a service.                                                *)
LEMMA ServiceFacts ==
  ASSUME service \in Services
  PROVE  /\ service \in ServiceTypes
         /\ Len(service.layers) \in Nat \ {0}
         /\ service.layers \in [Layers -> [cache_dtype : STRING, shares : BOOLEAN]]
         /\ 1 \in Layers /\ ~ service.layers[1].shares
         /\ service.page_size \in Nat \ {0} /\ service.kv_heads \in Nat \ {0}
         /\ service.uniform \in Nat \ {0} /\ service.captures \subseteq Nat
         /\ service.max_len \in Nat /\ service.heads \in Nat \ {0}
<1>1. service \in ServiceTypes /\ service.layers # << >> /\ ~ service.layers[1].shares
  BY ServicesAssumption
<1>2. service.layers \in Seq([cache_dtype : STRING, shares : BOOLEAN])
  BY <1>1 DEF ServiceTypes
<1>3. Len(service.layers) \in Nat \ {0}
  BY <1>1, <1>2, EmptySeq, LenProperties
<1>4. service.layers \in [Layers -> [cache_dtype : STRING, shares : BOOLEAN]]
  BY <1>2, LenProperties DEF Layers
<1>5. 1 \in Layers
  BY <1>3 DEF Layers
<1> QED  BY <1>1, <1>3, <1>4, <1>5 DEF ServiceTypes

(* The constants.                                                          *)
LEMMA ConstantFacts ==
  /\ NumPages \in Nat \ {0} /\ MaxSteps \in Nat \ {0} /\ MaxNew \in Nat \ {0}
  /\ ShortQuery \in Nat \ {0} /\ LargestPage \in Nat \ {0} /\ Window \in Nat \ {0}
  /\ IsFiniteSet(Requests) /\ Cardinality(Requests) \in Nat
BY ServiceAssumption, FS_CardinalityType

(* What the pages of a request cover.                                      *)
LEMMA PagesCover ==
  ASSUME service \in Services, NEW n \in Nat
  PROVE  /\ PagesFor(n) \in Nat
         /\ \A i \in 0 .. n - 1 : i \div service.page_size \in 0 .. PagesFor(n) - 1
         /\ n <= PagesFor(n) * service.page_size
<1> DEFINE d == service.page_size  p == PagesFor(n)
<1>1. d \in Nat \ {0} /\ n + d - 1 \in Nat /\ p = (n + d - 1) \div d
  BY ServiceFacts DEF PagesFor
<1> HIDE DEF d, p
<1> DEFINE m == n + d - 1
<1>2. p \in Nat /\ m = p * d + (m % d) /\ m % d \in 0 .. d - 1 /\ p * d \in Nat
  <2> HIDE DEF m
  <2>1. m \in Nat /\ p = m \div d
    BY <1>1 DEF m
  <2>2. p \in Nat /\ m = p * d + (m % d) /\ m % d \in 0 .. d - 1
    BY <1>1, <2>1, DivMod
  <2> QED  BY <1>1, <2>2
<1>3. n <= p * d
  BY <1>1, <1>2
<1>4. ASSUME NEW i \in 0 .. n - 1 PROVE i \div d \in 0 .. p - 1
  <2>1. i \in Nat /\ i \div d \in Nat /\ (i \div d) * d <= i /\ (i \div d) * d \in Nat
    BY <1>1, DivMod
  <2>2. (i \div d) * d < p * d
    BY <1>2, <1>3, <2>1
  <2>3. ASSUME p <= i \div d PROVE FALSE
    BY <1>1, <1>2, <2>1, <2>2, <2>3, ProductsOrdered
  <2> QED  BY <1>2, <2>1, <2>3
<1> QED  BY <1>2, <1>3, <1>4 DEF d, p

(* A byte of a slot is one of its K half or of its V half.                 *)
LEMMA OneHalf ==
  ASSUME NEW a \in Int, NEW b \in Int, NEW x \in 0 .. 1, NEW y \in 0 .. 1, 2 * a + x = 2 * b + y
  PROVE  a = b /\ x = y
BY SMT

(* In both layouts an address has one page, head, slot and half.           *)
LEMMA OffsetIsOwn ==
  ASSUME service \in Services,
         NEW p \in Nat, NEW h \in Heads, NEW s \in 0 .. service.page_size - 1, NEW x \in Halves,
         NEW q \in Nat, NEW g \in Heads, NEW t \in 0 .. service.page_size - 1, NEW y \in Halves,
         Offset(p, h, s, x) = Offset(q, g, t, y)
  PROVE  p = q /\ h = g /\ s = t /\ x = y
<1> DEFINE d == service.page_size  k == service.kv_heads
<1>1. d \in Nat \ {0} /\ k \in Nat \ {0} /\ h \in 0 .. k - 1 /\ g \in 0 .. k - 1
  BY ServiceFacts DEF Heads
<1>2. s \in 0 .. d - 1 /\ t \in 0 .. d - 1 /\ x \in 0 .. 1 /\ y \in 0 .. 1
  BY DEF Halves
<1>3. Offset(p, h, s, x) = 2 * (IF Layout = "NHD" THEN (p * d + s) * k + h ELSE (p * k + h) * d + s) + x
  BY DEF Offset
<1>4. Offset(q, g, t, y) = 2 * (IF Layout = "NHD" THEN (q * d + t) * k + g ELSE (q * k + g) * d + t) + y
  BY DEF Offset
<1> HIDE DEF d, k
<1>5. p * d + s \in Int /\ q * d + t \in Int /\ p * k + h \in Int /\ q * k + g \in Int
  BY <1>1, <1>2
<1>6. (p * d + s) * k + h \in Int /\ (q * d + t) * k + g \in Int
      /\ (p * k + h) * d + s \in Int /\ (q * k + g) * d + t \in Int
  BY <1>1, <1>2, <1>5
<1>7. CASE Layout = "NHD"
  <2>1. (p * d + s) * k + h = (q * d + t) * k + g /\ x = y
    <3> DEFINE u == (p * d + s) * k + h  v == (q * d + t) * k + g
    <3>1. 2 * u + x = 2 * v + y /\ u \in Int /\ v \in Int
      BY <1>3, <1>4, <1>6, <1>7
    <3> HIDE DEF u, v
    <3>2. u = v /\ x = y
      BY <1>2, <3>1, OneHalf
    <3> QED  BY <3>2 DEF u, v
  <2>2. p * d + s = q * d + t /\ h = g
    BY <1>1, <1>5, <2>1, GridPlace
  <2>3. p = q /\ s = t
    BY <1>1, <1>2, <2>2, GridPlace
  <2> QED  BY <2>1, <2>2, <2>3
<1>8. CASE Layout # "NHD"
  <2>1. (p * k + h) * d + s = (q * k + g) * d + t /\ x = y
    <3> DEFINE u == (p * k + h) * d + s  v == (q * k + g) * d + t
    <3>1. 2 * u + x = 2 * v + y /\ u \in Int /\ v \in Int
      BY <1>3, <1>4, <1>6, <1>8
    <3> HIDE DEF u, v
    <3>2. u = v /\ x = y
      BY <1>2, <3>1, OneHalf
    <3> QED  BY <3>2 DEF u, v
  <2>2. p * k + h = q * k + g /\ s = t
    BY <1>1, <1>2, <1>5, <2>1, GridPlace
  <2>3. p = q /\ h = g
    BY <1>1, <2>2, GridPlace
  <2> QED  BY <2>1, <2>2, <2>3
<1> QED  BY <1>7, <1>8

(* Every page of the cache has all its addresses in the cache.             *)
LEMMA OffsetInCache ==
  ASSUME service \in Services, NEW p \in 0 .. NumPages - 1, NEW h \in Heads,
         NEW s \in 0 .. service.page_size - 1, NEW x \in Halves
  PROVE  Offset(p, h, s, x) \in Addresses
<1> DEFINE d == service.page_size  k == service.kv_heads  N == NumPages
<1>1. d \in Nat \ {0} /\ k \in Nat \ {0} /\ h \in 0 .. k - 1 /\ N \in Nat
  BY ServiceFacts, ConstantFacts DEF Heads
<1>2. Addresses = 0 .. N * d * k * 2 - 1 /\ x \in 0 .. 1 /\ s \in 0 .. d - 1 /\ p \in 0 .. N - 1
  BY DEF Addresses, Halves
<1>3. Offset(p, h, s, x) = 2 * (IF Layout = "NHD" THEN (p * d + s) * k + h ELSE (p * k + h) * d + s) + x
  BY DEF Offset
<1> HIDE DEF d, k, N
<1>4. N * d \in Nat /\ N * k \in Nat /\ N * d * k \in Nat /\ (N * k) * d = N * d * k
  BY <1>1
<1>5. p * d + s \in 0 .. N * d - 1 /\ p * k + h \in 0 .. N * k - 1
  BY <1>1, <1>2, GridRange
<1>6. (p * d + s) * k + h \in 0 .. N * d * k - 1
  BY <1>1, <1>4, <1>5, GridRange
<1>7. (p * k + h) * d + s \in 0 .. N * d * k - 1
  <2>1. (p * k + h) * d + s \in 0 .. (N * k) * d - 1
    BY <1>1, <1>2, <1>4, <1>5, GridRange
  <2> QED  BY <1>4, <2>1
<1> QED  BY <1>2, <1>3, <1>4, <1>6, <1>7

-----------------------------------------------------------------------------
(* A function on 1 .. n is a sequence.                                     *)
LEMMA FunctionIsSeq ==
  ASSUME NEW S, NEW n \in Nat, NEW f \in [1 .. n -> S]
  PROVE  f \in Seq(S) /\ Len(f) = n
OBVIOUS

(* Rows and query tokens of a batch.                                       *)
LEMMA BatchShape ==
  ASSUME NEW b \in Batches
  PROVE  \E n \in Nat \ {0} :
           /\ b.rows \in [1 .. n -> Requests] /\ b.q \in [1 .. n -> 1 .. MaxNew]
           /\ DOMAIN b.rows = 1 .. n /\ DOMAIN b.q = 1 .. n
           /\ Len(b.rows) = n /\ Len(b.q) = n
           /\ \A i, j \in 1 .. n : b.rows[i] = b.rows[j] => i = j
<1>1. Cardinality(Requests) \in Nat
  BY ConstantFacts
<1>2. PICK n \in 1 .. Cardinality(Requests) :
        \E rows \in { f \in [1 .. n -> Requests] : \A i, j \in 1 .. n : f[i] = f[j] => i = j } :
          \E q \in [1 .. n -> 1 .. MaxNew] : b = [rows |-> rows, q |-> q]
  BY DEF Batches
<1>3. n \in Nat \ {0}
  BY <1>1
<1>4. PICK rows \in { f \in [1 .. n -> Requests] : \A i, j \in 1 .. n : f[i] = f[j] => i = j } :
        \E q \in [1 .. n -> 1 .. MaxNew] : b = [rows |-> rows, q |-> q]
  BY <1>2
<1>5. PICK q \in [1 .. n -> 1 .. MaxNew] : b = [rows |-> rows, q |-> q]
  BY <1>4
<1>6. b.rows = rows /\ b.q = q
  BY <1>5
<1>7. Len(b.rows) = n /\ Len(b.q) = n
  BY <1>3, <1>4, <1>5, <1>6, FunctionIsSeq
<1> QED  BY <1>3, <1>4, <1>5, <1>6, <1>7

(* A batch has its longest query.                                          *)
LEMMA LongestQuery ==
  ASSUME batch \in Batches
  PROVE  MaxQuery \in Nat /\ \A j \in DOMAIN batch.q : batch.q[j] <= MaxQuery
<1>1. PICK n \in Nat \ {0} : batch.q \in [1 .. n -> 1 .. MaxNew] /\ DOMAIN batch.q = 1 .. n
  BY BatchShape
<1>2. MaxNew \in Nat \ {0}
  BY ConstantFacts
<1> DEFINE T == { MaxNew - batch.q[j] : j \in 1 .. n }
<1>3. T \in SUBSET Nat
  <2>1. ASSUME NEW j \in 1 .. n PROVE MaxNew - batch.q[j] \in Nat
    BY <1>1, <1>2
  <2> QED  BY <2>1
<1>4. MaxNew - batch.q[1] \in T
  BY <1>1
<1> HIDE DEF T
<1>5. PICK m \in T : \A k \in T : m <= k
  BY <1>3, <1>4, LeastOf
<1>6. PICK i \in 1 .. n : m = MaxNew - batch.q[i]
  BY <1>5 DEF T
<1>7. ASSUME NEW j \in 1 .. n PROVE batch.q[j] <= batch.q[i]
  <2>1. m <= MaxNew - batch.q[j]
    BY <1>5 DEF T
  <2> QED  BY <1>1, <1>2, <1>6, <2>1
<1>8. batch.q[i] \in 0 .. MaxNew
  BY <1>1, <1>2
<1>9. \E x \in 0 .. MaxNew : (\E j \in DOMAIN batch.q : batch.q[j] = x)
                             /\ \A j \in DOMAIN batch.q : batch.q[j] <= x
  BY <1>1, <1>7, <1>8
<1>10. MaxQuery \in 0 .. MaxNew /\ \A j \in DOMAIN batch.q : batch.q[j] <= MaxQuery
  BY <1>9 DEF MaxQuery
<1> QED  BY <1>2, <1>10

(* Partial sums exist: otherwise there would be a shortest list without.   *)
LEMMA SumsExist ==
  ASSUME NEW n \in Nat, NEW q \in [1 .. n -> Nat]
  PROVE  \E f \in [0 .. n -> Nat] : f[0] = 0 /\ \A b \in 1 .. n : f[b] = f[b - 1] + q[b]
<1> DEFINE Sums(m) == { f \in [0 .. m -> Nat] : f[0] = 0 /\ \A b \in 1 .. m : f[b] = f[b - 1] + q[b] }
           T == { m \in 0 .. n : Sums(m) = {} }
<1>1. Sums(0) # {}
  <2>1. [b \in 0 .. 0 |-> 0] \in Sums(0)
    OBVIOUS
  <2> QED  BY <2>1
<1>2. ASSUME NEW m \in 1 .. n, Sums(m - 1) # {} PROVE Sums(m) # {}
  <2>1. PICK f \in [0 .. m - 1 -> Nat] : f[0] = 0 /\ \A b \in 1 .. m - 1 : f[b] = f[b - 1] + q[b]
    BY <1>2
  <2> DEFINE g == [b \in 0 .. m |-> IF b = m THEN f[m - 1] + q[m] ELSE f[b]]
  <2>2. f[m - 1] \in Nat /\ q[m] \in Nat
    BY <2>1
  <2>3. ASSUME NEW b \in 0 .. m, b # m PROVE b \in 0 .. m - 1
    BY <2>3
  <2>4. g \in [0 .. m -> Nat] /\ g[0] = 0
    BY <2>1, <2>2, <2>3
  <2>5. ASSUME NEW b \in 1 .. m PROVE g[b] = g[b - 1] + q[b]
    <3>1. CASE b = m
      BY <3>1
    <3>2. CASE b # m
      <4>1. b \in 1 .. m - 1 /\ b - 1 # m /\ b - 1 \in 0 .. m /\ b \in 0 .. m
        BY <3>2
      <4>2. g[b] = f[b] /\ g[b - 1] = f[b - 1]
        BY <3>2, <4>1
      <4> QED  BY <4>1, <4>2, <2>1
    <3> QED  BY <3>1, <3>2
  <2> HIDE DEF g
  <2>6. g \in Sums(m)
    BY <2>4, <2>5
  <2> QED  BY <2>6
<1> HIDE DEF Sums
<1>3. T = {}
  <2>1. SUFFICES ASSUME T # {} PROVE FALSE
    OBVIOUS
  <2>2. T \in SUBSET Nat
    OBVIOUS
  <2>3. PICK m \in T : \A k \in T : m <= k
    BY <2>1, <2>2, LeastOf
  <2>4. m # 0
    BY <1>1, <2>3
  <2>5. m \in 1 .. n /\ m - 1 \in 0 .. n /\ ~ (m <= m - 1)
    BY <2>3, <2>4
  <2>6. Sums(m - 1) # {}
    BY <2>3, <2>5
  <2> QED  BY <1>2, <2>3, <2>5, <2>6
<1>4. Sums(n) # {}
  BY <1>3
<1> QED  BY <1>4 DEF Sums

(* A sum of so many equal terms, and any other: no first prefix is wrong.  *)
LEMMA SumsOfRows ==
  ASSUME NEW n \in Nat, NEW q \in [1 .. n -> Nat], NEW g,
         g[0] = 0, \A b \in 1 .. n : g[b] = g[b - 1] + q[b]
  PROVE  /\ g[n] \in Nat
         /\ \A u \in Nat : (\A b \in 1 .. n : q[b] = u) => g[n] = n * u
<1>1. g[n] \in Nat
  <2> DEFINE T == { m \in 0 .. n : g[m] \notin Nat }
  <2>1. SUFFICES ASSUME T # {} PROVE FALSE
    OBVIOUS
  <2>2. T \in SUBSET Nat
    OBVIOUS
  <2>3. PICK m \in T : \A k \in T : m <= k
    BY <2>1, <2>2, LeastOf
  <2>4. m \in 1 .. n /\ m - 1 \in 0 .. n /\ ~ (m <= m - 1)
    BY <2>3
  <2>5. g[m - 1] \in Nat /\ q[m] \in Nat
    BY <2>3, <2>4
  <2> QED  BY <2>3, <2>4, <2>5
<1>2. ASSUME NEW u \in Nat, \A b \in 1 .. n : q[b] = u PROVE g[n] = n * u
  <2> DEFINE T == { m \in 0 .. n : g[m] # m * u }
  <2>1. SUFFICES ASSUME T # {} PROVE FALSE
    OBVIOUS
  <2>2. T \in SUBSET Nat
    OBVIOUS
  <2>3. PICK m \in T : \A k \in T : m <= k
    BY <2>1, <2>2, LeastOf
  <2>4. m \in 1 .. n /\ m - 1 \in 0 .. n /\ ~ (m <= m - 1)
    BY <2>3
  <2>5. g[m - 1] = (m - 1) * u /\ g[m] = g[m - 1] + u
    BY <1>2, <2>3, <2>4
  <2>6. (m - 1) * u + u = m * u
    BY <2>4
  <2> QED  BY <2>3, <2>5, <2>6
<1> QED  BY <1>1, <1>2

(* The tokens of a batch.                                                  *)
LEMMA TokensOfBatch ==
  ASSUME batch \in Batches
  PROVE  /\ count \in Nat
         /\ \A u \in Nat : (\A j \in DOMAIN batch.q : batch.q[j] = u) => count = Len(batch.q) * u
<1>1. PICK n \in Nat \ {0} : /\ batch.q \in [1 .. n -> 1 .. MaxNew] /\ DOMAIN batch.q = 1 .. n
                             /\ Len(batch.q) = n
  BY BatchShape
<1> DEFINE q == batch.q
<1>2. q \in [1 .. n -> Nat]
  BY <1>1, ConstantFacts
<1>3. count = LET upTo[j \in 0 .. n] == IF j = 0 THEN 0 ELSE upTo[j - 1] + q[j] IN upTo[n]
  BY <1>1 DEF count
<1> HIDE DEF q
<1>4. PICK f \in [0 .. n -> Nat] : f[0] = 0 /\ \A b \in 1 .. n : f[b] = f[b - 1] + q[b]
  BY <1>2, SumsExist
<1>5. f = [j \in 0 .. n |-> IF j = 0 THEN 0 ELSE f[j - 1] + q[j]]
  BY <1>4
<1> DEFINE u == CHOOSE g : g = [j \in 0 .. n |-> IF j = 0 THEN 0 ELSE g[j - 1] + q[j]]
<1>6. u = [j \in 0 .. n |-> IF j = 0 THEN 0 ELSE u[j - 1] + q[j]]
  BY <1>5
<1>7. count = u[n]
  BY <1>3
<1> HIDE DEF u
<1>8. u[0] = 0 /\ \A b \in 1 .. n : u[b] = u[b - 1] + q[b]
  <2>1. \A b \in 0 .. n : u[b] = IF b = 0 THEN 0 ELSE u[b - 1] + q[b]
    BY <1>6
  <2> QED  BY <2>1
<1>9. /\ u[n] \in Nat
      /\ \A e \in Nat : (\A b \in 1 .. n : q[b] = e) => u[n] = n * e
  BY <1>2, <1>8, SumsOfRows
<1> QED  BY <1>1, <1>7, <1>9 DEF q

(* The longest context a captured call allows is that of the model.        *)
LEMMA MaximumIsModelLength == service \in Services => Maximum = service.max_len
<1> SUFFICES ASSUME service \in Services PROVE Maximum = service.max_len
  OBVIOUS
<1>1. service.max_len \in Nat /\ TableWidth = PagesFor(service.max_len)
  BY ServiceFacts DEF TableWidth, PagesFor
<1>2. service.max_len <= TableWidth * service.page_size
  BY <1>1, PagesCover
<1> QED  BY <1>2 DEF Maximum, AtMost

-----------------------------------------------------------------------------
(* What the configuration determines does not change with the state.       *)
LEMMA ConfigurationStays ==
  ASSUME service' = service
  PROVE  /\ Layers' = Layers /\ EngineClass' = EngineClass /\ Documented' = Documented
         /\ \A a, b, c : Arguments(a, b, c)' = Arguments(a, b, c)
<1>1. WindowLeft' = WindowLeft /\ Maximum' = Maximum
  BY DEF WindowLeft, Maximum, TableWidth, AtMost
<1> QED
  BY <1>1 DEF Layers, EngineClass, Documented, Arguments, Plugin, ExtensionSelected, CacheDtype

(* Classes are selected layer by layer, all alike.                         *)
LEMMA SelectedOneMore ==
  ASSUME NEW n \in Nat, NEW c
  PROVE  Append([l \in 1 .. n |-> c], c) = [l \in 1 .. n + 1 |-> c]
<1> DEFINE f == [l \in 1 .. n |-> c]  g == Append(f, c)
<1>1. f \in Seq({c}) /\ Len(f) = n
  BY FunctionIsSeq, f \in [1 .. n -> {c}]
<1>2. g \in Seq({c}) /\ Len(g) = n + 1
  BY <1>1, AppendProperties
<1>3. g \in [1 .. n + 1 -> {c}]
  BY <1>2, LenProperties
<1> HIDE DEF g, f
<1>4. g = [l \in 1 .. n + 1 |-> c]
  BY <1>3
<1> QED  BY <1>4 DEF f, g

(* An engine starts before its first layer is selected.                    *)
LEMMA SetupAtStart == Init => SetupInv
BY ServiceFacts DEF Init, SetupInv, Setup, Layers, CapturesUniform

(* Constructors, captures and steps keep what was selected.                *)
LEMMA SetupStep == SetupInv /\ [Next]_vars => SetupInv'
<1> SUFFICES ASSUME SetupInv, [Next]_vars PROVE SetupInv'
  OBVIOUS
<1> USE DEF SetupInv, Setup, Running
<1>1. Len(service.layers) \in Nat \ {0} /\ service.captures \subseteq Nat /\ service.uniform \in Nat \ {0}
      /\ layer \in 1 .. Len(service.layers)
  BY ServiceFacts DEF Layers
<1>2. ASSUME service' = service, impl' = impl, graphs' = graphs, pc' \in Setup \cup {"idle"} \cup Running \cup {"raised"},
             pc' # "select", pc \notin {"select", "refused"}, layer' \in 1 .. Len(service.layers)
      PROVE  SetupInv'
  <2>1. /\ Layers' = Layers /\ EngineClass' = EngineClass
        /\ \A a, b, c : Arguments(a, b, c)' = Arguments(a, b, c)
    BY <1>2, ConfigurationStays
  <2>2. layer' \in Layers'
    BY <1>2, <2>1 DEF Layers
  <2>3. CapturesUniform'
    BY <1>2, <2>1 DEF CapturesUniform
  <2> QED  BY <1>2, <2>1, <2>2, <2>3
<1>3. CASE SelectLayer
  <2>1. /\ pc = "select" /\ service' = service /\ graphs' = graphs
        /\ impl = [l \in 1 .. layer - 1 |-> EngineClass]
    BY <1>3 DEF SelectLayer, engine
  <2>2. /\ Layers' = Layers /\ EngineClass' = EngineClass
        /\ \A a, b, c : Arguments(a, b, c)' = Arguments(a, b, c)
    BY <2>1, ConfigurationStays
  <2>9. CapturesUniform'
    BY <2>1, <2>2 DEF CapturesUniform
  <2>3. CASE pc' = "refused" /\ UNCHANGED <<layer, impl>>
    BY <1>1, <2>1, <2>2, <2>3, <2>9
  <2>4. CASE /\ impl' = Append(impl, EngineClass)
             /\ IF layer < Len(service.layers)
                THEN layer' = layer + 1 /\ UNCHANGED pc
                ELSE layer' = 1 /\ pc' = IF Plugin THEN "capture" ELSE "construct"
    <3>1. impl' = [l \in 1 .. layer - 1 + 1 |-> EngineClass] /\ layer - 1 + 1 = layer
      BY <1>1, <2>1, <2>4, SelectedOneMore
    <3>2. impl' = [l \in 1 .. layer |-> EngineClass]
      BY <3>1
    <3>3. CASE layer < Len(service.layers)
      <4>1. layer' = layer + 1 /\ pc' = "select" /\ layer' - 1 = layer /\ layer' \in Layers
        BY <1>1, <2>1, <2>4, <3>3 DEF Layers
      <4> QED  BY <1>1, <2>1, <2>2, <2>9, <3>2, <4>1
    <3>4. CASE ~ (layer < Len(service.layers))
      <4>1. /\ layer = Len(service.layers) /\ layer' = 1 /\ pc' \in {"capture", "construct"}
            /\ layer' \in Layers /\ Layers = 1 .. layer
        BY <1>1, <2>4, <3>4 DEF Layers
      <4> QED  BY <1>1, <2>1, <2>2, <2>9, <3>2, <4>1
    <3> QED  BY <3>3, <3>4
  <2> QED  BY <1>3, <2>3, <2>4 DEF SelectLayer, EngineClass
<1>4. CASE ConstructImpl
  <2>1. pc = "construct" /\ UNCHANGED setup
        /\ layer' \in 1 .. Len(service.layers)
        /\ pc' \in {"construct", "raised", "build"}
    BY <1>1, <1>4 DEF ConstructImpl
  <2> QED  BY <1>1, <1>2, <2>1 DEF setup
<1>5. CASE ConstructBuilder
  <2>1. pc = "build" /\ UNCHANGED setup
        /\ layer' \in 1 .. Len(service.layers)
        /\ pc' \in {"build", "raised", "capture"}
    BY <1>1, <1>5 DEF ConstructBuilder
  <2> QED  BY <1>1, <1>2, <2>1 DEF setup
<1>6. ASSUME NEW n \in service.captures, Capture(n) PROVE SetupInv'
  <2>1. pc = "capture" /\ n \in Nat /\ n % service.uniform = 0 /\ UNCHANGED <<service, impl>>
    BY <1>1, <1>6 DEF Capture, CapturedSizes
  <2>2. /\ Layers' = Layers /\ EngineClass' = EngineClass
        /\ \A a, b, c : Arguments(a, b, c)' = Arguments(a, b, c)
    BY <2>1, ConfigurationStays
  <2>3. CASE \A l \in Layers : Served(l)
    <3>1. UNCHANGED <<pc, layer>>
      BY <1>6, <2>3 DEF Capture
    <3>2. graphs' = [m \in DOMAIN graphs \cup {n} |->
                       IF m = n THEN Arguments(n \div service.uniform, n, service.uniform) ELSE graphs[m]]
      BY <1>6, <2>3 DEF Capture
    <3>3. CapturesUniform'
      BY <2>1, <2>2, <3>2 DEF CapturesUniform
    <3> QED  BY <1>1, <2>1, <2>2, <3>1, <3>3
  <2>4. CASE ~ \A l \in Layers : Served(l)
    <3>1. /\ pc' = "raised" /\ UNCHANGED graphs
          /\ layer' = CHOOSE l \in Layers : ~ Served(l) /\ \A k \in 1 .. l - 1 : Served(k)
      BY <1>6, <2>4 DEF Capture
    <3> DEFINE T == { l \in Layers : ~ Served(l) }
    <3>2. T \in SUBSET Nat /\ T # {}
      BY <1>1, <2>4 DEF Layers
    <3>3. PICK l \in T : \A k \in T : l <= k
      BY <3>2, LeastOf
    <3>4. \A k \in 1 .. l - 1 : Served(k)
      BY <1>1, <3>3 DEF Layers
    <3>5. layer' \in Layers
      BY <3>1, <3>3, <3>4
    <3> QED  BY <1>2, <2>1, <3>1, <3>5 DEF Layers
  <2> QED  BY <2>3, <2>4
<1>7. CASE Ready
  BY <1>1, <1>2, <1>7 DEF Ready, setup
<1>8. ASSUME NEW b \in Batches, Schedule(b) PROVE SetupInv'
  <2>1. pc = "idle" /\ UNCHANGED setup /\ layer' = 1 /\ pc' \in {"update", "raised"}
    BY <1>8 DEF Schedule
  <2> QED  BY <1>1, <1>2, <2>1 DEF setup
<1>9. CASE UpdateCache
  BY <1>1, <1>2, <1>9 DEF UpdateCache, setup
<1>10. CASE Forward
  <2>1. pc = "forward" /\ UNCHANGED setup
        /\ layer' \in 1 .. Len(service.layers)
        /\ pc' \in {"update", "raised", "sampled"}
    BY <1>1, <1>10 DEF Forward
  <2> QED  BY <1>1, <1>2, <2>1 DEF setup
<1>11. CASE Sample
  BY <1>1, <1>2, <1>11 DEF Sample, setup
<1>12. ASSUME NEW r \in Requests, Finish(r) PROVE SetupInv'
  BY <1>1, <1>2, <1>12 DEF Finish, setup
<1>13. CASE UNCHANGED vars
  <2>1. UNCHANGED <<service, impl, graphs, pc, layer>>
    BY <1>13 DEF vars, setup
  <2>2. CapturesUniform'
    BY <2>1, ConfigurationStays DEF CapturesUniform
  <2> QED  BY <2>1, <2>2, ConfigurationStays
<1> QED
  BY <1>3, <1>4, <1>5, <1>6, <1>7, <1>8, <1>9, <1>10, <1>11, <1>12, <1>13 DEF Next, Terminating

-----------------------------------------------------------------------------
(* Every layer of a documented configuration passes its own test.          *)
LEMMA DocumentedServes ==
  ASSUME SetupInv, Documented, NEW l \in Layers
  PROVE  Served(l)
<1>1. service.dcp = 1 /\ service.dtype = "bf16" /\ service.window \in {0, Window} /\ CacheDtype(l) \in E4M3
      /\ ~ service.softcap /\ service.decoder /\ ~ service.sinks
  BY DEF Documented
<1>2. WindowLeft \in {-1, Window - 1}
  BY <1>1, ConstantFacts DEF WindowLeft
<1>3. CASE Plugin
  <2>1. QueryDtype(l) = "bf16" /\ ExtensionSelected(CacheDtype(l)) /\ service.head_size \in {128, 256}
    BY <1>1, <1>3 DEF Documented, QueryDtype, ExtensionSelected
  <2> QED  BY <1>1, <1>2, <1>3, <2>1 DEF Served
<1>4. CASE ~ Plugin
  <2>1. service.capability = 86 /\ <<service.head_size, service.kv_heads>> \in HeadPairs /\ service.layout = "NHD"
    BY <1>4 DEF Documented
  <2>2. ~ Family100
    BY <2>1 DEF Family100
  <2>3. QueryDtype(l) = "bf16" /\ Layout = "NHD"
    BY <1>1, <1>4, <2>1, <2>2 DEF QueryDtype, Layout
  <2> QED  BY <1>1, <1>2, <1>4, <2>1, <2>3 DEF Served
<1> QED  BY <1>3, <1>4

(* Only the overlay's engine goes through the stock constructors.          *)
OverlayConstructs == pc \in {"construct", "build"} => ~ Plugin

(* A documented configuration is not turned away by a step.                *)
LEMMA DocumentedStep ==
  SetupInv /\ DocumentedIsServed /\ OverlayConstructs /\ [Next]_vars
    => DocumentedIsServed' /\ OverlayConstructs'
<1> SUFFICES ASSUME SetupInv, DocumentedIsServed, OverlayConstructs, [Next]_vars
             PROVE  DocumentedIsServed' /\ OverlayConstructs'
  OBVIOUS
<1>1. layer \in Layers /\ service \in Services
  BY DEF SetupInv
<1>2. ASSUME service' = service, pc' \in {"refused", "raised"} => ~ Documented \/ pc' = pc,
             pc' \in {"construct", "build"} => ~ Plugin
      PROVE  DocumentedIsServed' /\ OverlayConstructs'
  <2>1. Documented' = Documented /\ Plugin' = Plugin
    BY <1>2, ConfigurationStays DEF Plugin
  <2> QED  BY <1>2, <2>1 DEF DocumentedIsServed, OverlayConstructs
<1>3. CASE SelectLayer
  <2>1. pc = "select" /\ service' = service
    BY <1>3 DEF SelectLayer
  <2>2. ASSUME Documented PROVE pc' # "refused"
    <3>1. CacheDtype(layer) \in E4M3 /\ service.dtype = "bf16" /\ ~ service.sinks
      BY <1>1, <2>2 DEF Documented
    <3>2. CASE Plugin
      <4>1. PluginSupports(layer)
        BY <2>2, <3>1, <3>2 DEF Documented, PluginSupports, ExtensionSelected
      <4> QED  BY <1>3, <2>1, <3>2, <4>1 DEF SelectLayer
    <3>3. CASE ~ Plugin
      <4>1. /\ service.capability = 86 /\ service.head_size \in {128, 256}
            /\ service.page_size \in PageSizes
        BY <2>2, <3>3 DEF Documented, HeadPairs
      <4>2. OverlaySupports(layer)
        BY <3>1, <4>1 DEF OverlaySupports, E4M3
      <4> QED  BY <1>3, <2>1, <3>3, <4>2 DEF SelectLayer
    <3> QED  BY <3>2, <3>3
  <2>3. pc' \in {"select", "refused", "capture", "construct"} /\ (pc' = "construct" => ~ Plugin)
    BY <1>3, <2>1 DEF SelectLayer
  <2> QED  BY <1>2, <2>1, <2>2, <2>3
<1>4. CASE ConstructImpl
  <2>1. /\ pc = "construct" /\ service' = service /\ pc' \in {"construct", "build", "raised"}
        /\ pc' = "raised" => ~ service.decoder
    BY <1>4 DEF ConstructImpl, setup
  <2>2. ~ Plugin
    BY <2>1 DEF OverlayConstructs
  <2> QED  BY <1>2, <2>1, <2>2 DEF Documented
<1>5. CASE ConstructBuilder
  <2>1. /\ pc = "build" /\ service' = service /\ pc' \in {"build", "capture", "raised"}
        /\ pc' = "raised" => BuilderRaises
    BY <1>5 DEF ConstructBuilder, setup
  <2>2. ~ Plugin
    BY <2>1 DEF OverlayConstructs
  <2>3. ASSUME Documented PROVE ~ BuilderRaises
    <3>1. CacheDtype(layer) \in E4M3 /\ ~ service.sinks
      BY <1>1, <2>3 DEF Documented
    <3>2. service.capability = 86 /\ service.page_size \in PageSizes
      BY <2>2, <2>3 DEF Documented
    <3>3. ~ (service.page_size > LargestPage)
      <4>1. service.page_size \in 1 .. LargestPage /\ LargestPage \in Nat
        BY <3>2, ServiceAssumption, ConstantFacts
      <4> QED  BY <4>1
    <3> QED  BY <3>1, <3>2, <3>3 DEF BuilderRaises, E4M3
  <2> QED  BY <1>2, <2>1, <2>2, <2>3
<1>6. ASSUME NEW n \in service.captures, Capture(n) PROVE DocumentedIsServed' /\ OverlayConstructs'
  <2>1. /\ pc = "capture" /\ service' = service /\ pc' \in {"capture", "raised"}
        /\ pc' = "raised" => \E l \in Layers : ~ Served(l)
    BY <1>6 DEF Capture
  <2> QED  BY <1>2, <2>1, DocumentedServes
<1>7. CASE Ready
  BY <1>2, <1>7 DEF Ready, setup
<1>8. ASSUME NEW b \in Batches, Schedule(b) PROVE DocumentedIsServed' /\ OverlayConstructs'
  <2>1. service' = service /\ pc' \in {"update", "raised"} /\ (pc' = "raised" => service.dcp # 1)
    BY <1>8 DEF Schedule, setup
  <2> QED  BY <1>2, <2>1 DEF Documented
<1>9. CASE UpdateCache
  BY <1>2, <1>9 DEF UpdateCache, setup
<1>10. CASE Forward
  <2>1. /\ pc = "forward" /\ service' = service /\ pc' \in {"update", "sampled", "raised"}
        /\ pc' = "raised" => ~ Served(layer)
    BY <1>10 DEF Forward, setup
  <2> QED  BY <1>1, <1>2, <2>1, DocumentedServes
<1>11. CASE Sample
  BY <1>2, <1>11 DEF Sample, setup
<1>12. ASSUME NEW r \in Requests, Finish(r) PROVE DocumentedIsServed' /\ OverlayConstructs'
  <2>1. pc = "idle" /\ pc' = pc /\ service' = service
    BY <1>12 DEF Finish, setup
  <2> QED  BY <1>2, <2>1
<1>13. CASE UNCHANGED vars
  <2>1. pc' = pc /\ service' = service
    BY <1>13 DEF vars, setup
  <2> QED  BY <1>2, <2>1 DEF OverlayConstructs
<1> QED
  BY <1>3, <1>4, <1>5, <1>6, <1>7, <1>8, <1>9, <1>10, <1>11, <1>12, <1>13 DEF Next, Terminating

(***************************************************************************)
(* Whatever engine and whatever model: a configuration that the READMEs    *)
(* list is never refused and never raises, at any step of its life.        *)
(***************************************************************************)
THEOREM DocumentedConfigurationsAreServed == Spec => []DocumentedIsServed
<1>1. Init => SetupInv /\ DocumentedIsServed /\ OverlayConstructs
  BY SetupAtStart DEF Init, DocumentedIsServed, OverlayConstructs
<1>2. SetupInv /\ DocumentedIsServed /\ OverlayConstructs /\ [Next]_vars
        => (SetupInv /\ DocumentedIsServed /\ OverlayConstructs)'
  BY SetupStep, DocumentedStep
<1> QED  BY <1>1, <1>2, PTL DEF Spec

-----------------------------------------------------------------------------
(* A set no larger than another can be given its elements, each once.      *)
LEMMA EachItsOwn ==
  ASSUME NEW S, NEW T, IsFiniteSet(S), IsFiniteSet(T), Cardinality(S) <= Cardinality(T)
  PROVE  \E f \in [S -> T] : \A a, c \in S : f[a] = f[c] => a = c
<1> DEFINE m == Cardinality(S)  k == Cardinality(T)
<1>1. m \in Nat /\ k \in Nat /\ ExistsBijection(1 .. m, S) /\ ExistsBijection(1 .. k, T)
  BY FS_CardinalityType
<1>2. m <= k
  OBVIOUS
<1> HIDE DEF m, k
<1>3. PICK u : u \in Bijection(1 .. m, S)
  BY <1>1, Fun_ExistsBij
<1>4. PICK v : v \in Bijection(1 .. k, T)
  BY <1>1, Fun_ExistsBij
<1>9. u \in [1 .. m -> S] /\ u \in Surjection(1 .. m, S)
  BY <1>3, Fun_BijectionProperties
<1>10. \A t \in S : \E i \in 1 .. m : u[i] = t
  BY <1>9 DEF Surjection
<1>11. v \in [1 .. k -> T] /\ \A i, j \in 1 .. k : v[i] = v[j] => i = j
  BY <1>4, Fun_BijectionProperties
<1>5. /\ u \in [1 .. m -> S] /\ \A t \in S : \E i \in 1 .. m : u[i] = t
      /\ v \in [1 .. k -> T] /\ \A i, j \in 1 .. k : v[i] = v[j] => i = j
  BY <1>9, <1>10, <1>11
<1> DEFINE at(x) == CHOOSE i \in 1 .. m : u[i] = x
           f == [x \in S |-> v[at(x)]]
<1>6. ASSUME NEW x \in S PROVE at(x) \in 1 .. k /\ u[at(x)] = x
  BY <1>1, <1>2, <1>5
<1> HIDE DEF at
<1>7. f \in [S -> T]
  BY <1>5, <1>6
<1>8. ASSUME NEW a \in S, NEW c \in S, f[a] = f[c] PROVE a = c
  BY <1>5, <1>6, <1>8
<1> QED  BY <1>7, <1>8

(* As many pages are missing as the table is short of.                     *)
LEMMA MissingPages ==
  ASSUME NEW r, NEW a \in Nat, NEW b \in Nat
  PROVE  LET S == { <<r, p>> : p \in a + 1 .. b }
         IN  IsFiniteSet(S) /\ Cardinality(S) = IF b > a THEN b - a ELSE 0
<1> DEFINE S == { <<r, p>> : p \in a + 1 .. b }
           f == [p \in a + 1 .. b |-> <<r, p>>]
<1>1. f \in Bijection(a + 1 .. b, S)
  <2>1. f \in [a + 1 .. b -> S]
    OBVIOUS
  <2>2. \A x, y \in a + 1 .. b : f[x] = f[y] => x = y
    OBVIOUS
  <2>3. \A t \in S : \E x \in a + 1 .. b : f[x] = t
    OBVIOUS
  <2> HIDE DEF f, S
  <2> QED  BY <2>1, <2>2, <2>3, Fun_IsBij
<1> HIDE DEF f, S
<1>2. ExistsBijection(a + 1 .. b, S)
  BY <1>1, Fun_ExistsBij
<1>3. IsFiniteSet(a + 1 .. b) /\ Cardinality(a + 1 .. b) = IF a + 1 > b THEN 0 ELSE b - (a + 1) + 1
  BY FS_Interval
<1>4. IsFiniteSet(S) /\ Cardinality(S) = Cardinality(a + 1 .. b)
  BY <1>2, <1>3, FS_Bijection
<1>5. Cardinality(S) = IF b > a THEN b - a ELSE 0
  BY <1>3, <1>4
<1> QED  BY <1>4, <1>5 DEF S

(* Fewer tokens need no more pages.                                        *)
LEMMA FewerPages ==
  ASSUME service \in Services, NEW n \in Nat, NEW m \in Nat, n <= m
  PROVE  PagesFor(n) <= PagesFor(m)
<1> DEFINE d == service.page_size  p == PagesFor(n)  q == PagesFor(m)
<1>1. d \in Nat \ {0} /\ n + d - 1 \in Nat /\ p = (n + d - 1) \div d
  BY ServiceFacts DEF PagesFor
<1>2. q \in Nat /\ m <= q * d
  BY PagesCover
<1> HIDE DEF d, p, q
<1> DEFINE x == n + d - 1
<1>3. p \in Nat /\ p * d <= x
  <2> HIDE DEF x
  <2>1. p = x \div d /\ x \in Nat
    BY <1>1 DEF x
  <2>2. p \in Nat /\ x = p * d + (x % d) /\ x % d \in 0 .. d - 1
    BY <1>1, <2>1, DivMod
  <2>3. p * d \in Nat
    BY <1>1, <2>2
  <2> QED  BY <1>1, <2>2, <2>3
<1>4. ASSUME q + 1 <= p PROVE FALSE
  <2>1. (q + 1) * d <= p * d
    BY <1>1, <1>2, <1>3, <1>4, ProductsOrdered
  <2>2. (q + 1) * d = q * d + d /\ q * d \in Int /\ p * d \in Int
    BY <1>1, <1>2, <1>3
  <2> QED  BY <1>1, <1>2, <1>3, <2>1, <2>2
<1>5. p <= q
  BY <1>2, <1>3, <1>4
<1> QED  BY <1>5 DEF p, q

(* A row of a batch appends its new tokens.                                *)
LEMMA GrownRow ==
  ASSUME HoldsPages, NEW b \in Batches, NEW j \in DOMAIN b.rows
  PROVE  LET r == b.rows[j]
         IN  /\ Grown(b, r) \in Seq(Nat) /\ b.q[j] \in Nat
             /\ Len(Grown(b, r)) = Len(tokens[r]) + b.q[j]
             /\ \A i \in 1 .. Len(tokens[r]) : Grown(b, r)[i] = tokens[r][i]
<1> DEFINE r == b.rows[j]
<1>1. PICK n \in Nat \ {0} :
        /\ b.rows \in [1 .. n -> Requests] /\ b.q \in [1 .. n -> 1 .. MaxNew]
        /\ DOMAIN b.rows = 1 .. n /\ DOMAIN b.q = 1 .. n
        /\ \A x, y \in 1 .. n : b.rows[x] = b.rows[y] => x = y
  BY BatchShape
<1>2. j = CHOOSE x \in DOMAIN b.rows : b.rows[x] = r
  BY <1>1
<1>3. r \in Requests /\ b.q[j] \in Nat /\ step + 1 \in Nat
  BY <1>1, ConstantFacts DEF HoldsPages
<1> DEFINE new == [i \in 1 .. b.q[j] |-> step + 1]
<1>4. Grown(b, r) = tokens[r] \o new
  BY <1>2 DEF Grown
<1>5. new \in Seq(Nat) /\ Len(new) = b.q[j]
  <2>1. new \in [1 .. b.q[j] -> Nat]
    BY <1>3
  <2> HIDE DEF new
  <2> QED  BY <1>3, <2>1, FunctionIsSeq
<1>6. tokens[r] \in Seq(Nat) /\ Len(tokens[r]) \in Nat
  BY <1>3, LenProperties DEF HoldsPages
<1> HIDE DEF r, new
<1>7. /\ Grown(b, r) \in Seq(Nat) /\ Len(Grown(b, r)) = Len(tokens[r]) + b.q[j]
      /\ \A i \in 1 .. Len(tokens[r]) + b.q[j] :
           Grown(b, r)[i] = IF i <= Len(tokens[r]) THEN tokens[r][i] ELSE new[i - Len(tokens[r])]
  <2> DEFINE old == tokens[r]
  <2>1. old \in Seq(Nat) /\ Grown(b, r) = old \o new
    BY <1>4, <1>6
  <2> HIDE DEF old
  <2>2. /\ old \o new \in Seq(Nat) /\ Len(old \o new) = Len(old) + Len(new)
        /\ \A i \in 1 .. Len(old) + Len(new) : (old \o new)[i] =
             IF i <= Len(old) THEN old[i] ELSE new[i - Len(old)]
    BY <1>5, <2>1, ConcatProperties
  <2> QED  BY <1>5, <2>1, <2>2 DEF old
<1>8. \A i \in 1 .. Len(tokens[r]) : Grown(b, r)[i] = tokens[r][i]
  BY <1>3, <1>6, <1>7
<1> QED  BY <1>3, <1>7, <1>8 DEF r

(* Scheduling a batch appends to the tokens of its rows.                   *)
LEMMA ScheduledTokens ==
  ASSUME HoldsPages, NEW b \in Batches, Schedule(b)
  PROVE  /\ tokens' \in [Requests -> Seq(Nat)]
         /\ \A r \in Requests : /\ Len(tokens[r]) <= Len(tokens'[r])
                                /\ \A i \in 1 .. Len(tokens[r]) : tokens'[r][i] = tokens[r][i]
         /\ \A j \in DOMAIN b.rows : /\ b.rows[j] \in Requests /\ b.q[j] \in Nat
                                     /\ Len(tokens'[b.rows[j]]) = Len(tokens[b.rows[j]]) + b.q[j]
         /\ \A r \in Requests : (\A j \in DOMAIN b.rows : b.rows[j] # r) => tokens'[r] = tokens[r]
<1>1. tokens' = [r \in Requests |-> IF \E j \in DOMAIN b.rows : b.rows[j] = r
                                    THEN Grown(b, r) ELSE tokens[r]]
  BY DEF Schedule
<1>2. \A r \in Requests : tokens[r] \in Seq(Nat) /\ Len(tokens[r]) \in Nat
  BY LenProperties DEF HoldsPages
<1>3. \A j \in DOMAIN b.rows : b.rows[j] \in Requests
  BY BatchShape
<1>4. ASSUME NEW j \in DOMAIN b.rows
      PROVE  LET r == b.rows[j]
             IN  /\ tokens'[r] \in Seq(Nat) /\ b.q[j] \in Nat
                 /\ Len(tokens'[r]) = Len(tokens[r]) + b.q[j]
                 /\ \A i \in 1 .. Len(tokens[r]) : tokens'[r][i] = tokens[r][i]
  <2>1. tokens'[b.rows[j]] = Grown(b, b.rows[j])
    BY <1>1, <1>3
  <2> QED  BY <2>1, GrownRow
<1>5. ASSUME NEW r \in Requests, \A j \in DOMAIN b.rows : b.rows[j] # r PROVE tokens'[r] = tokens[r]
  BY <1>1, <1>5
<1>6. ASSUME NEW r \in Requests
      PROVE  /\ tokens'[r] \in Seq(Nat) /\ Len(tokens[r]) <= Len(tokens'[r])
             /\ \A i \in 1 .. Len(tokens[r]) : tokens'[r][i] = tokens[r][i]
  <2>1. CASE \E j \in DOMAIN b.rows : b.rows[j] = r
    <3>1. PICK j \in DOMAIN b.rows : b.rows[j] = r
      BY <2>1
    <3>2. Len(tokens'[r]) = Len(tokens[r]) + b.q[j] /\ b.q[j] \in Nat /\ tokens'[r] \in Seq(Nat)
          /\ \A i \in 1 .. Len(tokens[r]) : tokens'[r][i] = tokens[r][i]
      BY <1>4, <3>1
    <3> QED  BY <1>2, <3>2
  <2>2. CASE \A j \in DOMAIN b.rows : b.rows[j] # r
    BY <1>2, <1>5, <2>2
  <2> QED  BY <2>1, <2>2
<1>7. tokens' \in [Requests -> Seq(Nat)]
  <2>1. \A r \in Requests : tokens'[r] \in Seq(Nat)
    BY <1>6
  <2> QED  BY <1>1, <2>1
<1> QED  BY <1>3, <1>4, <1>5, <1>6, <1>7

(* New pages are free ones, and each goes to one place of one table.       *)
LEMMA ScheduledPages ==
  ASSUME SetupInv, HoldsPages, PagesHaveOneOwner, NEW b \in Batches, Schedule(b)
  PROVE  /\ HoldsPages' /\ PagesHaveOneOwner'
         /\ \A r \in Requests : \A p \in DOMAIN table[r] : p \in DOMAIN table'[r] /\ table'[r][p] = table[r][p]
<1> DEFINE need(r) == PagesFor(Len(tokens'[r]))
           missing == [r \in Requests |->
                         { <<r, p>> : p \in Len(table[r]) + 1 .. PagesFor(Len(tokens'[r])) }]
           wanted == UNION { missing[r] : r \in Requests }
           given == CHOOSE f \in [wanted -> FreePages] : \A a, c \in wanted : f[a] = f[c] => a = c
           more(r) == [k \in 1 .. Cardinality(missing[r]) |-> given[<<r, Len(table[r]) + k>>]]
           Pages == 0 .. NumPages - 1
<1>1. /\ Cardinality(wanted) <= Cardinality(FreePages)
      /\ table' = [r \in Requests |-> table[r] \o more(r)]
      /\ step' = step + 1 /\ service' = service
  BY DEF Schedule, setup
<1>2. service \in Services
  BY DEF SetupInv
<1>3. \A r \in Requests : table[r] \in Seq(Pages) /\ Len(table[r]) \in Nat /\ DOMAIN table[r] = 1 .. Len(table[r])
  BY LenProperties DEF HoldsPages
<1>4. tokens' \in [Requests -> Seq(Nat)] /\ \A r \in Requests : Len(tokens'[r]) \in Nat
  BY ScheduledTokens, LenProperties
<1>5. ASSUME NEW r \in Requests PROVE need(r) \in Nat
  <2>1. Len(tokens'[r]) \in Nat
    BY <1>4
  <2> QED  BY <1>2, <2>1, PagesCover
<1>6. ASSUME NEW r \in Requests
      PROVE  /\ missing[r] = { <<r, p>> : p \in Len(table[r]) + 1 .. need(r) }
             /\ IsFiniteSet(missing[r])
             /\ Cardinality(missing[r]) = IF need(r) > Len(table[r]) THEN need(r) - Len(table[r]) ELSE 0
  <2> DEFINE u == need(r)  a == Len(table[r])  S == missing[r]
  <2>1. S = { <<r, p>> : p \in a + 1 .. u }
    OBVIOUS
  <2>2. u \in Nat /\ a \in Nat
    BY <1>3, <1>5
  <2> HIDE DEF u, a, S
  <2>3. IsFiniteSet(S) /\ Cardinality(S) = IF u > a THEN u - a ELSE 0
    <3> DEFINE M == { <<r, p>> : p \in a + 1 .. u }
    <3>1. IsFiniteSet(M) /\ Cardinality(M) = IF u > a THEN u - a ELSE 0
      BY <2>2, MissingPages
    <3> QED  BY <2>1, <3>1
  <2> QED  BY <2>1, <2>3 DEF u, a, S
<1>7. IsFiniteSet(wanted)
  <2> DEFINE M == { missing[r] : r \in Requests }
  <2>1. missing \in [Requests -> M] /\ \A t \in M : \E r \in Requests : missing[r] = t
    OBVIOUS
  <2>2. \A t \in M : IsFiniteSet(t)
    BY <1>6
  <2> HIDE DEF M, missing
  <2>3. missing \in Surjection(Requests, M)
    BY <2>1, Fun_IsSurj
  <2>4. IsFiniteSet(M)
    BY <2>3, ConstantFacts, FS_Surjection
  <2>5. IsFiniteSet(UNION M)
    BY <2>2, <2>4, FS_UNION
  <2> QED  BY <2>5 DEF M
<1>8. FreePages \subseteq Pages /\ IsFiniteSet(FreePages)
  <2>1. FreePages \in SUBSET Pages
    BY DEF FreePages
  <2>2. IsFiniteSet(Pages)
    BY ConstantFacts, FS_Interval
  <2> HIDE DEF Pages
  <2> QED  BY <2>1, <2>2, FS_Subset
<1>9. given \in [wanted -> FreePages] /\ \A a, c \in wanted : given[a] = given[c] => a = c
  <2> HIDE DEF wanted
  <2>1. \E f \in [wanted -> FreePages] : \A a, c \in wanted : f[a] = f[c] => a = c
    BY <1>1, <1>7, <1>8, EachItsOwn
  <2> QED  BY <2>1
<1>10. ASSUME NEW r \in Requests, NEW p \in Len(table[r]) + 1 .. need(r)
       PROVE  <<r, p>> \in wanted
  BY <1>6
<1> HIDE DEF given, wanted
<1>11. ASSUME NEW r \in Requests
       PROVE  /\ table'[r] \in Seq(Pages)
              /\ Len(table'[r]) = IF need(r) > Len(table[r]) THEN need(r) ELSE Len(table[r])
              /\ \A p \in 1 .. Len(table[r]) : table'[r][p] = table[r][p]
              /\ \A p \in Len(table[r]) + 1 .. Len(table'[r]) :
                   p \in Len(table[r]) + 1 .. need(r) /\ table'[r][p] = given[<<r, p>>]
  <2> DEFINE old == table[r]  new == more(r)  n == Cardinality(missing[r])  u == need(r)
  <2>1. u \in Nat /\ old \in Seq(Pages) /\ Len(old) \in Nat
    BY <1>3, <1>5
  <2>2. n = IF u > Len(old) THEN u - Len(old) ELSE 0
    BY <1>6
  <2>3. n \in Nat
    BY <2>1, <2>2
  <2>4. \A p \in Len(old) + 1 .. u : given[<<r, p>>] \in Pages
    BY <1>8, <1>9, <1>10
  <2>5. new = [k \in 1 .. n |-> given[<<r, Len(old) + k>>]]
    OBVIOUS
  <2>6. table'[r] = old \o new
    BY <1>1
  <2> HIDE DEF old, new, n, u, Pages
  <2>7. \A k \in 1 .. n : Len(old) + k \in Len(old) + 1 .. u
    BY <2>1, <2>2
  <2>8. new \in [1 .. n -> Pages]
    BY <2>4, <2>5, <2>7
  <2>9. new \in Seq(Pages) /\ Len(new) = n
    BY <2>3, <2>8, FunctionIsSeq
  <2>10. /\ old \o new \in Seq(Pages) /\ Len(old \o new) = Len(old) + n
         /\ \A p \in 1 .. Len(old) + n : (old \o new)[p] = IF p <= Len(old) THEN old[p] ELSE new[p - Len(old)]
    BY <2>1, <2>9, ConcatProperties
  <2>11. Len(table'[r]) = IF u > Len(old) THEN u ELSE Len(old)
    BY <2>1, <2>2, <2>6, <2>10
  <2>12. \A p \in 1 .. Len(old) : table'[r][p] = old[p]
    BY <2>1, <2>3, <2>6, <2>10
  <2>13. ASSUME NEW p \in Len(old) + 1 .. Len(table'[r])
         PROVE  p \in Len(old) + 1 .. u /\ table'[r][p] = given[<<r, p>>]
    <3>1. p \in Len(old) + 1 .. u /\ p \in 1 .. Len(old) + n /\ ~ (p <= Len(old))
      BY <2>1, <2>2, <2>11
    <3>2. p - Len(old) \in 1 .. n /\ Len(old) + (p - Len(old)) = p
      BY <2>1, <2>2, <3>1
    <3>3. table'[r][p] = new[p - Len(old)]
      BY <2>6, <2>10, <3>1
    <3> QED  BY <2>5, <3>1, <3>2, <3>3
  <2> QED  BY <2>6, <2>10, <2>11, <2>12, <2>13 DEF old, u, Pages
<1> HIDE DEF missing, more
<1>12. \A r \in Requests : DOMAIN table'[r] = 1 .. Len(table'[r]) /\ Len(table'[r]) \in Nat
  BY <1>11, LenProperties
<1>13. \A r \in Requests : PagesFor(Len(tokens'[r])) <= Len(table'[r])
  <2>1. ASSUME NEW r \in Requests PROVE need(r) <= Len(table'[r])
    <3>1. need(r) \in Nat /\ Len(table[r]) \in Nat
      BY <1>3, <1>5
    <3> HIDE DEF need
    <3> QED  BY <1>11, <3>1
  <2> QED  BY <2>1
<1>14. HoldsPages'
  <2>1. step' \in Nat
    BY <1>1 DEF HoldsPages
  <2>2. table' \in [Requests -> Seq(0 .. NumPages - 1)]
    BY <1>1, <1>11
  <2>3. PagesFor(0)' = PagesFor(0) /\ \A n : PagesFor(n)' = PagesFor(n)
    BY <1>1 DEF PagesFor
  <2> QED  BY <1>1, <1>4, <1>13, <2>1, <2>2 DEF HoldsPages, PagesFor
<1> HIDE DEF need
<1>15. \A r \in Requests : \A p \in DOMAIN table[r] : p \in DOMAIN table'[r] /\ table'[r][p] = table[r][p]
  <2>1. SUFFICES ASSUME NEW r \in Requests, NEW p \in DOMAIN table[r]
                 PROVE  p \in DOMAIN table'[r] /\ table'[r][p] = table[r][p]
    OBVIOUS
  <2>2. need(r) \in Nat /\ Len(table[r]) \in Nat /\ p \in 1 .. Len(table[r])
    BY <1>3, <1>5
  <2>3. Len(table'[r]) = IF need(r) > Len(table[r]) THEN need(r) ELSE Len(table[r])
    BY <1>11
  <2>4. p \in 1 .. Len(table'[r])
    BY <2>2, <2>3
  <2> QED  BY <1>11, <1>12, <2>2, <2>4
<1>16. ASSUME NEW r \in Requests, NEW p \in DOMAIN table'[r]
       PROVE  \/ p \in DOMAIN table[r] /\ table'[r][p] = table[r][p] /\ table'[r][p] \notin FreePages
              \/ <<r, p>> \in wanted /\ table'[r][p] = given[<<r, p>>] /\ table'[r][p] \in FreePages
  <2>1. p \in 1 .. Len(table'[r]) /\ Len(table[r]) \in Nat
    BY <1>3, <1>12
  <2>2. CASE p \in 1 .. Len(table[r])
    <3>1. p \in DOMAIN table[r] /\ table'[r][p] = table[r][p]
      BY <1>3, <1>11, <2>2
    <3>2. table[r][p] \notin FreePages
      BY <3>1 DEF FreePages
    <3> QED  BY <3>1, <3>2
  <2>3. CASE p \notin 1 .. Len(table[r])
    <3>1. p \in Len(table[r]) + 1 .. Len(table'[r])
      BY <1>12, <2>1, <2>3
    <3>2. <<r, p>> \in wanted /\ table'[r][p] = given[<<r, p>>]
      BY <1>10, <1>11, <3>1
    <3> QED  BY <1>9, <3>2
  <2> QED  BY <2>2, <2>3
<1>17. PagesHaveOneOwner'
  <2>1. SUFFICES ASSUME NEW r \in Requests, NEW s \in Requests,
                        NEW p \in DOMAIN table'[r], NEW t \in DOMAIN table'[s], table'[r][p] = table'[s][t]
                 PROVE  r = s /\ p = t
    BY DEF PagesHaveOneOwner
  <2>2. CASE table'[r][p] \notin FreePages
    <3>1. /\ p \in DOMAIN table[r] /\ table'[r][p] = table[r][p]
          /\ t \in DOMAIN table[s] /\ table'[s][t] = table[s][t]
      BY <1>16, <2>1, <2>2
    <3>2. table[r][p] = table[s][t]
      BY <2>1, <3>1
    <3> QED  BY <3>1, <3>2 DEF PagesHaveOneOwner
  <2>3. CASE table'[r][p] \in FreePages
    <3>1. /\ <<r, p>> \in wanted /\ table'[r][p] = given[<<r, p>>]
          /\ <<s, t>> \in wanted /\ table'[s][t] = given[<<s, t>>]
      BY <1>16, <2>1, <2>3
    <3>2. <<r, p>> = <<s, t>>
      BY <1>9, <2>1, <3>1
    <3> QED  BY <3>2
  <2> QED  BY <2>2, <2>3
<1> QED  BY <1>14, <1>15, <1>17

(* Sampling drops the last tokens of a row, and only those.                *)
LEMMA SampledTokens ==
  ASSUME HoldsPages, BatchInv, Sample
  PROVE  /\ tokens' \in [Requests -> Seq(Nat)]
         /\ \A r \in Requests : /\ Len(tokens'[r]) <= Len(tokens[r])
                                /\ \A i \in 1 .. Len(tokens'[r]) : tokens'[r][i] = tokens[r][i]
<1>1. PICK rejected \in [DOMAIN batch.q -> 0 .. MaxNew - 1] :
        /\ \A j \in DOMAIN batch.q : rejected[j] < batch.q[j]
        /\ tokens' = [r \in Requests |->
             IF \E j \in DOMAIN batch.rows : batch.rows[j] = r
             THEN LET j == CHOOSE j \in DOMAIN batch.rows : batch.rows[j] = r
                  IN  SubSeq(tokens[r], 1, Len(tokens[r]) - rejected[j])
             ELSE tokens[r]]
  BY DEF Sample
<1>2. batch \in Batches
      /\ \A j \in DOMAIN batch.rows : batch.q[j] <= Len(tokens[batch.rows[j]])
  BY DEF Sample, BatchInv, Running
<1>3. PICK n \in Nat \ {0} :
        /\ batch.rows \in [1 .. n -> Requests] /\ batch.q \in [1 .. n -> 1 .. MaxNew]
        /\ DOMAIN batch.rows = 1 .. n /\ DOMAIN batch.q = 1 .. n
  BY <1>2, BatchShape
<1>4. ASSUME NEW r \in Requests
      PROVE  /\ tokens'[r] \in Seq(Nat) /\ Len(tokens'[r]) <= Len(tokens[r])
             /\ \A i \in 1 .. Len(tokens'[r]) : tokens'[r][i] = tokens[r][i]
  <2>1. tokens[r] \in Seq(Nat) /\ Len(tokens[r]) \in Nat /\ \A i \in 1 .. Len(tokens[r]) : tokens[r][i] \in Nat
    BY LenProperties, ElementOfSeq DEF HoldsPages
  <2>2. CASE \E j \in DOMAIN batch.rows : batch.rows[j] = r
    <3> DEFINE j == CHOOSE j \in DOMAIN batch.rows : batch.rows[j] = r
               old == tokens[r]  m == Len(tokens[r]) - rejected[j]
    <3>1. j \in DOMAIN batch.rows /\ batch.rows[j] = r
      BY <2>2
    <3>2. tokens'[r] = SubSeq(old, 1, m)
      BY <1>1, <2>2
    <3>3. rejected[j] \in Nat /\ rejected[j] < batch.q[j] /\ batch.q[j] \in Nat /\ batch.q[j] <= Len(old)
      <4>1. batch.q[j] <= Len(old)
        BY <1>2, <3>1
      <4>2. j \in DOMAIN batch.q /\ MaxNew \in Nat \ {0}
        BY <1>3, <3>1, ConstantFacts
      <4> HIDE DEF j, old
      <4> QED  BY <1>1, <1>3, <4>1, <4>2
    <3>4. m \in Int /\ m <= Len(old) /\ 1 <= m
      BY <2>1, <3>3
    <3> HIDE DEF m, old
    <3>5. \A i \in 1 .. m : old[i] \in Nat
      BY <2>1, <3>4 DEF old
    <3>6. /\ SubSeq(old, 1, m) \in Seq(Nat) /\ Len(SubSeq(old, 1, m)) = IF 1 <= m THEN m - 1 + 1 ELSE 0
          /\ \A i \in 1 .. m - 1 + 1 : SubSeq(old, 1, m)[i] = old[1 + i - 1]
      BY <3>4, <3>5, SubSeqProperties
    <3>7. Len(tokens'[r]) = m
      BY <3>2, <3>4, <3>6
    <3>8. ASSUME NEW i \in 1 .. m PROVE tokens'[r][i] = old[i]
      <4>1. i \in 1 .. m - 1 + 1 /\ 1 + i - 1 = i
        BY <3>4
      <4> QED  BY <3>2, <3>6, <4>1
    <3> QED  BY <3>2, <3>4, <3>6, <3>7, <3>8 DEF old
  <2>3. CASE ~ \E j \in DOMAIN batch.rows : batch.rows[j] = r
    <3>1. tokens'[r] = tokens[r]
      BY <1>1, <2>3
    <3> QED  BY <2>1, <3>1
  <2> QED  BY <2>2, <2>3
<1>5. tokens' \in [Requests -> Seq(Nat)]
  BY <1>1, <1>4
<1> QED  BY <1>4, <1>5

(* No token needs no page.                                                 *)
LEMMA NoPages == service \in Services => PagesFor(0) = 0
<1> SUFFICES ASSUME service \in Services PROVE PagesFor(0) = 0
  OBVIOUS
<1> DEFINE d == service.page_size  p == PagesFor(0)  x == d - 1
<1>1. d \in Nat \ {0} /\ x \in Nat /\ x < d /\ p = x \div d
  BY ServiceFacts DEF PagesFor
<1> HIDE DEF d, p, x
<1>2. p \in Nat /\ x = p * d + (x % d) /\ x % d \in 0 .. d - 1
  BY <1>1, DivMod
<1>3. 0 * d + x = p * d + (x % d) /\ x \in 0 .. d - 1
  BY <1>1, <1>2
<1>4. 0 = p
  BY <1>1, <1>2, <1>3, GridPlace
<1> QED  BY <1>4 DEF p

(* Every page has one owner, and a request the pages its tokens need.      *)
LEMMA PagesAtStart == Init => HoldsPages /\ PagesHaveOneOwner
<1> SUFFICES ASSUME Init PROVE HoldsPages /\ PagesHaveOneOwner
  OBVIOUS
<1>1. service \in Services /\ step = 0
      /\ tokens = [r \in Requests |-> << >>] /\ table = [r \in Requests |-> << >>]
  BY DEF Init
<1>2. PagesFor(0) = 0
  BY <1>1, NoPages
<1>3. \A S : << >> \in Seq(S)
  OBVIOUS
<1>4. HoldsPages
  BY <1>1, <1>2, <1>3 DEF HoldsPages
<1>5. PagesHaveOneOwner
  BY <1>1 DEF PagesHaveOneOwner
<1> QED  BY <1>4, <1>5

LEMMA PagesStep ==
  SetupInv /\ HoldsPages /\ PagesHaveOneOwner /\ BatchInv /\ [Next]_vars
    => HoldsPages' /\ PagesHaveOneOwner'
<1> SUFFICES ASSUME SetupInv, HoldsPages, PagesHaveOneOwner, BatchInv, [Next]_vars
             PROVE  HoldsPages' /\ PagesHaveOneOwner'
  OBVIOUS
<1>1. service \in Services
  BY DEF SetupInv
<1>2. ASSUME service' = service, UNCHANGED <<step, tokens, table>>
      PROVE  HoldsPages' /\ PagesHaveOneOwner'
  BY <1>2 DEF HoldsPages, PagesHaveOneOwner, PagesFor
<1>3. CASE Sample
  <2>1. service' = service /\ step' = step /\ table' = table
    BY <1>3 DEF Sample, setup
  <2>2. tokens' \in [Requests -> Seq(Nat)] /\ \A r \in Requests : Len(tokens'[r]) <= Len(tokens[r])
    BY <1>3, SampledTokens
  <2>3. ASSUME NEW r \in Requests PROVE PagesFor(Len(tokens'[r])) <= Len(table[r])
    <3> DEFINE n == Len(tokens'[r])  m == Len(tokens[r])
    <3>1. n \in Nat /\ m \in Nat /\ n <= m /\ PagesFor(m) <= Len(table[r]) /\ Len(table[r]) \in Nat
      BY <2>2, LenProperties DEF HoldsPages
    <3> HIDE DEF n, m
    <3>2. PagesFor(n) \in Nat /\ PagesFor(m) \in Nat /\ PagesFor(n) <= PagesFor(m)
      BY <1>1, <3>1, PagesCover, FewerPages
    <3>3. PagesFor(n) <= Len(table[r])
      BY <3>1, <3>2
    <3> QED  BY <3>3 DEF n
  <2>4. HoldsPages'
    BY <2>1, <2>2, <2>3 DEF HoldsPages, PagesFor
  <2>5. PagesHaveOneOwner'
    BY <2>1 DEF PagesHaveOneOwner
  <2> QED  BY <2>4, <2>5
<1>4. ASSUME NEW s \in Requests, Finish(s) PROVE HoldsPages' /\ PagesHaveOneOwner'
  <2>1. /\ service' = service /\ step' = step
        /\ tokens' = [tokens EXCEPT ![s] = << >>] /\ table' = [table EXCEPT ![s] = << >>]
    BY <1>4 DEF Finish, setup
  <2>2. ASSUME NEW r \in Requests
        PROVE  \/ tokens'[r] = tokens[r] /\ table'[r] = table[r]
               \/ tokens'[r] = << >> /\ table'[r] = << >>
    BY <2>1 DEF HoldsPages
  <2>3. tokens' \in [Requests -> Seq(Nat)] /\ table' \in [Requests -> Seq(0 .. NumPages - 1)]
    <3>1. << >> \in Seq(Nat) /\ << >> \in Seq(0 .. NumPages - 1)
      OBVIOUS
    <3> QED  BY <2>1, <3>1 DEF HoldsPages
  <2>4. PagesFor(0) = 0
    BY <1>1, NoPages
  <2>5. \A r \in Requests : PagesFor(Len(tokens'[r])) <= Len(table'[r])
    BY <2>2, <2>4 DEF HoldsPages
  <2>6. HoldsPages'
    BY <2>1, <2>3, <2>5 DEF HoldsPages, PagesFor
  <2>7. PagesHaveOneOwner'
    <3>1. SUFFICES ASSUME NEW r \in Requests, NEW u \in Requests,
                          NEW p \in DOMAIN table'[r], NEW t \in DOMAIN table'[u], table'[r][p] = table'[u][t]
                   PROVE  r = u /\ p = t
      BY DEF PagesHaveOneOwner
    <3>2. DOMAIN << >> = {}
      OBVIOUS
    <3>3. table'[r] = table[r] /\ table'[u] = table[u]
      BY <2>2, <3>2
    <3>4. p \in DOMAIN table[r] /\ t \in DOMAIN table[u] /\ table[r][p] = table[u][t]
      BY <3>1, <3>3
    <3> QED  BY <3>4 DEF PagesHaveOneOwner
  <2> QED  BY <2>6, <2>7
<1>5. ASSUME NEW b \in Batches, Schedule(b) PROVE HoldsPages' /\ PagesHaveOneOwner'
  BY <1>5, ScheduledPages
<1>6. CASE SelectLayer
  BY <1>2, <1>6 DEF SelectLayer, engine
<1>7. CASE ConstructImpl
  BY <1>2, <1>7 DEF ConstructImpl, setup, engine
<1>8. CASE ConstructBuilder
  BY <1>2, <1>8 DEF ConstructBuilder, setup, engine
<1>9. ASSUME NEW n \in service.captures, Capture(n) PROVE HoldsPages' /\ PagesHaveOneOwner'
  BY <1>2, <1>9 DEF Capture, engine
<1>10. CASE Ready
  BY <1>2, <1>10 DEF Ready, setup, engine
<1>11. CASE UpdateCache
  BY <1>2, <1>11 DEF UpdateCache, setup, engine
<1>12. CASE Forward
  BY <1>2, <1>12 DEF Forward, setup, engine
<1>13. CASE UNCHANGED vars
  BY <1>2, <1>13 DEF vars, setup, engine
<1> QED
  BY <1>3, <1>4, <1>5, <1>6, <1>7, <1>8, <1>9, <1>10, <1>11, <1>12, <1>13 DEF Next, Terminating

-----------------------------------------------------------------------------
(* Neither does a layer's own test change.                                 *)
LEMMA ServedStays ==
  ASSUME service' = service, impl' = impl
  PROVE  \A k : Served(k)' = Served(k)
BY DEF Served, QueryDtype, WindowLeft, Layout, Plugin, Family100, ExtensionSelected, CacheDtype

(* A step's batch stays until it is sampled, and its layers are served.    *)
LEMMA BatchStep ==
  SetupInv /\ HoldsPages /\ BatchInv /\ [Next]_vars => BatchInv'
<1> SUFFICES ASSUME SetupInv, HoldsPages, BatchInv, [Next]_vars PROVE BatchInv'
  OBVIOUS
<1> USE DEF Running
<1>1. layer \in 1 .. Len(service.layers) /\ Len(service.layers) \in Nat \ {0}
  BY ServiceFacts DEF SetupInv, Layers
<1>2. ASSUME pc' \notin Running PROVE BatchInv'
  BY <1>2 DEF BatchInv
<1>3. ASSUME UNCHANGED <<setup, engine>>, pc \in Running, pc' \in Running,
             \A k \in 1 .. layer' - 1 : Served(k),
             pc' = "sampled" => layer' = Len(service.layers) /\ Served(layer')
      PROVE  BatchInv'
  <2>1. service' = service /\ impl' = impl /\ tokens' = tokens /\ batch' = batch
    BY <1>3 DEF setup, engine
  <2>2. /\ batch \in Batches
        /\ \A j \in DOMAIN batch.rows : /\ batch.q[j] <= Len(tokens[batch.rows[j]])
                                        /\ Len(tokens[batch.rows[j]]) <= service.max_len
    BY <1>3 DEF BatchInv
  <2>3. /\ \A k \in 1 .. layer' - 1 : Served(k)'
        /\ pc' = "sampled" => Served(layer)'
    <3>1. \A k : Served(k)' = Served(k)
      BY <2>1, ServedStays
    <3>2. Served(layer)' = Served(layer')
      BY <2>1 DEF Served, QueryDtype, WindowLeft, Layout, Plugin, Family100, ExtensionSelected, CacheDtype
    <3> QED  BY <1>3, <3>1, <3>2
  <2>4. batch' \in Batches'
    BY <2>1, <2>2 DEF Batches
  <2> QED  BY <1>3, <2>1, <2>2, <2>3, <2>4 DEF BatchInv
<1>4. CASE SelectLayer
  BY <1>2, <1>4 DEF SelectLayer
<1>5. CASE ConstructImpl
  BY <1>2, <1>5 DEF ConstructImpl
<1>6. CASE ConstructBuilder
  BY <1>2, <1>6 DEF ConstructBuilder
<1>7. ASSUME NEW n \in service.captures, Capture(n) PROVE BatchInv'
  BY <1>2, <1>7 DEF Capture
<1>8. CASE Ready
  BY <1>2, <1>8 DEF Ready
<1>9. ASSUME NEW b \in Batches, Schedule(b) PROVE BatchInv'
  <2>1. /\ batch' = b /\ layer' = 1 /\ service' = service
        /\ pc' \in {"update", "raised"}
        /\ \A j \in DOMAIN b.rows : Len(tokens[b.rows[j]]) + b.q[j] <= service.max_len
    BY <1>9 DEF Schedule, setup
  <2>2. \A j \in DOMAIN b.rows : /\ b.rows[j] \in Requests /\ b.q[j] \in Nat
                                 /\ Len(tokens'[b.rows[j]]) = Len(tokens[b.rows[j]]) + b.q[j]
    BY <1>9, ScheduledTokens
  <2>3. \A j \in DOMAIN b.rows : /\ b.q[j] <= Len(tokens'[b.rows[j]])
                                 /\ Len(tokens'[b.rows[j]]) <= service.max_len
    <3>1. \A j \in DOMAIN b.rows : Len(tokens[b.rows[j]]) \in Nat
      BY <2>2, LenProperties DEF HoldsPages
    <3> QED  BY <2>1, <2>2, <3>1
  <2>4. b \in Batches'
    BY DEF Batches
  <2>5. \A k \in 1 .. layer' - 1 : Served(k)'
    BY <2>1
  <2> QED  BY <2>1, <2>3, <2>4, <2>5 DEF BatchInv
<1>10. CASE UpdateCache
  <2>1. pc = "update" /\ pc' = "forward" /\ UNCHANGED <<setup, engine>> /\ layer' = layer
    BY <1>10 DEF UpdateCache
  <2>2. \A k \in 1 .. layer' - 1 : Served(k)
    BY <2>1 DEF BatchInv
  <2> QED  BY <1>3, <2>1, <2>2
<1>11. CASE Forward
  <2>1. pc = "forward" /\ UNCHANGED <<setup, engine>>
    BY <1>11 DEF Forward
  <2>2. CASE ~ Served(layer)
    <3>1. pc' = "raised"
      BY <1>11, <2>2 DEF Forward
    <3> QED  BY <1>2, <3>1
  <2>3. CASE Served(layer)
    <3>1. \A k \in 1 .. layer : Served(k)
      <4>1. \A k \in 1 .. layer - 1 : Served(k)
        BY <2>1 DEF BatchInv
      <4>2. \A k \in 1 .. layer : k \in 1 .. layer - 1 \/ k = layer
        BY <1>1
      <4> QED  BY <2>3, <4>1, <4>2
    <3>2. CASE layer < Len(service.layers)
      <4>1. pc' = "update" /\ layer' = layer + 1 /\ layer' - 1 = layer
        BY <1>1, <1>11, <2>3, <3>2 DEF Forward
      <4> QED  BY <1>3, <2>1, <3>1, <4>1
    <3>3. CASE ~ (layer < Len(service.layers))
      <4>1. pc' = "sampled" /\ layer' = layer /\ layer = Len(service.layers)
        BY <1>1, <1>11, <2>3, <3>3 DEF Forward
      <4>2. \A k \in 1 .. layer' - 1 : Served(k)
        BY <1>1, <3>1, <4>1
      <4> QED  BY <1>3, <2>1, <2>3, <4>1, <4>2
    <3> QED  BY <3>2, <3>3
  <2> QED  BY <2>2, <2>3
<1>12. CASE Sample
  BY <1>2, <1>12 DEF Sample
<1>13. ASSUME NEW r \in Requests, Finish(r) PROVE BatchInv'
  <2>1. pc' = "idle"
    BY <1>13 DEF Finish
  <2> QED  BY <1>2, <2>1
<1>14. CASE UNCHANGED vars
  <2>1. UNCHANGED <<setup, engine>> /\ layer' = layer /\ pc' = pc
    BY <1>14 DEF vars
  <2>2. CASE pc \in Running
    BY <1>3, <2>1, <2>2 DEF BatchInv
  <2>3. CASE pc \notin Running
    BY <1>2, <2>1, <2>3
  <2> QED  BY <2>2, <2>3
<1> QED
  BY <1>4, <1>5, <1>6, <1>7, <1>8, <1>9, <1>10, <1>11, <1>12, <1>13, <1>14 DEF Next, Terminating

(* The arguments of a call made on this batch hold for it.                 *)
LEMMA FitsItsBatch ==
  ASSUME SetupInv, HoldsPages, BatchInv, pc = "forward", impl[layer] # "stock",
         NEW c, c = IF Replays THEN graphs[ReplayedSize]
                    ELSE Arguments(Len(batch.rows), count, MaxQuery)
  PROVE  /\ Len(batch.rows) <= c.batch /\ count <= c.tokens
         /\ \A j \in DOMAIN batch.rows : /\ batch.q[j] <= c.max_q
                                         /\ Len(tokens[batch.rows[j]]) <= c.max_k
<1>1. /\ batch \in Batches
      /\ \A j \in DOMAIN batch.rows : Len(tokens[batch.rows[j]]) <= service.max_len
  BY DEF BatchInv, Running
<1>2. PICK n \in Nat \ {0} :
        /\ batch.q \in [1 .. n -> 1 .. MaxNew]
        /\ DOMAIN batch.rows = 1 .. n /\ DOMAIN batch.q = 1 .. n
        /\ Len(batch.rows) = n /\ Len(batch.q) = n
  BY <1>1, BatchShape
<1>3. service \in Services /\ CapturesUniform
  BY DEF SetupInv
<1>4. service.uniform \in Nat \ {0} /\ Maximum = service.max_len
  BY <1>3, ServiceFacts, MaximumIsModelLength
<1>5. count \in Nat /\ \A u \in Nat : (\A j \in DOMAIN batch.q : batch.q[j] = u) => count = n * u
  BY <1>1, <1>2, TokensOfBatch
<1>6. CASE Replays
  <2> DEFINE u == service.uniform  s == ReplayedSize  Fits == { g \in DOMAIN graphs : count <= g }
  <2>1. Fits \in SUBSET Nat /\ Fits # {}
    BY <1>3, <1>6 DEF CapturesUniform, Replays
  <2>2. PICK m \in Fits : \A g \in Fits : m <= g
    <3> HIDE DEF Fits
    <3> QED  BY <2>1, LeastOf
  <2>3. s \in DOMAIN graphs /\ count <= s
    BY <2>2 DEF ReplayedSize
  <2>4. s \in Nat /\ graphs[s] = Arguments(s \div u, s, u)
    BY <1>3, <2>3 DEF CapturesUniform
  <2>5. c.batch = s \div u /\ c.tokens = s /\ c.max_q = u /\ c.max_k = service.max_len
    BY <1>4, <1>6, <2>4 DEF Arguments
  <2>6. count = n * u
    BY <1>2, <1>4, <1>5, <1>6 DEF Replays
  <2>7. n <= s \div u
    <3> HIDE DEF u, s
    <3> DEFINE k == s \div u
    <3>1. u \in Nat \ {0} /\ s \in Nat /\ n * u <= s
      BY <1>4, <2>3, <2>4, <2>6 DEF u
    <3>2. k \in Nat /\ s % u \in 0 .. u - 1 /\ s = k * u + (s % u)
      BY <3>1, DivMod
    <3> HIDE DEF k
    <3>3. ASSUME k + 1 <= n PROVE FALSE
      <4>1. (k + 1) * u <= n * u
        BY <3>1, <3>2, <3>3, ProductsOrdered
      <4>2. (k + 1) * u = k * u + u /\ k * u \in Int /\ n * u \in Int
        BY <3>1, <3>2
      <4> QED  BY <3>1, <3>2, <4>1, <4>2
    <3>4. n <= k
      BY <3>2, <3>3
    <3> QED  BY <3>4 DEF k
  <2>8. \A j \in DOMAIN batch.rows : batch.q[j] <= u
    BY <1>2, <1>4, <1>6 DEF Replays
  <2> QED  BY <1>1, <1>2, <2>3, <2>5, <2>7, <2>8
<1>7. CASE ~ Replays
  <2>1. c.batch = n /\ c.tokens = count /\ c.max_q = MaxQuery /\ c.max_k = service.max_len
    BY <1>2, <1>4, <1>7 DEF Arguments
  <2>2. \A j \in DOMAIN batch.rows : batch.q[j] <= MaxQuery
    BY <1>1, <1>2, LongestQuery
  <2> QED  BY <1>1, <1>2, <1>5, <2>1, <2>2
<1> QED  BY <1>6, <1>7

(* Calls start with a forward, are forgotten with the step's sample, and   *)
(* fit the batch they serve.                                               *)
LEMMA CallStep ==
  SetupInv /\ HoldsPages /\ BatchInv /\ CallInv /\ CallFitsBatch /\ [Next]_vars
    => CallInv' /\ CallFitsBatch'
<1> SUFFICES ASSUME SetupInv, HoldsPages, BatchInv, CallInv, CallFitsBatch, [Next]_vars
             PROVE  CallInv' /\ CallFitsBatch'
  OBVIOUS
<1> USE DEF Setup
<1>1. /\ layer \in 1 .. Len(service.layers) /\ Len(service.layers) \in Nat \ {0}
      /\ pc \notin {"select", "refused"} => impl = [l \in 1 .. Len(service.layers) |-> EngineClass]
  BY ServiceFacts DEF SetupInv, Layers
<1>2. ASSUME call' = NoCall PROVE CallInv' /\ CallFitsBatch'
  BY <1>2 DEF CallInv, CallFitsBatch, HasCall, NoCall
<1>3. ASSUME pc' \in {"forward", "raised", "refused"} PROVE CallInv' /\ CallFitsBatch'
  BY <1>3 DEF CallInv, CallFitsBatch, HasCall
<1>4. ASSUME pc \in Setup \cup {"idle"}, call' = call PROVE CallInv' /\ CallFitsBatch'
  BY <1>2, <1>4 DEF CallInv
<1>5. CASE SelectLayer
  BY <1>4, <1>5 DEF SelectLayer
<1>6. CASE ConstructImpl
  BY <1>4, <1>6 DEF ConstructImpl
<1>7. CASE ConstructBuilder
  BY <1>4, <1>7 DEF ConstructBuilder
<1>8. ASSUME NEW n \in service.captures, Capture(n) PROVE CallInv' /\ CallFitsBatch'
  BY <1>4, <1>8 DEF Capture
<1>9. CASE Ready
  BY <1>4, <1>9 DEF Ready
<1>10. ASSUME NEW b \in Batches, Schedule(b) PROVE CallInv' /\ CallFitsBatch'
  BY <1>4, <1>10 DEF Schedule
<1>11. CASE UpdateCache
  BY <1>3, <1>11 DEF UpdateCache
<1>12. CASE Forward
  <2>1. pc = "forward" /\ UNCHANGED <<setup, engine>>
    BY <1>12 DEF Forward
  <2>2. CASE ~ Served(layer)
    <3>1. pc' = "raised"
      BY <1>12, <2>2 DEF Forward
    <3> QED  BY <1>3, <3>1
  <2>3. CASE Served(layer) /\ impl[layer] = "stock"
    BY <1>2, <1>12, <2>3 DEF Forward
  <2>4. CASE Served(layer) /\ impl[layer] # "stock"
    <3>1. /\ call' = IF Replays THEN graphs[ReplayedSize] ELSE Arguments(Len(batch.rows), count, MaxQuery)
          /\ pc' = "sampled" \/ (pc' = "update" /\ layer' = layer + 1)
      BY <1>12, <2>4 DEF Forward
    <3>2. EngineClass = "fp8"
      BY <1>1, <2>1, <2>4 DEF EngineClass
    <3>3. /\ Len(batch.rows) <= call'.batch /\ count <= call'.tokens
          /\ \A j \in DOMAIN batch.rows : /\ batch.q[j] <= call'.max_q
                                          /\ Len(tokens[batch.rows[j]]) <= call'.max_k
      BY <2>1, <2>4, <3>1, FitsItsBatch
    <3>4. batch' = batch /\ tokens' = tokens /\ service' = service /\ count' = count
      BY <2>1 DEF setup, engine, count
    <3>5. CallFitsBatch'
      BY <3>3, <3>4 DEF CallFitsBatch
    <3>6. EngineClass' = "fp8"
      BY <3>2, <3>4, ConfigurationStays
    <3>7. layer + 1 # 1
      BY <1>1
    <3> QED  BY <3>1, <3>5, <3>6, <3>7 DEF CallInv
  <2> QED  BY <2>2, <2>3, <2>4
<1>13. CASE Sample
  BY <1>2, <1>13 DEF Sample
<1>14. ASSUME NEW r \in Requests, Finish(r) PROVE CallInv' /\ CallFitsBatch'
  BY <1>4, <1>14 DEF Finish
<1>15. CASE UNCHANGED vars
  <2>1. UNCHANGED <<service, pc, layer, tokens, batch, call>>
    BY <1>15 DEF vars, setup, engine
  <2>2. EngineClass' = EngineClass /\ count' = count
    BY <2>1, ConfigurationStays DEF count
  <2> QED  BY <2>1, <2>2 DEF CallInv, CallFitsBatch, HasCall
<1> QED
  BY <1>5, <1>6, <1>7, <1>8, <1>9, <1>10, <1>11, <1>12, <1>13, <1>14, <1>15 DEF Next, Terminating

(* What a call needs of the engine before it.                              *)
LEMMA BatchesAndCalls ==
  Spec => [](SetupInv /\ HoldsPages /\ PagesHaveOneOwner /\ BatchInv /\ CallInv /\ CallFitsBatch)
<1> DEFINE Inv == SetupInv /\ HoldsPages /\ PagesHaveOneOwner /\ BatchInv /\ CallInv /\ CallFitsBatch
<1>1. Init => Inv
  <2>1. Init => BatchInv /\ CallInv /\ CallFitsBatch
    BY DEF Init, BatchInv, Running, CallInv, CallFitsBatch, HasCall
  <2> QED  BY <2>1, SetupAtStart, PagesAtStart
<1>2. Inv /\ [Next]_vars => Inv'
  BY SetupStep, PagesStep, BatchStep, CallStep
<1> QED  BY <1>1, <1>2, PTL DEF Spec

(***************************************************************************)
(* Rows, tokens, longest query and longest context of every call hold for  *)
(* the batch it serves: those of a replay too, which were fixed when the   *)
(* graph was captured, whatever sizes were captured and however the        *)
(* requests have grown since.                                              *)
(***************************************************************************)
THEOREM CallsFitTheirBatch == Spec => []CallFitsBatch
BY BatchesAndCalls, PTL

-----------------------------------------------------------------------------
(* A token's page is known and in the cache.                               *)
LEMMA TokenHasPage ==
  ASSUME SetupInv, HoldsPages, NEW r \in Requests, NEW i \in 0 .. Len(tokens[r]) - 1
  PROVE  /\ i \in Nat /\ i \div service.page_size \in Nat
         /\ i % service.page_size \in 0 .. service.page_size - 1
         /\ i \div service.page_size + 1 \in DOMAIN table[r]
         /\ PageAt(r, i, service.page_size) \in 0 .. NumPages - 1
<1> DEFINE n == Len(tokens[r])  m == Len(table[r])  d == service.page_size  Pages == 0 .. NumPages - 1
<1>1. /\ n \in Nat /\ m \in Nat /\ table[r] \in Seq(Pages) /\ DOMAIN table[r] = 1 .. m
      /\ PagesFor(n) <= m /\ service \in Services /\ i \in 0 .. n - 1
  BY LenProperties DEF HoldsPages, SetupInv
<1>2. d \in Nat \ {0} /\ i \in Nat
  BY <1>1, ServiceFacts
<1>3. i \div d \in 0 .. PagesFor(n) - 1 /\ PagesFor(n) \in Nat
  <2> HIDE DEF n
  <2> QED  BY <1>1, PagesCover
<1> HIDE DEF n, m, Pages
<1>4. i \div d \in Nat /\ i % d \in 0 .. d - 1
  <2> HIDE DEF d
  <2> QED  BY <1>2, DivMod
<1>5. i \div d + 1 \in 1 .. m
  <2> DEFINE p == i \div d
  <2> HIDE DEF p, d
  <2>1. p \in 0 .. PagesFor(n) - 1
    BY <1>3 DEF p
  <2>2. p + 1 \in 1 .. m
    BY <1>1, <1>3, <2>1
  <2> QED  BY <2>2 DEF p
<1>6. table[r][i \div d + 1] \in Pages
  BY <1>1, <1>5, ElementOfSeq
<1> QED  BY <1>1, <1>2, <1>4, <1>5, <1>6 DEF PageAt, Pages

(* Two tokens at the same address are the same token of the same request,  *)
(* for the same head and half.                                             *)
LEMMA TokenHasAddress ==
  ASSUME SetupInv, HoldsPages, PagesHaveOneOwner,
         NEW r \in Requests, NEW i \in 0 .. Len(tokens[r]) - 1, NEW h \in Heads, NEW x \in Halves,
         NEW s \in Requests, NEW k \in 0 .. Len(tokens[s]) - 1, NEW g \in Heads, NEW y \in Halves,
         Offset(PageAt(r, i, service.page_size), h, i % service.page_size, x)
           = Offset(PageAt(s, k, service.page_size), g, k % service.page_size, y)
  PROVE  r = s /\ i = k /\ h = g /\ x = y
<1> DEFINE d == service.page_size  p == PageAt(r, i, d)  q == PageAt(s, k, d)  u == i \div d  v == k \div d
           a == i % d  b == k % d
<1>1. service \in Services /\ d \in Nat \ {0}
  BY ServiceFacts DEF SetupInv
<1>2. /\ i \in Nat /\ u \in Nat /\ a \in 0 .. d - 1 /\ u + 1 \in DOMAIN table[r] /\ p \in 0 .. NumPages - 1
  BY TokenHasPage
<1>3. /\ k \in Nat /\ v \in Nat /\ b \in 0 .. d - 1 /\ v + 1 \in DOMAIN table[s] /\ q \in 0 .. NumPages - 1
  BY TokenHasPage
<1>4. p = table[r][u + 1] /\ q = table[s][v + 1]
  BY DEF PageAt
<1>5. Offset(p, h, a, x) = Offset(q, g, b, y)
  OBVIOUS
<1>6. i = u * d + a /\ k = v * d + b
  <2> HIDE DEF d
  <2> QED  BY <1>1, <1>2, <1>3, DivMod
<1>7. p \in Nat /\ q \in Nat
  <2> HIDE DEF p, q
  <2> QED  BY <1>2, <1>3, ConstantFacts
<1> HIDE DEF p, q, u, v, a, b
<1>8. p = q /\ h = g /\ a = b /\ x = y
  BY <1>1, <1>2, <1>3, <1>5, <1>7, OffsetIsOwn DEF d
<1>9. r = s /\ u + 1 = v + 1
  <2>1. table[r][u + 1] = table[s][v + 1]
    BY <1>4, <1>8
  <2> DEFINE f == u + 1  t == v + 1
  <2>2. f \in DOMAIN table[r] /\ t \in DOMAIN table[s] /\ table[r][f] = table[s][t]
    BY <1>2, <1>3, <2>1
  <2> HIDE DEF f, t
  <2>3. r = s /\ f = t
    BY <2>2 DEF PagesHaveOneOwner
  <2> QED  BY <2>3 DEF f, t
<1>10. u = v
  BY <1>2, <1>3, <1>9
<1> QED  BY <1>6, <1>8, <1>9, <1>10

(* A token that keeps its name, its page and the bytes there is held.      *)
LEMMA HoldsStays ==
  ASSUME NEW l, NEW r, NEW i, Holds(l, r, i), service' = service, cache'[l] = cache[l],
         tokens'[r][i + 1] = tokens[r][i + 1],
         table'[r][i \div service.page_size + 1] = table[r][i \div service.page_size + 1]
  PROVE  Holds(l, r, i)'
<1> DEFINE d == service.page_size
<1>1. /\ Layout' = Layout /\ Heads' = Heads /\ Format(CacheDtype(l))' = Format(CacheDtype(l))
      /\ service.page_size' = d /\ PageAt(r, i, service.page_size)' = PageAt(r, i, d)
  BY DEF Layout, Heads, Format, CacheDtype, Plugin, Family100, PageAt
<1>2. ASSUME NEW head, NEW half
      PROVE  /\ Offset(PageAt(r, i, service.page_size), head, i % service.page_size, half)'
                  = Offset(PageAt(r, i, d), head, i % d, half)
             /\ Stored(r, i, l, head, half, Format(CacheDtype(l)))'
                  = Stored(r, i, l, head, half, Format(CacheDtype(l)))
  BY <1>1 DEF Offset, Stored
<1> QED  BY <1>1, <1>2 DEF Holds

(* The slots that a layer writes are those of this step's tokens.          *)
LEMMA EntriesAreNew ==
  ASSUME SetupInv, HoldsPages, BatchInv, pc = "update"
  PROVE  /\ \A e \in NewEntries :
              \E r \in Requests : \E i \in 0 .. Len(tokens[r]) - 1 : \E head \in Heads, half \in Halves :
                e = <<r, i, head, half>> /\ New(r, i)
         /\ \A r \in Requests : \A i \in 0 .. Len(tokens[r]) - 1 : \A head \in Heads, half \in Halves :
              New(r, i) => <<r, i, head, half>> \in NewEntries
<1> DEFINE Of(j) == { <<batch.rows[j], i, head, half>> :
                        i \in Len(tokens[batch.rows[j]]) - batch.q[j] .. Len(tokens[batch.rows[j]]) - 1,
                        head \in Heads, half \in Halves }
<1>1. NewEntries = UNION { Of(j) : j \in DOMAIN batch.rows }
  BY DEF NewEntries
<1>2. /\ batch \in Batches
      /\ \A j \in DOMAIN batch.rows : batch.q[j] <= Len(tokens[batch.rows[j]])
  BY DEF BatchInv, Running
<1>3. ASSUME NEW j \in DOMAIN batch.rows
      PROVE  batch.rows[j] \in Requests /\ batch.q[j] \in Nat /\ Len(tokens[batch.rows[j]]) \in Nat
             /\ batch.q[j] <= Len(tokens[batch.rows[j]])
  <2>1. PICK n \in Nat \ {0} :
          /\ batch.rows \in [1 .. n -> Requests] /\ batch.q \in [1 .. n -> 1 .. MaxNew]
          /\ DOMAIN batch.rows = 1 .. n
    BY <1>2, BatchShape
  <2>2. batch.rows[j] \in Requests /\ batch.q[j] \in Nat
    BY <2>1, ConstantFacts
  <2> QED  BY <1>2, <2>2, LenProperties DEF HoldsPages
<1>4. ASSUME NEW e \in NewEntries
      PROVE  \E r \in Requests : \E i \in 0 .. Len(tokens[r]) - 1 : \E head \in Heads, half \in Halves :
               e = <<r, i, head, half>> /\ New(r, i)
  <2>1. PICK j \in DOMAIN batch.rows : e \in Of(j)
    BY <1>1
  <2> DEFINE r == batch.rows[j]  n == Len(tokens[r])  q == batch.q[j]
  <2>2. PICK i \in n - q .. n - 1, head \in Heads, half \in Halves : e = <<r, i, head, half>>
    BY <2>1
  <2>3. n \in Nat /\ q \in Nat /\ q <= n /\ r \in Requests
    BY <1>3
  <2>4. New(r, i)
    <3>1. i >= n - q
      <4> HIDE DEF n, q
      <4> QED  BY <2>3
    <3> QED  BY <3>1 DEF New
  <2>5. i \in 0 .. n - 1
    <3> HIDE DEF n, q
    <3> QED  BY <2>3
  <2> HIDE DEF r
  <2> QED  BY <2>2, <2>3, <2>4, <2>5
<1>5. ASSUME NEW r \in Requests, NEW i \in 0 .. Len(tokens[r]) - 1, NEW head \in Heads, NEW half \in Halves,
             New(r, i)
      PROVE  <<r, i, head, half>> \in NewEntries
  <2>1. PICK j \in DOMAIN batch.rows : batch.rows[j] = r /\ i >= Len(tokens[r]) - batch.q[j]
    BY <1>5 DEF New
  <2>2. batch.q[j] \in Nat /\ Len(tokens[r]) \in Nat
    BY <1>3, <2>1
  <2>3. i \in Len(tokens[batch.rows[j]]) - batch.q[j] .. Len(tokens[batch.rows[j]]) - 1
    BY <2>1, <2>2
  <2>4. <<r, i, head, half>> \in Of(j)
    BY <2>1, <2>3
  <2> QED  BY <1>1, <2>4
<1> QED  BY <1>4, <1>5

(* A layer writes its own cache: every token of this step at the address   *)
(* of that token, and nothing else.                                        *)
LEMMA WriteStores ==
  ASSUME SetupInv, HoldsPages, PagesHaveOneOwner, BatchInv, CacheShape, pc = "update",
         ~ service.layers[layer].shares, Write(layer)
  PROVE  /\ cache' = [l \in Layers |-> [a \in Addresses |-> cache'[l][a]]]
         /\ \A l \in Layers : l # layer => cache'[l] = cache[l]
         /\ \A r \in Requests : \A i \in 0 .. Len(tokens[r]) - 1 : \A head \in Heads, half \in Halves :
              LET a == Offset(PageAt(r, i, service.page_size), head, i % service.page_size, half)
              IN  cache'[layer][a] =
                    IF New(r, i) THEN Stored(r, i, layer, head, half, Format(CacheDtype(layer)))
                    ELSE cache[layer][a]
<1> DEFINE At(e) == Offset(PageAt(e[1], e[2], service.page_size), e[3], e[2] % service.page_size, e[4])
           Of(e) == Stored(e[1], e[2], layer, e[3], e[4], Format(CacheDtype(layer)))
           stores == { <<At(e), Of(e)>> : e \in NewEntries }
           after == [a \in Addresses |-> IF \E s \in stores : s[1] = a
                                         THEN (CHOOSE s \in stores : s[1] = a)[2] ELSE cache[layer][a]]
<1>1. layer \in Layers /\ service \in Services /\ Owner(layer) = layer
  BY DEF SetupInv, Owner
<1>2. cache' = [cache EXCEPT ![layer] = after]
  BY <1>1 DEF Write
<1>3. DOMAIN cache = Layers /\ \A l \in Layers : cache[l] = [a \in Addresses |-> cache[l][a]]
  <2>1. \A l \in Layers : cache[l] = [a \in Addresses |-> cache[l][a]]
    BY DEF CacheShape
  <2>2. DOMAIN cache = Layers
    BY DEF CacheShape
  <2> QED  BY <2>1, <2>2
<1>4. cache'[layer] = after /\ \A l \in Layers : l # layer => cache'[l] = cache[l]
  <2> HIDE DEF after
  <2> QED  BY <1>1, <1>2, <1>3
<1>5. cache' = [l \in Layers |-> [a \in Addresses |-> cache'[l][a]]]
  <2>1. after = [a \in Addresses |-> after[a]]
    OBVIOUS
  <2> HIDE DEF after
  <2>2. cache' = [l \in Layers |-> cache'[l]]
    BY <1>2, <1>3
  <2>3. \A l \in Layers : cache'[l] = [a \in Addresses |-> cache'[l][a]]
    BY <1>3, <1>4, <2>1
  <2> QED  BY <2>2, <2>3
<1>6. ASSUME NEW r \in Requests, NEW i \in 0 .. Len(tokens[r]) - 1, NEW head \in Heads, NEW half \in Halves
      PROVE  cache'[layer][At(<<r, i, head, half>>)] =
               IF New(r, i) THEN Of(<<r, i, head, half>>) ELSE cache[layer][At(<<r, i, head, half>>)]
  <2> DEFINE e == <<r, i, head, half>>  a == At(e)
  <2>1. a \in Addresses
    <3>1. /\ PageAt(r, i, service.page_size) \in 0 .. NumPages - 1
          /\ i % service.page_size \in 0 .. service.page_size - 1
      BY TokenHasPage
    <3>2. Offset(PageAt(r, i, service.page_size), head, i % service.page_size, half) \in Addresses
      BY <1>1, <3>1, OffsetInCache
    <3> QED  BY <3>2
  <2>2. ASSUME NEW f \in NewEntries, At(f) = a PROVE f = e /\ New(r, i)
    <3>1. PICK s \in Requests : \E k \in 0 .. Len(tokens[s]) - 1 : \E g \in Heads, y \in Halves :
                 f = <<s, k, g, y>> /\ New(s, k)
      BY EntriesAreNew
    <3>2. PICK k \in 0 .. Len(tokens[s]) - 1, g \in Heads, y \in Halves : f = <<s, k, g, y>> /\ New(s, k)
      BY <3>1
    <3>3. Offset(PageAt(r, i, service.page_size), head, i % service.page_size, half)
            = Offset(PageAt(s, k, service.page_size), g, k % service.page_size, y)
      BY <2>2, <3>2
    <3>4. r = s /\ i = k /\ head = g /\ half = y
      BY <3>3, TokenHasAddress
    <3> QED  BY <3>2, <3>4
  <2> HIDE DEF e, At, Of
  <2>3. CASE New(r, i)
    <3>1. e \in NewEntries
      BY <2>3, EntriesAreNew DEF e
    <3>2. <<a, Of(e)>> \in stores /\ <<a, Of(e)>>[1] = a
      BY <3>1
    <3> DEFINE t == CHOOSE s \in stores : s[1] = a
    <3>3. t \in stores /\ t[1] = a
      BY <3>2
    <3>4. PICK f \in NewEntries : t = <<At(f), Of(f)>>
      BY <3>3
    <3> HIDE DEF t
    <3>5. At(f) = a /\ t[2] = Of(f)
      BY <3>3, <3>4
    <3>6. t[2] = Of(e)
      BY <2>2, <3>5
    <3>7. after[a] = t[2]
      BY <2>1, <3>2 DEF t
    <3> QED  BY <1>4, <2>3, <3>6, <3>7 DEF e
  <2>4. CASE ~ New(r, i)
    <3>1. ~ \E s \in stores : s[1] = a
      BY <2>2, <2>4
    <3>2. after[a] = cache[layer][a]
      BY <2>1, <3>1
    <3> QED  BY <1>4, <2>4, <3>2 DEF e
  <2> QED  BY <2>3, <2>4
<1>7. ASSUME NEW r \in Requests, NEW i \in 0 .. Len(tokens[r]) - 1, NEW head \in Heads, NEW half \in Halves
      PROVE  cache'[layer][Offset(PageAt(r, i, service.page_size), head, i % service.page_size, half)] =
               IF New(r, i) THEN Stored(r, i, layer, head, half, Format(CacheDtype(layer)))
               ELSE cache[layer][Offset(PageAt(r, i, service.page_size), head, i % service.page_size, half)]
  BY <1>6
<1> HIDE DEF At, Of, stores, after
<1> QED  BY <1>4, <1>5, <1>7

(* Steps that leave the cache, the tokens and the tables alone.            *)
LEMMA QuietStep ==
  ASSUME SetupInv, CacheInv, UNCHANGED <<service, tokens, table, cache>>,
         pc' # "raised" => pc # "raised",
         pc' # "raised" => \A l \in Layers : \A r, i : Pending(l, r, i) => Pending(l, r, i)'
  PROVE  CacheInv'
<1>1. Layers' = Layers /\ EngineClass' = EngineClass
  BY ConfigurationStays
<1>2. CacheShape'
  <2>1. Addresses' = Addresses
    BY DEF Addresses
  <2> QED  BY <1>1, <2>1 DEF CacheInv, CacheShape
<1>3. ASSUME pc' # "raised", EngineClass # "stock", NEW l \in Layers, ~ service.layers[l].shares,
             NEW r \in Requests, NEW i \in 0 .. Len(tokens[r]) - 1
      PROVE  Pending(l, r, i)' \/ Holds(l, r, i)'
  <2>1. Pending(l, r, i) \/ Holds(l, r, i)
    BY <1>3 DEF CacheInv, TokensHeld
  <2> QED  BY <1>3, <2>1, HoldsStays
<1>4. TokensHeld'
  BY <1>1, <1>3 DEF TokensHeld
<1> QED  BY <1>2, <1>4 DEF CacheInv

(* Steps between two engine steps that keep, of the tokens there were,     *)
(* some first ones of each request and their pages.                        *)
LEMMA CacheAtRest ==
  ASSUME SetupInv, HoldsPages, CacheInv, UNCHANGED <<service, cache>>, pc \in {"idle", "sampled"},
         tokens' \in [Requests -> Seq(Nat)],
         \A r \in Requests : \A i \in 0 .. Len(tokens'[r]) - 1 :
           \/ /\ i \in 0 .. Len(tokens[r]) - 1
              /\ tokens'[r][i + 1] = tokens[r][i + 1]
              /\ table'[r][i \div service.page_size + 1] = table[r][i \div service.page_size + 1]
           \/ pc' = "update" /\ layer' = 1 /\ New(r, i)'
  PROVE  CacheInv'
<1>1. Layers' = Layers /\ EngineClass' = EngineClass
  BY ConfigurationStays
<1>2. CacheShape'
  <2>1. Addresses' = Addresses
    BY DEF Addresses
  <2> QED  BY <1>1, <2>1 DEF CacheInv, CacheShape
<1>3. ASSUME EngineClass # "stock", NEW l \in Layers, ~ service.layers[l].shares,
             NEW r \in Requests, NEW i \in 0 .. Len(tokens'[r]) - 1
      PROVE  Pending(l, r, i)' \/ Holds(l, r, i)'
  <2>1. CASE /\ i \in 0 .. Len(tokens[r]) - 1
             /\ tokens'[r][i + 1] = tokens[r][i + 1]
             /\ table'[r][i \div service.page_size + 1] = table[r][i \div service.page_size + 1]
    <3>1. ~ Pending(l, r, i)
      BY DEF Pending
    <3>2. Holds(l, r, i)
      BY <1>3, <2>1, <3>1 DEF CacheInv, TokensHeld
    <3> QED  BY <2>1, <3>2, HoldsStays
  <2>2. CASE pc' = "update" /\ layer' = 1 /\ New(r, i)'
    <3>1. l >= 1
      BY <1>3, ServiceFacts DEF SetupInv, Layers
    <3> QED  BY <2>2, <3>1 DEF Pending
  <2> QED  BY <2>1, <2>2
<1>4. TokensHeld'
  BY <1>1, <1>3 DEF TokensHeld
<1> QED  BY <1>2, <1>4 DEF CacheInv

(* Writing a layer's new tokens leaves it with all it must hold.           *)
LEMMA CacheWritten ==
  ASSUME SetupInv, HoldsPages, PagesHaveOneOwner, BatchInv, CacheInv, UpdateCache,
         impl[layer] # "stock", ~ service.layers[layer].shares
  PROVE  CacheInv'
<1>1. /\ pc = "update" /\ pc' = "forward" /\ Write(layer)
      /\ UNCHANGED <<service, tokens, table, batch, layer>>
  BY DEF UpdateCache, setup, engine
<1>2. Layers' = Layers /\ EngineClass' = EngineClass /\ Addresses' = Addresses /\ layer \in Layers
      /\ service \in Services
  BY <1>1, ConfigurationStays DEF Addresses, SetupInv
<1>3. /\ cache' = [l \in Layers |-> [a \in Addresses |-> cache'[l][a]]]
      /\ \A l \in Layers : l # layer => cache'[l] = cache[l]
  BY <1>1, WriteStores DEF CacheInv
<1>4. CacheShape'
  BY <1>2, <1>3 DEF CacheShape
<1>5. \A r, i : New(r, i)' = New(r, i)
  BY <1>1 DEF New
<1>6. ASSUME EngineClass # "stock", NEW l \in Layers, ~ service.layers[l].shares,
             NEW r \in Requests, NEW i \in 0 .. Len(tokens[r]) - 1
      PROVE  Pending(l, r, i)' \/ Holds(l, r, i)'
  <2>1. Pending(l, r, i) \/ Holds(l, r, i)
    BY <1>1, <1>6 DEF CacheInv, TokensHeld
  <2>2. CASE l # layer
    <3>1. CASE Holds(l, r, i)
      BY <1>1, <1>3, <2>2, <3>1, HoldsStays
    <3>2. CASE Pending(l, r, i)
      <4>1. l >= layer /\ New(r, i)
        BY <1>1, <3>2 DEF Pending
      <4>2. l > layer
        BY <1>2, <2>2, <4>1, ServiceFacts DEF Layers
      <4> QED  BY <1>1, <1>5, <4>1, <4>2 DEF Pending
    <3> QED  BY <2>1, <3>1, <3>2
  <2>3. CASE l = layer
    <3> DEFINE a(head, half) == Offset(PageAt(r, i, service.page_size), head, i % service.page_size, half)
               v(head, half) == Stored(r, i, l, head, half, Format(CacheDtype(l)))
    <3>1. ASSUME NEW head \in Heads, NEW half \in Halves
          PROVE  cache'[l][a(head, half)] = v(head, half)
      <4>1. cache'[layer][a(head, half)] = IF New(r, i) THEN v(head, half) ELSE cache[layer][a(head, half)]
        BY <1>1, <2>3, WriteStores DEF CacheInv
      <4>2. CASE New(r, i)
        BY <2>3, <4>1, <4>2
      <4>3. CASE ~ New(r, i)
        <5>1. Holds(l, r, i)
          BY <2>1, <4>3 DEF Pending
        <5>2. cache[l][a(head, half)] = v(head, half)
          BY <5>1 DEF Holds
        <5> QED  BY <2>3, <4>1, <4>3, <5>2
      <4> QED  BY <4>2, <4>3
    <3>2. /\ Layout' = Layout /\ Heads' = Heads /\ Format(CacheDtype(l))' = Format(CacheDtype(l))
          /\ PageAt(r, i, service.page_size)' = PageAt(r, i, service.page_size)
          /\ service.page_size' = service.page_size
      BY <1>1 DEF Layout, Heads, Format, CacheDtype, Plugin, Family100, PageAt
    <3>3. ASSUME NEW head, NEW half PROVE a(head, half)' = a(head, half) /\ v(head, half)' = v(head, half)
      BY <1>1, <3>2 DEF Offset, Stored
    <3>4. Holds(l, r, i)'
      BY <3>1, <3>2, <3>3 DEF Holds
    <3> QED  BY <3>4
  <2> QED  BY <2>2, <2>3
<1>7. TokensHeld'
  BY <1>1, <1>2, <1>6 DEF TokensHeld
<1> QED  BY <1>4, <1>7 DEF CacheInv

LEMMA CacheStep ==
  SetupInv /\ HoldsPages /\ PagesHaveOneOwner /\ BatchInv /\ CacheInv /\ [Next]_vars => CacheInv'
<1> SUFFICES ASSUME SetupInv, HoldsPages, PagesHaveOneOwner, BatchInv, CacheInv, [Next]_vars
             PROVE  CacheInv'
  OBVIOUS
<1>1. layer \in 1 .. Len(service.layers) /\ Len(service.layers) \in Nat \ {0} /\ service \in Services
  BY ServiceFacts DEF SetupInv, Layers
<1>2. ASSUME UNCHANGED <<service, tokens, table, cache>>, pc \in Setup PROVE CacheInv'
  BY <1>2, QuietStep DEF Setup, Pending
<1>3. CASE SelectLayer
  BY <1>2, <1>3 DEF SelectLayer, Setup, engine
<1>4. CASE ConstructImpl
  BY <1>2, <1>4 DEF ConstructImpl, Setup, setup, engine
<1>5. CASE ConstructBuilder
  BY <1>2, <1>5 DEF ConstructBuilder, Setup, setup, engine
<1>6. ASSUME NEW n \in service.captures, Capture(n) PROVE CacheInv'
  BY <1>2, <1>6 DEF Capture, Setup, engine
<1>7. CASE Ready
  BY <1>2, <1>7 DEF Ready, Setup, setup, engine
<1>8. ASSUME NEW b \in Batches, Schedule(b) PROVE CacheInv'
  <2>1. /\ pc = "idle" /\ layer' = 1 /\ batch' = b /\ service' = service /\ cache' = cache
        /\ pc' \in {"update", "raised"}
    BY <1>8 DEF Schedule, setup
  <2>2. /\ tokens' \in [Requests -> Seq(Nat)]
        /\ \A r \in Requests : /\ Len(tokens[r]) <= Len(tokens'[r])
                               /\ \A i \in 1 .. Len(tokens[r]) : tokens'[r][i] = tokens[r][i]
        /\ \A j \in DOMAIN b.rows : /\ b.rows[j] \in Requests /\ b.q[j] \in Nat
                                    /\ Len(tokens'[b.rows[j]]) = Len(tokens[b.rows[j]]) + b.q[j]
        /\ \A r \in Requests : (\A j \in DOMAIN b.rows : b.rows[j] # r) => tokens'[r] = tokens[r]
    BY <1>8, ScheduledTokens
  <2>3. \A r \in Requests : \A p \in DOMAIN table[r] : table'[r][p] = table[r][p]
    BY <1>8, ScheduledPages
  <2>4. CASE pc' = "raised"
    <3>1. CacheShape'
      <4>1. Layers' = Layers /\ Addresses' = Addresses
        BY <2>1, ConfigurationStays DEF Addresses
      <4> QED  BY <2>1, <4>1 DEF CacheInv, CacheShape
    <3>2. TokensHeld'
      BY <2>4 DEF TokensHeld
    <3> QED  BY <3>1, <3>2 DEF CacheInv
  <2>5. CASE pc' = "update"
    <3>1. ASSUME NEW r \in Requests, NEW i \in 0 .. Len(tokens'[r]) - 1
          PROVE  \/ /\ i \in 0 .. Len(tokens[r]) - 1
                    /\ tokens'[r][i + 1] = tokens[r][i + 1]
                    /\ table'[r][i \div service.page_size + 1] = table[r][i \div service.page_size + 1]
                 \/ pc' = "update" /\ layer' = 1 /\ New(r, i)'
      <4>1. Len(tokens[r]) \in Nat /\ Len(tokens'[r]) \in Nat
        BY <2>2, LenProperties DEF HoldsPages
      <4>2. CASE i < Len(tokens[r])
        <5>1. i \in 0 .. Len(tokens[r]) - 1 /\ i + 1 \in 1 .. Len(tokens[r])
          BY <4>1, <4>2
        <5>2. table'[r][i \div service.page_size + 1] = table[r][i \div service.page_size + 1]
          BY <2>3, <5>1, TokenHasPage
        <5> QED  BY <2>2, <5>1, <5>2
      <4>3. CASE ~ (i < Len(tokens[r]))
        <5>1. tokens'[r] # tokens[r]
          BY <4>1, <4>3
        <5>2. PICK j \in DOMAIN b.rows : b.rows[j] = r
          BY <2>2, <5>1
        <5>3. b.q[j] \in Nat /\ Len(tokens'[r]) = Len(tokens[r]) + b.q[j]
          BY <2>2, <5>2
        <5>4. i >= Len(tokens'[r]) - b.q[j]
          BY <4>1, <4>3, <5>3
        <5>5. New(r, i)'
          BY <2>1, <5>2, <5>4 DEF New
        <5> QED  BY <2>1, <2>5, <5>5
      <4> QED  BY <4>2, <4>3
    <3> QED  BY <2>1, <2>2, <3>1, CacheAtRest
  <2> QED  BY <2>1, <2>4, <2>5
<1>9. CASE UpdateCache
  <2>1. /\ pc = "update" /\ pc' = "forward" /\ layer' = layer
        /\ UNCHANGED <<service, tokens, table, batch>>
    BY <1>9 DEF UpdateCache, setup, engine
  <2>2. CASE impl[layer] # "stock" /\ ~ service.layers[layer].shares
    BY <1>9, <2>2, CacheWritten
  <2>3. CASE impl[layer] = "stock" \/ service.layers[layer].shares
    <3>1. cache' = cache
      BY <1>9, <2>3 DEF UpdateCache
    <3>2. CacheShape' /\ Layers' = Layers /\ EngineClass' = EngineClass
      <4>1. Layers' = Layers /\ Addresses' = Addresses /\ EngineClass' = EngineClass
        BY <2>1, ConfigurationStays DEF Addresses
      <4> QED  BY <3>1, <4>1 DEF CacheInv, CacheShape
    <3>3. ASSUME EngineClass # "stock", NEW l \in Layers, ~ service.layers[l].shares,
                 NEW r \in Requests, NEW i \in 0 .. Len(tokens[r]) - 1
          PROVE  Pending(l, r, i)' \/ Holds(l, r, i)'
      <4>1. Pending(l, r, i) \/ Holds(l, r, i)
        BY <2>1, <3>3 DEF CacheInv, TokensHeld
      <4>2. CASE Holds(l, r, i)
        BY <2>1, <3>1, <4>2, HoldsStays
      <4>3. CASE Pending(l, r, i)
        <5>1. l >= layer /\ New(r, i)
          BY <2>1, <4>3 DEF Pending
        <5>2. impl[layer] = EngineClass
          BY <1>1, <2>1 DEF SetupInv, Layers
        <5>3. l # layer
          BY <2>3, <3>3, <5>2
        <5>4. l > layer
          BY <1>1, <3>3, <5>1, <5>3 DEF Layers
        <5>5. New(r, i)'
          BY <2>1, <5>1 DEF New
        <5> QED  BY <2>1, <5>4, <5>5 DEF Pending
      <4> QED  BY <4>1, <4>2, <4>3
    <3>4. TokensHeld'
      BY <2>1, <3>2, <3>3 DEF TokensHeld
    <3> QED  BY <3>2, <3>4 DEF CacheInv
  <2> QED  BY <2>2, <2>3
<1>10. CASE Forward
  <2>1. /\ pc = "forward" /\ UNCHANGED <<service, tokens, table, cache, batch>>
        /\ pc' \in {"update", "sampled", "raised"}
        /\ pc' = "update" => layer' = layer + 1
        /\ pc' = "sampled" => ~ (layer < Len(service.layers))
    BY <1>10 DEF Forward, setup, engine
  <2>2. ASSUME pc' # "raised", NEW l \in Layers, NEW r, NEW i, Pending(l, r, i)
        PROVE  Pending(l, r, i)'
    <3>1. l > layer /\ New(r, i)
      BY <2>1, <2>2 DEF Pending
    <3>2. New(r, i)'
      BY <2>1, <3>1 DEF New
    <3>3. layer < Len(service.layers)
      BY <1>1, <2>2, <3>1 DEF Layers
    <3>4. pc' = "update" /\ layer' = layer + 1
      BY <2>1, <2>2, <3>3
    <3>5. l >= layer'
      BY <1>1, <2>2, <3>1, <3>4 DEF Layers
    <3> QED  BY <3>2, <3>4, <3>5 DEF Pending
  <2> QED  BY <2>1, <2>2, QuietStep
<1>11. CASE Sample
  <2>1. pc = "sampled" /\ UNCHANGED <<service, cache, table>>
    BY <1>11 DEF Sample, setup
  <2>2. /\ tokens' \in [Requests -> Seq(Nat)]
        /\ \A r \in Requests : /\ Len(tokens'[r]) <= Len(tokens[r])
                               /\ \A i \in 1 .. Len(tokens'[r]) : tokens'[r][i] = tokens[r][i]
    BY <1>11, SampledTokens
  <2>3. ASSUME NEW r \in Requests, NEW i \in 0 .. Len(tokens'[r]) - 1
        PROVE  i \in 0 .. Len(tokens[r]) - 1 /\ tokens'[r][i + 1] = tokens[r][i + 1]
    <3>1. Len(tokens[r]) \in Nat /\ Len(tokens'[r]) \in Nat
      BY <2>2, LenProperties DEF HoldsPages
    <3>2. i \in 0 .. Len(tokens[r]) - 1 /\ i + 1 \in 1 .. Len(tokens'[r])
      BY <2>2, <3>1
    <3> QED  BY <2>2, <3>2
  <2> QED  BY <2>1, <2>2, <2>3, CacheAtRest
<1>12. ASSUME NEW s \in Requests, Finish(s) PROVE CacheInv'
  <2>1. /\ pc = "idle" /\ UNCHANGED <<service, cache>>
        /\ tokens' = [tokens EXCEPT ![s] = << >>] /\ table' = [table EXCEPT ![s] = << >>]
    BY <1>12 DEF Finish, setup
  <2>2. tokens' \in [Requests -> Seq(Nat)]
    <3>1. << >> \in Seq(Nat)
      OBVIOUS
    <3> QED  BY <2>1, <3>1 DEF HoldsPages
  <2>3. ASSUME NEW r \in Requests, NEW i \in 0 .. Len(tokens'[r]) - 1
        PROVE  tokens'[r] = tokens[r] /\ table'[r] = table[r]
    <3>1. r # s
      <4>1. SUFFICES ASSUME r = s PROVE FALSE
        OBVIOUS
      <4>2. tokens'[r] = << >>
        BY <2>1, <4>1 DEF HoldsPages
      <4>3. Len(tokens'[r]) = 0
        BY <4>2
      <4> QED  BY <2>3, <4>3
    <3> QED  BY <2>1, <3>1 DEF HoldsPages
  <2> QED  BY <2>1, <2>2, <2>3, CacheAtRest
<1>13. CASE UNCHANGED vars
  <2>1. UNCHANGED <<service, tokens, table, cache, batch, layer, pc>>
    BY <1>13 DEF vars, setup, engine
  <2> QED  BY <2>1, QuietStep DEF Pending, New
<1> QED
  BY <1>3, <1>4, <1>5, <1>6, <1>7, <1>8, <1>9, <1>10, <1>11, <1>12, <1>13 DEF Next, Terminating

(* What every reachable state of an engine satisfies.                      *)
THEOREM EngineInvariant == Spec => []ServiceInv
<1>1. Init => CacheInv
  <2> SUFFICES ASSUME Init PROVE CacheInv
    OBVIOUS
  <2>1. /\ cache = [l \in Layers |-> [a \in Addresses |-> Garbage]]
        /\ tokens = [r \in Requests |-> << >>]
    BY DEF Init
  <2>2. CacheShape
    BY <2>1 DEF CacheShape
  <2>3. \A r \in Requests : Len(tokens[r]) = 0
    BY <2>1
  <2>4. TokensHeld
    BY <2>3 DEF TokensHeld
  <2> QED  BY <2>2, <2>4 DEF CacheInv
<1>2. SetupInv /\ HoldsPages /\ PagesHaveOneOwner /\ BatchInv /\ CacheInv /\ [Next]_vars => CacheInv'
  BY CacheStep
<1> QED  BY <1>1, <1>2, BatchesAndCalls, PTL DEF Spec, ServiceInv

(* The layer that was called, and the one whose cache it uses, are served  *)
(* on E4M3 caches that attention reads in the order they were written.     *)
LEMMA CalledLayers ==
  ASSUME SetupInv, BatchInv, CallInv, HasCall
  PROVE  /\ Layout = "NHD"
         /\ Owner(CalledLayer) \in Layers /\ ~ service.layers[Owner(CalledLayer)].shares
         /\ Format(CacheDtype(Owner(CalledLayer))) = "e4m3"
         /\ EngineClass # "stock" /\ pc # "raised"
         /\ \A r, i : ~ Pending(Owner(CalledLayer), r, i)
<1> DEFINE c == CalledLayer  o == Owner(c)  n == Len(service.layers)
<1>1. /\ layer \in 1 .. n /\ n \in Nat \ {0} /\ Layers = 1 .. n /\ ~ service.layers[1].shares
  BY ServiceFacts DEF SetupInv, Layers
<1>2. /\ pc \in {"update", "sampled"} /\ call # NoCall /\ EngineClass = "fp8"
      /\ pc = "update" => layer # 1
  BY DEF HasCall, CallInv
<1>3. c \in 1 .. n /\ \A k \in 1 .. c : Served(k)
  <2>1. CASE pc = "update"
    <3>1. c = layer - 1 /\ layer # 1
      BY <1>2, <2>1 DEF CalledLayer
    <3>2. \A k \in 1 .. layer - 1 : Served(k)
      BY <2>1 DEF BatchInv, Running
    <3>3. c \in 1 .. n
      BY <1>1, <3>1
    <3> QED  BY <3>1, <3>2, <3>3
  <2>2. CASE pc = "sampled"
    <3>1. c = layer
      BY <2>2 DEF CalledLayer
    <3>2. Served(layer) /\ \A k \in 1 .. layer - 1 : Served(k)
      BY <2>2 DEF BatchInv, Running
    <3>3. \A k \in 1 .. layer : k = layer \/ k \in 1 .. layer - 1
      BY <1>1
    <3> QED  BY <1>1, <3>1, <3>2, <3>3
  <2> QED  BY <1>2, <2>1, <2>2
<1>4. o \in 1 .. c /\ ~ service.layers[o].shares
  <2>1. 1 \in 1 .. c /\ c \in 1 .. c
    BY <1>1, <1>3
  <2> QED  BY <1>1, <2>1 DEF Owner
<1> HIDE DEF c, o
<1>5. o \in 1 .. n /\ Served(o)
  BY <1>1, <1>3, <1>4
<1>6. impl[o] = "fp8"
  BY <1>1, <1>2, <1>5 DEF SetupInv
<1>7. Layout = "NHD" /\ CacheDtype(o) \in E4M3
  <2>1. CASE Plugin
    BY <1>5, <1>6, <2>1 DEF Served, ExtensionSelected, Layout
  <2>2. CASE ~ Plugin
    BY <1>5, <1>6, <2>2 DEF Served
  <2> QED  BY <2>1, <2>2
<1>8. Format(CacheDtype(o)) = "e4m3"
  BY <1>7 DEF Format
<1>9. \A r, i : ~ Pending(o, r, i)
  <2>1. CASE pc = "update"
    <3>1. c = layer - 1
      BY <2>1 DEF CalledLayer, c
    <3>2. ~ (o >= layer)
      BY <1>1, <1>3, <1>4, <3>1
    <3> QED  BY <2>1, <3>2 DEF Pending
  <2>2. CASE pc = "sampled"
    BY <2>2 DEF Pending
  <2> QED  BY <1>2, <2>1, <2>2
<1> QED  BY <1>1, <1>2, <1>4, <1>5, <1>7, <1>8, <1>9 DEF o, c

(***************************************************************************)
(* Attention sees what was written: for every request of a batch, position *)
(* and head, the owner's E4M3 bytes of the token that is there now - in    *)
(* every history of scheduling, growth, rejected drafts and freed pages,   *)
(* whatever the page size, the heads and the sharing of layers.            *)
(***************************************************************************)
THEOREM AttentionReadsWhatWasWritten == Spec => []ReadsWhatWasWritten
<1>1. ServiceInv => ReadsWhatWasWritten
  <2> SUFFICES ASSUME ServiceInv, HasCall, NEW j \in DOMAIN batch.rows,
                      NEW i \in 0 .. Len(tokens[batch.rows[j]]) - 1, NEW head \in Heads, NEW half \in Halves
               PROVE  KernelReads(CalledLayer, batch.rows[j], i, head, half)
                        = Stored(batch.rows[j], i, Owner(CalledLayer), head, half, "e4m3")
    BY DEF ReadsWhatWasWritten
  <2>1. SetupInv /\ HoldsPages /\ BatchInv /\ CallInv /\ CacheInv
    BY DEF ServiceInv
  <2> DEFINE r == batch.rows[j]  o == Owner(CalledLayer)  d == service.page_size
             p == PageAt(r, i, d)  a == Offset(p, head, i % d, half)
  <2>2. r \in Requests
    <3>1. batch \in Batches
      BY <2>1 DEF HasCall, BatchInv, Running
    <3> QED  BY <3>1, BatchShape
  <2>3. /\ Layout = "NHD" /\ o \in Layers /\ ~ service.layers[o].shares
        /\ Format(CacheDtype(o)) = "e4m3"
        /\ EngineClass # "stock" /\ pc # "raised" /\ ~ Pending(o, r, i)
    BY <2>1, CalledLayers
  <2>4. Holds(o, r, i)
    BY <2>1, <2>2, <2>3 DEF CacheInv, TokensHeld
  <2>5. /\ i \div d + 1 \in DOMAIN table[r] /\ p \in 0 .. NumPages - 1 /\ i % d \in 0 .. d - 1
    BY <2>1, <2>2, TokenHasPage
  <2>6. a \in Addresses
    BY <2>1, <2>5, OffsetInCache DEF SetupInv
  <2>7. cache[o][a] = Stored(r, i, o, head, half, "e4m3")
    BY <2>3, <2>4 DEF Holds
  <2>8. ViewPage = d /\ ReadOffset(p, i % d, head, half) = a
    BY <2>3 DEF ViewPage, ReadOffset
  <2> QED  BY <2>5, <2>6, <2>7, <2>8 DEF KernelReads
<1> QED  BY <1>1, EngineInvariant, PTL

-----------------------------------------------------------------------------
(* The faults that the content of a directory shows: a wrong file, a wrong *)
(* copy of SHA256SUMS, each by a copy of its own.                          *)
ListSpoilt(dir) == dir.list # NotCopied /\ dir.list # ImageList
FileSpoilt(dir) == \E f \in Files : dir.copies[f] = "bad"
FaultsCounted(dir, n) ==
  /\ ListSpoilt(dir) \/ FileSpoilt(dir) => n >= 1
  /\ ListSpoilt(dir) /\ FileSpoilt(dir) => n >= 2

WholeCopy(dir) == dir.list \in CopiedLists /\ \A f \in Files : dir.copies[f] # "none"

(* A staging directory while it is copied, checked and renamed: whole when *)
(* it is checked, and in agreement with its own list when it is renamed.   *)
StagingReady ==
  \A p \in Exporters :
    /\ shell[p] \in {"copy", "verify_staging", "publish"} =>
         /\ staging[p] \in Dirs
         /\ staging[p].list \in CopiedLists \cup {NotCopied}
         /\ FaultsCounted(staging[p], badCopies)
    /\ shell[p] \in {"verify_staging", "publish"} => WholeCopy(staging[p])
    /\ shell[p] = "publish" => Verified(staging[p], staging[p].list)

(* Of two exporters past their last failure, one compared with ImageList.  *)
Succeeding(p) == shell[p] \in {"renamed", "exit_0"}
SuccessShared ==
  \A p \in Exporters : Succeeding(p) =>
    /\ destination # Absent
    /\ \A q \in Exporters \ {p} : Succeeding(q) => Verified(destination, ImageList)

ExportInv == TypeOK /\ StagingReady /\ PublishedIsComplete /\ SuccessShared

(* No directory passes sha256sum -c when it does not exist.                *)
LEMMA AbsentIsNotVerified == ASSUME NEW list PROVE ~ Verified(Absent, list)
BY DEF Verified

(* A directory that mktemp made is not the absent one.                     *)
LEMMA DirsArePresent == ASSUME NEW d \in Dirs PROVE d # Absent
BY DEF Dirs, Absent

(* The empty staging directory is a directory, without a fault.            *)
LEMMA EmptyDirIsClean ==
  ASSUME NEW n \in Nat PROVE EmptyDir \in Dirs /\ EmptyDir.list = NotCopied /\ FaultsCounted(EmptyDir, n)
BY DEF EmptyDir, NotCopied, Dirs, FaultsCounted, ListSpoilt, FileSpoilt

(* One more copied file: a wrong one is one more fault.                    *)
LEMMA FileCounted ==
  ASSUME NEW d \in Dirs, NEW n \in Nat, FaultsCounted(d, n), NEW f \in Files, d.copies[f] = "none",
         NEW quality \in {"good", "bad"}
  PROVE  LET next == [d EXCEPT !.copies[f] = quality] IN
         /\ next \in Dirs /\ next.list = d.list
         /\ FaultsCounted(next, n + (IF quality = "bad" THEN 1 ELSE 0))
<1> DEFINE next == [d EXCEPT !.copies[f] = quality]
<1>1. /\ next \in Dirs /\ next.list = d.list
      /\ next.copies = [d.copies EXCEPT ![f] = quality]
  BY DEF Dirs
<1>2. quality = "good" => (FileSpoilt(next) <=> FileSpoilt(d))
  BY <1>1 DEF FileSpoilt, Dirs
<1>3. ListSpoilt(next) <=> ListSpoilt(d)
  BY <1>1 DEF ListSpoilt
<1> QED
  BY <1>1, <1>2, <1>3 DEF FaultsCounted

(* The copied list: one that differs from the image's is one more fault.   *)
LEMMA ListCounted ==
  ASSUME NEW d \in Dirs, NEW n \in Nat, FaultsCounted(d, n), d.list = NotCopied,
         NEW list \in CopiedLists
  PROVE  LET next == [d EXCEPT !.list = list] IN
         /\ next \in Dirs /\ next.list = list
         /\ FaultsCounted(next, n + (IF list = ImageList THEN 0 ELSE 1))
<1> DEFINE next == [d EXCEPT !.list = list]
<1>1. next \in Dirs /\ next.list = list /\ next.copies = d.copies
  BY DEF Dirs, CopiedLists
<1>2. FileSpoilt(next) <=> FileSpoilt(d)
  BY <1>1 DEF FileSpoilt
<1>3. list = ImageList => ~ ListSpoilt(next)
  BY <1>1 DEF ListSpoilt
<1> QED
  BY <1>1, <1>2, <1>3 DEF FaultsCounted

(* Later copies, of any exporter, only add faults.                         *)
LEMMA CountGrows ==
  ASSUME NEW d, NEW n \in Nat, NEW m \in Nat, m >= n, FaultsCounted(d, n)
  PROVE  FaultsCounted(d, m)
BY DEF FaultsCounted

(* What line 15 lets through may be published: a wrong file is one whose   *)
(* line the list has lost, and both are faults.                            *)
LEMMA CheckedMayBePublished ==
  ASSUME NEW d \in Dirs, NEW n \in Nat, FaultsCounted(d, n), WholeCopy(d), Verified(d, d.list),
         NEW f \in Files
  PROVE  /\ d.copies[f] # "none"
         /\ d.list[f] # "lost" => d.list[f] = "right" /\ d.copies[f] = "good"
         /\ d.copies[f] = "bad" => n >= 2
<1>1. d.list[f] # "lost" => d.list[f] = "right" /\ d.copies[f] = "good"
  BY DEF Verified
<1>2. ASSUME d.copies[f] = "bad" PROVE n >= 2
  <2>1. d.list[f] = "lost"
    BY <1>1, <1>2
  <2>2. ListSpoilt(d)
    BY <2>1 DEF ListSpoilt, NotCopied, ImageList
  <2> QED
    BY <1>2, <2>2 DEF FaultsCounted, FileSpoilt
<1> QED
  BY <1>1, <1>2 DEF WholeCopy

(* A shell that has not started yet satisfies the invariant.               *)
LEMMA ExportInitial == ExportInit => ExportInv
BY ExportAssumption DEF ExportInit, ExportInv, TypeOK, StagingReady, PublishedIsComplete, SuccessShared,
                        Succeeding

(* The next file of cp -a, whichever it is.                                *)
LEMMA CopyStep ==
  ASSUME ExportInv, NEW p \in Exporters, NEW d \in Dirs, NEW faults \in Nat, CopyInto(p, d, faults),
         d.list \in CopiedLists \cup {NotCopied}, FaultsCounted(d, badCopies + faults)
  PROVE  ExportInv'
<1> USE DEF ExportInv
<1>1. /\ badCopies' = badCopies + faults /\ badCopies' \in 0 .. MaxBadCopies
      /\ badCopies \in Nat /\ badCopies' \in Nat /\ badCopies' >= badCopies
  BY ExportAssumption DEF TypeOK, CopyInto
<1>2. /\ shell'[p] \in {"copy", "verify_staging"} /\ staging'[p] = d
      /\ \A q \in Exporters \ {p} : shell'[q] = shell[q] /\ staging'[q] = staging[q]
      /\ UNCHANGED <<destination, abandoned, kills>>
  BY DEF TypeOK, CopyInto
<1>3. TypeOK'
  BY <1>1 DEF TypeOK, CopyInto
<1>4. StagingReady'
  <2>1. FaultsCounted(d, badCopies')
    BY <1>1
  <2>2. shell'[p] = "verify_staging" => WholeCopy(d)
    BY DEF CopyInto, WholeCopy, TypeOK
  <2>3. ASSUME NEW q \in Exporters \ {p}, FaultsCounted(staging[q], badCopies)
        PROVE  FaultsCounted(staging[q], badCopies')
    BY <1>1, <2>3, CountGrows
  <2> QED
    BY <1>2, <2>1, <2>2, <2>3 DEF StagingReady
<1>5. PublishedIsComplete'
  BY <1>1, <1>2 DEF PublishedIsComplete
<1>6. SuccessShared'
  BY <1>2 DEF SuccessShared, Succeeding
<1> QED
  BY <1>3, <1>4, <1>5, <1>6

(* Every command of export.sh, and a kill at any point, preserves it.      *)
LEMMA ExportStep == ExportInv /\ [ExportNext]_exportVars => ExportInv'
<1> SUFFICES ASSUME ExportInv, [ExportNext]_exportVars PROVE ExportInv'
  OBVIOUS
<1>0. badCopies \in Nat
  BY ExportAssumption DEF ExportInv, TypeOK
<1> USE DEF ExportInv, TypeOK, StagingReady, SuccessShared, Succeeding, Jump
<1>1. ASSUME NEW p \in Exporters, FindDestination(p) PROVE ExportInv'
  BY <1>1 DEF FindDestination, PublishedIsComplete
<1>2. ASSUME NEW p \in Exporters, VerifyFound(p) PROVE ExportInv'
  BY <1>2, AbsentIsNotVerified DEF VerifyFound, PublishedIsComplete
<1>3. ASSUME NEW p \in Exporters, MakeStaging(p) PROVE ExportInv'
  BY <1>0, <1>3, EmptyDirIsClean DEF MakeStaging, PublishedIsComplete
<1>4. ASSUME NEW p \in Exporters, NEW f \in Files, NEW quality \in {"good", "bad"},
             CopyFile(p, f, quality)
      PROVE  ExportInv'
  <2>1. /\ staging[p] \in Dirs /\ staging[p].list \in CopiedLists \cup {NotCopied}
        /\ FaultsCounted(staging[p], badCopies) /\ staging[p].copies[f] = "none"
    BY <1>4 DEF CopyFile
  <2> DEFINE d == [staging[p] EXCEPT !.copies[f] = quality]
             faults == IF quality = "bad" THEN 1 ELSE 0
  <2>2. d \in Dirs /\ d.list = staging[p].list /\ FaultsCounted(d, badCopies + faults)
    BY <1>0, <2>1, FileCounted
  <2>3. CopyInto(p, d, faults) /\ faults \in Nat
    BY <1>4 DEF CopyFile
  <2> HIDE DEF d, faults
  <2> QED
    BY <2>1, <2>2, <2>3, CopyStep
<1>5. ASSUME NEW p \in Exporters, NEW list \in CopiedLists, CopyList(p, list) PROVE ExportInv'
  <2>1. /\ staging[p] \in Dirs /\ staging[p].list = NotCopied /\ FaultsCounted(staging[p], badCopies)
    BY <1>5 DEF CopyList
  <2> DEFINE d == [staging[p] EXCEPT !.list = list]
             faults == IF list = ImageList THEN 0 ELSE 1
  <2>2. d \in Dirs /\ d.list = list /\ FaultsCounted(d, badCopies + faults)
    BY <1>0, <2>1, ListCounted
  <2>3. CopyInto(p, d, faults) /\ faults \in Nat
    BY <1>5 DEF CopyList
  <2> HIDE DEF d, faults
  <2> QED
    BY <2>2, <2>3, CopyStep
<1>6. ASSUME NEW p \in Exporters, VerifyStaging(p) PROVE ExportInv'
  BY <1>6 DEF VerifyStaging, PublishedIsComplete
<1>7. ASSUME NEW p \in Exporters, Publish(p) PROVE ExportInv'
  <2>1. CASE destination = Absent
    <3>1. /\ destination' = staging[p] /\ staging[p] \in Dirs /\ WholeCopy(staging[p])
          /\ FaultsCounted(staging[p], badCopies) /\ Verified(staging[p], staging[p].list)
          /\ badCopies' = badCopies
      BY <1>7, <2>1 DEF Publish
    <3>2. PublishedIsComplete'
      BY <1>0, <3>1, CheckedMayBePublished DEF PublishedIsComplete
    <3>3. destination' # Absent
      BY <3>1, DirsArePresent
    <3> QED
      BY <1>7, <2>1, <3>1, <3>2, <3>3 DEF Publish
  <2>2. CASE destination # Absent
    BY <1>7, <2>2 DEF Publish, PublishedIsComplete
  <2> QED
    BY <2>1, <2>2
<1>8. ASSUME NEW p \in Exporters, EndScript(p) PROVE ExportInv'
  BY <1>8 DEF EndScript, PublishedIsComplete
<1>9. ASSUME NEW p \in Exporters, RenameFails(p) PROVE ExportInv'
  BY <1>9 DEF RenameFails, PublishedIsComplete
<1>10. ASSUME NEW p \in Exporters, VerifyOther(p) PROVE ExportInv'
  BY <1>10, AbsentIsNotVerified DEF VerifyOther, PublishedIsComplete
<1>11. ASSUME NEW p \in Exporters, CommandFails(p) PROVE ExportInv'
  BY <1>11 DEF CommandFails, PublishedIsComplete
<1>12. ASSUME NEW p \in Exporters, Kill(p) PROVE ExportInv'
  <2>1. kills' \in 0 .. MaxKills
    BY <1>12, ExportAssumption DEF Kill
  <2> QED
    BY <1>12, <2>1 DEF Kill, PublishedIsComplete
<1>13. CASE UNCHANGED exportVars
  BY <1>13 DEF exportVars, PublishedIsComplete
<1>14. CASE Over
  BY <1>13, <1>14 DEF Over
<1> QED
  BY <1>1, <1>2, <1>3, <1>4, <1>5, <1>6, <1>7, <1>8, <1>9, <1>10, <1>11, <1>12, <1>13, <1>14
  DEF ExportNext, Step

(* Type correctness of the exporters' state.                               *)
THEOREM ExportTypes == ExportSpec => []TypeOK
<1>1. ExportInv => TypeOK
  BY DEF ExportInv
<1> QED
  BY <1>1, ExportInitial, ExportStep, PTL DEF ExportSpec

(* Whatever kills and bad copies happen, in whatever order the exporters   *)
(* run, a directory under the final name has every file, each intact that  *)
(* its SHA256SUMS lists; a wrong file in it takes two faults at least.     *)
THEOREM OneFaultIsNotPublished == ExportSpec => []PublishedIsComplete
<1>1. ExportInv => PublishedIsComplete
  BY DEF ExportInv
<1> QED
  BY <1>1, ExportInitial, ExportStep, PTL DEF ExportSpec

(* At every moment: who has reported success left a directory, and when    *)
(* two have, its files are those of the image.                             *)
THEOREM SecondSuccessConfirms == ExportSpec => []SuccessMeansPublished
<1>1. ExportInv => SuccessMeansPublished
  BY DEF ExportInv, SuccessShared, Succeeding, SuccessMeansPublished
<1> QED
  BY <1>1, ExportInitial, ExportStep, PTL DEF ExportSpec

(* The published directory is immutable: no command touches it again.      *)
THEOREM PublishedStays == ExportSpec => PublishedOnce
<1>1. [ExportNext]_exportVars => [destination # Absent => UNCHANGED destination]_destination
  BY DEF ExportNext, Step, exportVars, FindDestination, VerifyFound, MakeStaging, CopyFile, CopyList, CopyInto,
         VerifyStaging, Publish, EndScript, RenameFails, VerifyOther, CommandFails, Kill, Over, Jump
<1> QED
  BY <1>1, PTL DEF ExportSpec, PublishedOnce

-----------------------------------------------------------------------------
(* A shell has a staging directory between mktemp and its exit.            *)
StagingHeld ==
  \A p \in Exporters :
    shell[p] \in {"start", "verify_found", "mktemp", "renamed", "exit_0", "exit_1"} => staging[p] = Absent

LitterInv == TypeOK /\ StagingHeld /\ IsFiniteSet(abandoned) /\ Cardinality(abandoned) <= kills

(* A killed shell leaves at most its own directory behind.                 *)
LEMMA KillLeavesOne ==
  ASSUME IsFiniteSet(abandoned), Cardinality(abandoned) <= kills, kills \in Nat,
         NEW d, NEW rest, rest = abandoned \cup ({d} \ {Absent})
  PROVE  IsFiniteSet(rest) /\ Cardinality(rest) <= kills + 1
<1>1. Cardinality(abandoned) \in Nat
  BY FS_CardinalityType
<1>2. CASE d = Absent
  <2>1. rest = abandoned
    BY <1>2
  <2>2. IsFiniteSet(rest) /\ Cardinality(rest) = Cardinality(abandoned)
    BY <2>1
  <2> QED
    BY <1>1, <2>2
<1>3. CASE d # Absent
  <2>1. rest = abandoned \cup {d}
    BY <1>3
  <2>2. /\ IsFiniteSet(abandoned \cup {d})
        /\ \/ Cardinality(abandoned \cup {d}) = Cardinality(abandoned)
           \/ Cardinality(abandoned \cup {d}) = Cardinality(abandoned) + 1
    BY FS_AddElement
  <2> QED
    BY <1>1, <2>1, <2>2
<1> QED
  BY <1>2, <1>3

(* Nothing is staged or abandoned at first.                                *)
LEMMA LitterInitial == ExportInit => LitterInv
<1> SUFFICES ASSUME ExportInit PROVE LitterInv
  OBVIOUS
<1>1. IsFiniteSet(abandoned) /\ Cardinality(abandoned) <= kills
  BY FS_EmptySet DEF ExportInit
<1>2. TypeOK
  BY ExportAssumption DEF ExportInit, TypeOK
<1> QED
  BY <1>1, <1>2 DEF ExportInit, LitterInv, StagingHeld

(* Only a kill adds a directory, and every exit drops the shell's own.     *)
LEMMA LitterStep == ExportInv /\ LitterInv /\ [ExportNext]_exportVars => LitterInv'
<1> SUFFICES ASSUME ExportInv, LitterInv, [ExportNext]_exportVars PROVE LitterInv'
  OBVIOUS
<1>1. TypeOK /\ TypeOK'
  BY ExportStep DEF ExportInv
<1>2. StagingHeld /\ IsFiniteSet(abandoned) /\ Cardinality(abandoned) <= kills
  BY DEF LitterInv
<1> USE DEF Jump
<1>3. ASSUME NEW p \in Exporters, Kill(p) PROVE LitterInv'
  <2>1. abandoned' = abandoned \cup ({staging[p]} \ {Absent}) /\ kills' = kills + 1
    BY <1>3 DEF Kill
  <2>2. kills \in Nat
    BY <1>1, ExportAssumption DEF TypeOK
  <2>3. IsFiniteSet(abandoned') /\ Cardinality(abandoned') <= kills'
    BY <1>2, <2>1, <2>2, KillLeavesOne
  <2>4. StagingHeld'
    BY <1>1, <1>2, <1>3 DEF Kill, StagingHeld, TypeOK
  <2> QED
    BY <1>1, <2>3, <2>4 DEF LitterInv
<1>4. ASSUME UNCHANGED <<abandoned, kills>>, StagingHeld' PROVE LitterInv'
  BY <1>1, <1>2, <1>4 DEF LitterInv
<1>5. ASSUME NEW p \in Exporters, Step(p) \/ RenameFails(p) \/ CommandFails(p)
      PROVE  StagingHeld' /\ UNCHANGED <<abandoned, kills>>
  <2>1. CASE FindDestination(p)
    BY <1>1, <1>2, <2>1 DEF FindDestination, StagingHeld, TypeOK
  <2>2. CASE VerifyFound(p)
    BY <1>1, <1>2, <2>2 DEF VerifyFound, StagingHeld, TypeOK
  <2>3. CASE MakeStaging(p)
    BY <1>1, <1>2, <2>3 DEF MakeStaging, StagingHeld, TypeOK
  <2>4. ASSUME NEW d, NEW faults, CopyInto(p, d, faults)
        PROVE  StagingHeld' /\ UNCHANGED <<abandoned, kills>>
    <3>1. /\ shell'[p] \in {"copy", "verify_staging"}
          /\ \A q \in Exporters \ {p} : shell'[q] = shell[q] /\ staging'[q] = staging[q]
      BY <1>1, <2>4 DEF CopyInto, TypeOK
    <3> QED
      BY <1>2, <2>4, <3>1 DEF CopyInto, StagingHeld
  <2>5. CASE VerifyStaging(p)
    BY <1>1, <1>2, <2>5 DEF VerifyStaging, StagingHeld, TypeOK
  <2>6. CASE Publish(p)
    BY <1>1, <1>2, <2>6 DEF Publish, StagingHeld, TypeOK
  <2>7. CASE EndScript(p)
    BY <1>1, <1>2, <2>7 DEF EndScript, StagingHeld, TypeOK
  <2>8. CASE RenameFails(p)
    BY <1>1, <1>2, <2>8 DEF RenameFails, StagingHeld, TypeOK
  <2>9. CASE VerifyOther(p)
    BY <1>1, <1>2, <2>9 DEF VerifyOther, StagingHeld, TypeOK
  <2>10. CASE CommandFails(p)
    BY <1>1, <1>2, <2>10 DEF CommandFails, StagingHeld, TypeOK
  <2> QED
    BY <1>5, <2>1, <2>2, <2>3, <2>4, <2>5, <2>6, <2>7, <2>8, <2>9, <2>10 DEF Step, CopyFile, CopyList
<1>6. CASE UNCHANGED exportVars
  BY <1>2, <1>4, <1>6 DEF exportVars, StagingHeld
<1> QED
  BY <1>3, <1>4, <1>5, <1>6 DEF ExportNext, Over

(* However often shells are killed, fail or lose the race, the volume has  *)
(* at most one directory per kill that nobody removes.                     *)
THEOREM OnlyKillsLitter == ExportSpec => []NoLitter
<1>1. ExportInv /\ LitterInv => NoLitter
  BY DEF LitterInv, StagingHeld, NoLitter, Exited
<1>2. ExportInv /\ LitterInv /\ [ExportNext]_exportVars => ExportInv' /\ LitterInv'
  BY ExportStep, LitterStep
<1>3. ExportInit => ExportInv /\ LitterInv
  BY ExportInitial, LitterInitial
<1> QED
  BY <1>1, <1>2, <1>3, PTL DEF ExportSpec
=============================================================================
