----------------------- MODULE AttentionBackendProofs -----------------------
(***************************************************************************)
(* The adapters for any batch of decoder requests: what they ask of the    *)
(* operator, when they refuse a batch, and what the output holds in the    *)
(* end, whichever route the batch took.                                    *)
(***************************************************************************)
EXTENDS AttentionBackend, KvGeometryProofs, SequenceTheorems

-----------------------------------------------------------------------------
(* What build computes.                                                    *)
BuiltContext ==
  IF batch.causal /\ max_query_len > ShortQuery /\ num_reqs = 1 /\ batch.upper # << >>
  THEN batch.upper[1] ELSE 0
BuiltStarts ==
  IF Plugin /\ batch.causal /\ max_query_len > MaxQueries THEN QueryStarts ELSE << >>

Native == pc \in {"gather", "attend", "copy"}

(* Where each step of forward stands.                                      *)
BuildInv ==
  IF pc = "build" THEN prefill_query_starts = << >>
  ELSE prefill_context = BuiltContext /\ prefill_query_starts = BuiltStarts

NativeInv ==
  Native => /\ count # 0 /\ batch.supported /\ RunsNative
            /\ head \in 0 .. batch.kv_heads - 1
            /\ chunk \in 1 .. Len(Chunks) + 1
            /\ chunk = Len(Chunks) + 1 <=> pc = "copy"

PagedInv ==
  pc = "paged" => /\ count # 0 /\ batch.supported /\ FullCausal
                  /\ paged.starts = QueryStarts /\ paged.lengths = batch.k
                  /\ paged.maximum \in 1 .. Maximum
                  /\ \A b \in Requests : batch.k[b] <= paged.maximum
                  /\ row \in Requests /\ start \in QueryStarts[row] .. QueryStarts[row + 1]

(* The arguments of an operator call, and the metadata it finds.           *)
MeetsContract(o) ==
  /\ o.call \in CallTypes /\ Accepted(o.call) /\ o.call.max_q <= o.call.max_k
  /\ [cu_q |-> o.cu_q, seq_k |-> o.seq_k] \in ValidMetadata(o.call)
  /\ DOMAIN o.seqs = 1 .. o.call.batch /\ Len(o.seqs) = o.call.batch
  /\ \A b \in 1 .. o.call.batch : o.cu_q[b + 1] - o.cu_q[b] <= o.seq_k[b]

Work ==
  [op : {"fill"}] \cup [op : {"gather"}, kv : Nat, start : Nat, length : Nat]
  \cup [op : {"attend"}, causal : BOOLEAN, first : BOOLEAN] \cup [op : {"copy"}, kv : Nat]
  \cup [op : {"forward"}, call : CallTypes, first : Nat, cu_q : Seq(Nat), seq_k : Seq(Nat),
        seqs : Seq(Nat)]

CallsMeetContract ==
  \A n \in 1 .. Len(stream) : stream[n].op = "forward" => MeetsContract(stream[n])

(* The batches forward may refuse.                                         *)
MayRefuse ==
  \/ ~ batch.supported
  \/ /\ max_query_len > MaxQueries
     /\ \/ ~ FullCausal \/ batch.capturing
        \/ ~ Plugin /\ ~ (batch.enabled /\ num_reqs = 1 /\ batch.upper # << >>)

HostInv ==
  /\ batch \in Batches
  /\ pc \in {"build", "forward", "gather", "attend", "copy", "paged", "returned", "raised"}
  /\ BuildInv /\ NativeInv /\ PagedInv
  /\ stream \in Seq(Work) /\ CallsMeetContract
  /\ pc = "raised" => MayRefuse

-----------------------------------------------------------------------------
(* A batch and its fields.                                                 *)
LEMMA BatchFacts ==
  ASSUME batch \in Batches
  PROVE  /\ batch \in BatchTypes /\ BatchFits(batch)
         /\ num_reqs \in Nat \ {0}
         /\ batch.q \in [Requests -> Nat] /\ batch.k \in [Requests -> Nat]
         /\ \A b \in Requests : batch.q[b] <= batch.k[b] /\ batch.k[b] <= Maximum
         /\ Maximum \in 1 .. MaxKeys
  <1>1. batch \in BatchTypes /\ BatchFits(batch)
    BY BatchesAssumption
  <1>2. batch.q \in Seq(Nat) /\ batch.k \in Seq(Nat) /\ batch.q # << >> /\ Len(batch.k) = Len(batch.q)
    BY <1>1 DEF BatchTypes, BatchFits
  <1>3. Len(batch.q) \in Nat \ {0}
    BY <1>2, EmptySeq, LenProperties
  <1>4. batch.q \in [Requests -> Nat] /\ batch.k \in [Requests -> Nat]
    BY <1>2, LenProperties DEF Requests, num_reqs
  <1> QED
    BY <1>1, <1>2, <1>3, <1>4 DEF BatchFits, Requests, num_reqs, Maximum, capacity

(* Prefix sums exist: otherwise there would be a shortest list without.    *)
LEMMA PrefixSums ==
  ASSUME NEW n \in Nat, NEW q \in [1 .. n -> Nat]
  PROVE  \E f \in [0 .. n -> Nat] : f[0] = 0 /\ \A b \in 1 .. n : f[b] = f[b - 1] + q[b]
  <1> DEFINE Sums(m) == { f \in [0 .. m -> Nat] : f[0] = 0 /\ \A b \in 1 .. m : f[b] = f[b - 1] + q[b] }
             T == { m \in 0 .. n : Sums(m) = {} }
  <1>1. Sums(0) # {}
    <2>1. [b \in 0 .. 0 |-> 0] \in Sums(0)
      OBVIOUS
    <2> QED
      BY <2>1
  <1>2. ASSUME NEW m \in 1 .. n, Sums(m - 1) # {} PROVE Sums(m) # {}
    <2>1. PICK f \in [0 .. m - 1 -> Nat] : f[0] = 0 /\ \A b \in 1 .. m - 1 : f[b] = f[b - 1] + q[b]
      BY <1>2
    <2> DEFINE g == [b \in 0 .. m |-> IF b = m THEN f[m - 1] + q[m] ELSE f[b]]
    <2>2. g \in [0 .. m -> Nat]
      <3>1. ASSUME NEW b \in 0 .. m PROVE (IF b = m THEN f[m - 1] + q[m] ELSE f[b]) \in Nat
        <4>1. CASE b = m
          <5>1. m - 1 \in 0 .. m - 1 /\ m \in 1 .. n
            OBVIOUS
          <5>2. f[m - 1] \in Nat /\ q[m] \in Nat
            BY <5>1, <2>1
          <5> QED
            BY <4>1, <5>2
        <4>2. CASE b # m
          <5>1. b \in 0 .. m - 1
            BY <4>2
          <5> QED
            BY <4>2, <5>1, <2>1
        <4> QED
          BY <4>1, <4>2
      <3> QED
        BY <3>1
    <2>3. g[0] = 0
      BY <2>1
    <2>4. ASSUME NEW b \in 1 .. m PROVE g[b] = g[b - 1] + q[b]
      <3>1. CASE b = m
        BY <3>1
      <3>2. CASE b # m
        <4>1. b \in 1 .. m - 1 /\ b - 1 # m /\ b - 1 \in 0 .. m /\ b \in 0 .. m
          BY <3>2
        <4>2. g[b] = f[b] /\ g[b - 1] = f[b - 1]
          BY <3>2, <4>1
        <4> QED
          BY <4>1, <4>2, <2>1
      <3> QED
        BY <3>1, <3>2
    <2> HIDE DEF g
    <2>5. g \in Sums(m)
      BY <2>2, <2>3, <2>4
    <2> QED
      BY <2>5
  <1> HIDE DEF Sums
  <1>3. T = {}
    <2>1. SUFFICES ASSUME T # {} PROVE FALSE
      OBVIOUS
    <2>2. T \in SUBSET Nat
      OBVIOUS
    <2>3. PICK m \in T : \A k \in T : m <= k
      BY <2>1, <2>2, LeastNatural
    <2>4. m # 0
      BY <1>1, <2>3
    <2>5. m \in 1 .. n /\ m - 1 \in 0 .. n /\ ~ (m <= m - 1)
      BY <2>3, <2>4
    <2>6. Sums(m - 1) # {}
      BY <2>3, <2>5
    <2> QED
      BY <1>2, <2>3, <2>5, <2>6
  <1>4. Sums(n) # {}
    BY <1>3
  <1> QED
    BY <1>4 DEF Sums

(* A recursive sum has natural values: otherwise there would be a first    *)
(* entry that is none.                                                     *)
LEMMA SumsAreNatural ==
  ASSUME NEW n \in Nat, NEW q \in [1 .. n -> Nat], NEW g,
         g[0] = 0, \A b \in 1 .. n : g[b] = g[b - 1] + q[b]
  PROVE  \A b \in 0 .. n : g[b] \in Nat
  <1> DEFINE T == { m \in 0 .. n : g[m] \notin Nat }
  <1>1. SUFFICES ASSUME T # {} PROVE FALSE
    OBVIOUS
  <1>2. T \in SUBSET Nat
    OBVIOUS
  <1>3. PICK m \in T : \A k \in T : m <= k
    BY <1>1, <1>2, LeastNatural
  <1>4. m \in 1 .. n /\ m - 1 \in 0 .. n /\ ~ (m <= m - 1)
    BY <1>3
  <1>5. g[m - 1] \in Nat /\ q[m] \in Nat
    BY <1>3, <1>4
  <1> QED
    BY <1>3, <1>4, <1>5

(* Query starts are the prefix sums of the query lengths.                  *)
LEMMA StartsFacts ==
  ASSUME batch \in Batches
  PROVE  /\ QueryStarts \in [1 .. num_reqs + 1 -> Nat]
         /\ QueryStarts[1] = 0
         /\ \A b \in Requests : QueryStarts[b + 1] = QueryStarts[b] + batch.q[b]
         /\ count \in Nat /\ count = QueryStarts[num_reqs + 1]
  <1> DEFINE n == num_reqs
             q == batch.q
  <1>1. n \in Nat \ {0} /\ q \in [1 .. n -> Nat] /\ Requests = 1 .. n
    BY BatchFacts DEF Requests
  <1>2. QueryStarts = LET upTo[b \in 0 .. n] == IF b = 0 THEN 0 ELSE upTo[b - 1] + q[b]
                      IN  [b \in 1 .. n + 1 |-> upTo[b - 1]]
    BY DEF QueryStarts
  <1> HIDE DEF n, q
  <1>3. PICK f \in [0 .. n -> Nat] : f[0] = 0 /\ \A b \in 1 .. n : f[b] = f[b - 1] + q[b]
    BY <1>1, PrefixSums
  <1>4. f = [b \in 0 .. n |-> IF b = 0 THEN 0 ELSE f[b - 1] + q[b]]
    BY <1>1, <1>3
  <1> DEFINE u == CHOOSE g : g = [b \in 0 .. n |-> IF b = 0 THEN 0 ELSE g[b - 1] + q[b]]
  <1>5. u = [b \in 0 .. n |-> IF b = 0 THEN 0 ELSE u[b - 1] + q[b]]
    BY <1>4
  <1>6. QueryStarts = [b \in 1 .. n + 1 |-> u[b - 1]]
    BY <1>2
  <1> HIDE DEF u
  <1>7. u[0] = 0 /\ (\A b \in 1 .. n : u[b] = u[b - 1] + q[b]) /\ (\A b \in 0 .. n : u[b] \in Nat)
    <2>1. \A b \in 0 .. n : u[b] = IF b = 0 THEN 0 ELSE u[b - 1] + q[b]
      BY <1>5
    <2>2. u[0] = 0 /\ \A b \in 1 .. n : u[b] = u[b - 1] + q[b]
      BY <1>1, <2>1
    <2> QED
      BY <1>1, <2>2, SumsAreNatural
  <1>8. \A b \in 1 .. n + 1 : QueryStarts[b] = u[b - 1] /\ u[b - 1] \in Nat
    BY <1>1, <1>6, <1>7
  <1>9. \A b \in 1 .. n : QueryStarts[b + 1] = u[b]
    BY <1>1, <1>6
  <1>10. QueryStarts \in [1 .. n + 1 -> Nat]
    BY <1>6, <1>8
  <1>11. QueryStarts[1] = 0
    BY <1>1, <1>7, <1>8
  <1>12. ASSUME NEW b \in Requests PROVE QueryStarts[b + 1] = QueryStarts[b] + q[b]
    <2>1. b \in 1 .. n /\ b \in 1 .. n + 1
      BY <1>1
    <2>2. QueryStarts[b + 1] = u[b] /\ QueryStarts[b] = u[b - 1] /\ u[b] = u[b - 1] + q[b]
      BY <1>7, <1>8, <1>9, <2>1
    <2> QED
      BY <2>2
  <1>13. QueryStarts[n + 1] \in Nat
    BY <1>1, <1>10
  <1> QED
    BY <1>10, <1>11, <1>12, <1>13 DEF count, n, q

(* Later requests start later.                                             *)
LEMMA StartsOrdered ==
  ASSUME batch \in Batches, NEW a \in 1 .. num_reqs + 1, NEW b \in 1 .. num_reqs + 1, a <= b
  PROVE  QueryStarts[a] <= QueryStarts[b]
  <1> DEFINE T == { m \in a .. num_reqs + 1 : ~ (QueryStarts[a] <= QueryStarts[m]) }
  <1>1. num_reqs \in Nat \ {0} /\ batch.q \in [Requests -> Nat] /\ Requests = 1 .. num_reqs
    BY BatchFacts DEF Requests
  <1>2. /\ QueryStarts \in [1 .. num_reqs + 1 -> Nat]
        /\ \A i \in Requests : QueryStarts[i + 1] = QueryStarts[i] + batch.q[i]
    BY StartsFacts
  <1> HIDE DEF num_reqs, Requests, QueryStarts
  <1>3. T = {}
    <2>1. SUFFICES ASSUME T # {} PROVE FALSE
      OBVIOUS
    <2>2. T \in SUBSET Nat
      BY <1>1
    <2>3. PICK m \in T : \A k \in T : m <= k
      BY <2>1, <2>2, LeastNatural
    <2>4. m # a
      BY <1>2, <2>3
    <2>5. m - 1 \in a .. num_reqs + 1 /\ ~ (m <= m - 1) /\ m - 1 \in Requests /\ m - 1 \in 1 .. num_reqs + 1
      BY <1>1, <2>3, <2>4
    <2>6. QueryStarts[a] <= QueryStarts[m - 1]
      BY <2>3, <2>5
    <2>7. QueryStarts[m] = QueryStarts[m - 1] + batch.q[m - 1]
      <3>1. QueryStarts[m - 1 + 1] = QueryStarts[m - 1] + batch.q[m - 1] /\ m - 1 + 1 = m
        BY <1>1, <1>2, <2>3, <2>5
      <3> QED
        BY <3>1
    <2>8. QueryStarts[m - 1] \in Nat /\ QueryStarts[a] \in Nat
      BY <1>2, <2>5
    <2>9. batch.q[m - 1] \in Nat
      BY <1>1, <2>5
    <2> QED
      BY <2>3, <2>6, <2>7, <2>8, <2>9
  <1>4. b \in a .. num_reqs + 1
    BY <1>1
  <1> QED
    BY <1>3, <1>4

(* Every token belongs to exactly one request.                             *)
LEMMA OwnerExists ==
  ASSUME batch \in Batches, NEW t \in 0 .. count - 1
  PROVE  \E b \in Requests : QueryStarts[b] <= t /\ t < QueryStarts[b + 1]
  <1> DEFINE T == { m \in Requests : t < QueryStarts[m + 1] }
  <1>1. num_reqs \in Nat \ {0} /\ Requests = 1 .. num_reqs
    BY BatchFacts DEF Requests
  <1>2. /\ QueryStarts \in [1 .. num_reqs + 1 -> Nat] /\ QueryStarts[1] = 0
        /\ count = QueryStarts[num_reqs + 1] /\ count \in Nat
    BY StartsFacts
  <1> HIDE DEF num_reqs, Requests, QueryStarts, count
  <1>3. num_reqs \in T
    BY <1>1, <1>2
  <1>4. T \in SUBSET Nat
    BY <1>1
  <1>5. PICK m \in T : \A k \in T : m <= k
    BY <1>3, <1>4, LeastNatural
  <1>6. QueryStarts[m] <= t
    <2>1. CASE m = 1
      BY <1>2, <2>1
    <2>2. CASE m # 1
      <3>1. m - 1 \in Requests /\ ~ (m <= m - 1) /\ m - 1 + 1 = m
        BY <1>1, <1>5, <2>2
      <3>2. ~ (t < QueryStarts[m])
        BY <1>5, <3>1
      <3>3. QueryStarts[m] \in Nat
        BY <1>1, <1>2, <1>5
      <3> QED
        BY <1>2, <3>2, <3>3
    <2> QED
      BY <2>1, <2>2
  <1> QED
    BY <1>5, <1>6

(* The request of a token is the only one.                                 *)
LEMMA OwnerUnique ==
  ASSUME batch \in Batches, NEW t \in Nat, NEW a \in Requests, NEW b \in Requests,
         QueryStarts[a] <= t, t < QueryStarts[a + 1], QueryStarts[b] <= t, t < QueryStarts[b + 1]
  PROVE  a = b
  <1>1. num_reqs \in Nat \ {0} /\ Requests = 1 .. num_reqs
    BY BatchFacts DEF Requests
  <1>2. QueryStarts \in [1 .. num_reqs + 1 -> Nat]
    BY StartsFacts
  <1> HIDE DEF num_reqs, Requests, QueryStarts
  <1>3. /\ a \in 1 .. num_reqs + 1 /\ a + 1 \in 1 .. num_reqs + 1
        /\ b \in 1 .. num_reqs + 1 /\ b + 1 \in 1 .. num_reqs + 1
    BY <1>1
  <1>4. /\ QueryStarts[a] \in Nat /\ QueryStarts[a + 1] \in Nat
        /\ QueryStarts[b] \in Nat /\ QueryStarts[b + 1] \in Nat
    BY <1>2, <1>3
  <1>5. ASSUME a < b PROVE FALSE
    <2>1. QueryStarts[a + 1] <= QueryStarts[b]
      BY <1>1, <1>3, <1>5, StartsOrdered
    <2> QED
      BY <1>4, <2>1
  <1>6. ASSUME b < a PROVE FALSE
    <2>1. QueryStarts[b + 1] <= QueryStarts[a]
      BY <1>1, <1>3, <1>6, StartsOrdered
    <2> QED
      BY <1>4, <2>1
  <1> QED
    BY <1>1, <1>5, <1>6

(* The longest query exists and is a bound.                                *)
LEMMA LongestQuery ==
  ASSUME batch \in Batches
  PROVE  /\ max_query_len \in Nat
         /\ \E b \in Requests : batch.q[b] = max_query_len
         /\ \A b \in Requests : batch.q[b] <= max_query_len /\ max_query_len <= count
         /\ max_query_len <= Maximum
  <1> DEFINE q == batch.q
             U == { n \in Nat : \A b \in Requests : q[b] <= n }
  <1>1. num_reqs \in Nat \ {0} /\ Requests = 1 .. num_reqs /\ q \in [Requests -> Nat]
    BY BatchFacts DEF Requests
  <1>2. /\ QueryStarts \in [1 .. num_reqs + 1 -> Nat]
        /\ \A b \in Requests : QueryStarts[b + 1] = QueryStarts[b] + q[b]
        /\ count \in Nat /\ count = QueryStarts[num_reqs + 1]
    BY StartsFacts
  <1>3. max_query_len = CHOOSE n \in { q[b] : b \in Requests } : \A b \in Requests : q[b] <= n
    BY DEF max_query_len
  <1>4. \A b \in Requests : q[b] <= batch.k[b] /\ batch.k[b] <= Maximum /\ batch.k[b] \in Nat
    BY BatchFacts
  <1>5. Maximum \in Nat
    BY BatchFacts
  <1> HIDE DEF q, num_reqs, Requests, QueryStarts, count, Maximum
  <1>6. ASSUME NEW b \in Requests PROVE q[b] <= count
    <2>1. b + 1 \in 1 .. num_reqs + 1 /\ num_reqs + 1 \in 1 .. num_reqs + 1 /\ b + 1 <= num_reqs + 1
      BY <1>1
    <2>2. QueryStarts[b + 1] <= count
      BY <1>2, <2>1, StartsOrdered
    <2>3. QueryStarts[b] \in Nat /\ q[b] \in Nat
      BY <1>1, <1>2
    <2> QED
      BY <1>2, <2>2, <2>3
  <1>7. count \in U /\ U \in SUBSET Nat
    BY <1>2, <1>6
  <1>8. PICK m \in U : \A n \in U : m <= n
    BY <1>7, LeastNatural
  <1>9. \E b \in Requests : q[b] = m
    <2>1. SUFFICES ASSUME \A b \in Requests : q[b] # m PROVE FALSE
      OBVIOUS
    <2>2. \A b \in Requests : q[b] \in Nat /\ q[b] <= m - 1
      BY <1>1, <1>8, <2>1
    <2>3. 1 \in Requests
      BY <1>1
    <2>4. m - 1 \in Nat /\ ~ (m <= m - 1)
      BY <1>8, <2>2, <2>3
    <2>5. m - 1 \in U
      BY <2>2, <2>4
    <2> QED
      BY <1>8, <2>4, <2>5
  <1>10. \E n \in { q[b] : b \in Requests } : \A b \in Requests : q[b] <= n
    <2>1. PICK b \in Requests : q[b] = m
      BY <1>9
    <2>2. m \in { q[c] : c \in Requests }
      BY <2>1
    <2> QED
      BY <1>8, <2>2
  <1>11. max_query_len \in { q[b] : b \in Requests } /\ \A b \in Requests : q[b] <= max_query_len
    BY <1>3, <1>10
  <1>12. PICK b \in Requests : q[b] = max_query_len
    BY <1>11
  <1>13. max_query_len \in Nat /\ max_query_len <= count
    BY <1>1, <1>6, <1>12
  <1>14. max_query_len <= Maximum
    <2>1. q[b] <= batch.k[b] /\ batch.k[b] <= Maximum /\ batch.k[b] \in Nat /\ q[b] \in Nat
      BY <1>1, <1>4
    <2> QED
      BY <1>5, <1>12, <2>1
  <1> QED
    BY <1>11, <1>12, <1>13, <1>14 DEF q

(* The tokens of a batch are no more than its requests times the longest   *)
(* query.                                                                  *)
LEMMA TokensBounded ==
  ASSUME batch \in Batches
  PROVE  /\ count <= num_reqs * max_query_len
         /\ num_reqs = 1 => count = max_query_len /\ count = batch.q[1]
         /\ count = 0 <=> max_query_len = 0
  <1> DEFINE most(b) == (b - 1) * max_query_len
             T == { b \in 1 .. num_reqs + 1 : ~ (QueryStarts[b] <= most(b)) }
             x == max_query_len
  <1>1. num_reqs \in Nat \ {0} /\ Requests = 1 .. num_reqs /\ batch.q \in [Requests -> Nat]
    BY BatchFacts DEF Requests
  <1>2. /\ QueryStarts \in [1 .. num_reqs + 1 -> Nat] /\ QueryStarts[1] = 0
        /\ \A b \in Requests : QueryStarts[b + 1] = QueryStarts[b] + batch.q[b]
        /\ count \in Nat /\ count = QueryStarts[num_reqs + 1]
    BY StartsFacts
  <1>3. /\ max_query_len \in Nat /\ \E b \in Requests : batch.q[b] = max_query_len
        /\ \A b \in Requests : batch.q[b] <= max_query_len
        /\ max_query_len <= count
    BY LongestQuery
  <1> HIDE DEF num_reqs, Requests, QueryStarts, count, max_query_len
  <1>4. T = {}
    <2>1. SUFFICES ASSUME T # {} PROVE FALSE
      OBVIOUS
    <2>2. T \in SUBSET Nat
      BY <1>1
    <2>3. PICK m \in T : \A k \in T : m <= k
      BY <2>1, <2>2, LeastNatural
    <2>4. m # 1
      <3>1. (1 - 1) * max_query_len = 0
        BY <1>3
      <3> QED
        BY <1>2, <2>3, <3>1
    <2>5. /\ m \in Nat /\ m - 1 \in 1 .. num_reqs + 1 /\ ~ (m <= m - 1)
          /\ m - 1 \in Requests /\ m - 1 + 1 = m
      BY <1>1, <2>3, <2>4
    <2>6. QueryStarts[m - 1] <= (m - 1 - 1) * x
      BY <2>3, <2>5
    <2>7. QueryStarts[m] = QueryStarts[m - 1] + batch.q[m - 1]
      BY <1>2, <2>5
    <2>8. QueryStarts[m - 1] \in Nat /\ batch.q[m - 1] \in Nat /\ batch.q[m - 1] <= x /\ x \in Nat
      BY <1>1, <1>2, <1>3, <2>5
    <2>9. (m - 1) * x = (m - 1 - 1) * x + x /\ (m - 1 - 1) * x \in Int
      BY <2>5, <2>8
    <2>10. QueryStarts[m] <= (m - 1) * x
      BY <2>6, <2>7, <2>8, <2>9
    <2> QED
      BY <2>3, <2>10
  <1>5. count <= num_reqs * max_query_len
    <2>1. num_reqs + 1 \in 1 .. num_reqs + 1 /\ num_reqs + 1 - 1 = num_reqs
      BY <1>1
    <2>2. QueryStarts[num_reqs + 1] <= most(num_reqs + 1)
      <3> HIDE DEF most
      <3> QED
        BY <1>4, <2>1
    <2>3. most(num_reqs + 1) = num_reqs * max_query_len
      BY <1>1, <1>3
    <2> QED
      <3> HIDE DEF most
      <3> QED
        BY <1>2, <2>2, <2>3
  <1>6. ASSUME num_reqs = 1 PROVE count = max_query_len /\ count = batch.q[1]
    <2>1. Requests = {1}
      BY <1>1, <1>6
    <2>2. batch.q[1] \in Nat /\ count = 0 + batch.q[1]
      BY <1>1, <1>2, <1>6, <2>1
    <2> QED
      BY <1>3, <2>1, <2>2
  <1>7. ASSUME max_query_len = 0 PROVE count = 0
    BY <1>1, <1>2, <1>5, <1>7
  <1> QED
    BY <1>2, <1>3, <1>5, <1>6, <1>7

-----------------------------------------------------------------------------
(* The native route has one request, whose exact length is the context.    *)
LEMMA NativeGeometry ==
  ASSUME batch \in Batches, prefill_context = BuiltContext, RunsNative
  PROVE  /\ FullCausal /\ ~ batch.capturing /\ num_reqs = 1 /\ Requests = {1}
         /\ prefill_context = batch.k[1] /\ prefill_context \in 1 .. Maximum
         /\ count = batch.q[1] /\ count \in 1 .. prefill_context /\ max_query_len = count
  <1>1. TakesNative
    BY DEF RunsNative, OverlayTakesNative
  <1>2. ShortQuery \in Nat \ {0}
    BY BackendAssumption
  <1>3. max_query_len \in Nat
    BY LongestQuery
  <1>4. prefill_context # 0 /\ max_query_len > ShortQuery /\ prefill_context >= max_query_len
    BY <1>1, <1>2, <1>3 DEF TakesNative
  <1>5. num_reqs = 1 /\ batch.upper # << >> /\ prefill_context = batch.upper[1]
    BY <1>4 DEF BuiltContext
  <1>6. Requests = {1}
    BY <1>5 DEF Requests
  <1>7. count = max_query_len /\ count = batch.q[1]
    BY <1>5, TokensBounded
  <1>8. batch.upper[1] = batch.k[1]
    <2>1. BatchFits(batch)
      BY BatchFacts
    <2>2. \A i \in Requests : batch.q[i] > ShortQuery => batch.upper[i] = batch.k[i]
      BY <1>5, <2>1 DEF BatchFits, Requests, num_reqs
    <2> QED
      BY <1>4, <1>6, <1>7, <2>2
  <1>9. batch.k[1] \in Nat /\ batch.k[1] <= Maximum /\ Maximum \in Nat /\ batch.q[1] <= batch.k[1]
    BY <1>6, BatchFacts
  <1>10. FullCausal /\ ~ batch.capturing
    BY <1>1 DEF TakesNative
  <1> QED
    BY <1>2, <1>3, <1>4, <1>5, <1>6, <1>7, <1>8, <1>9, <1>10

(* The chunks of the native route follow one another without a gap, end    *)
(* with the queries' own keys, and only the first starts at 0.             *)
LEMMA ChunksFacts ==
  ASSUME prefill_context \in Nat, count \in 1 .. prefill_context
  PROVE  /\ Chunks \in Seq([start : Nat, length : Nat, causal : BOOLEAN])
         /\ Len(Chunks) \in Nat \ {0}
         /\ \A c \in 1 .. Len(Chunks) :
              /\ Chunks[c].length > 0
              /\ Chunks[c].start + Chunks[c].length <= prefill_context
              /\ Chunks[c].causal <=> c = Len(Chunks)
              /\ Chunks[c].start = 0 <=> c = 1
              /\ c = Len(Chunks) => Chunks[c].start = prefill_context - count /\ Chunks[c].length = count
              /\ c # Len(Chunks) =>
                   /\ Chunks[c].start + Chunks[c].length <= prefill_context - count
                   /\ Chunks[c + 1].start = Chunks[c].start + Chunks[c].length
  <1> DEFINE prefix == prefill_context - count
             T == ChunkTokens
             n == CeilDiv(prefix, T)
             E == [start : Nat, length : Nat, causal : BOOLEAN]
             one(i) == [start |-> (i - 1) * T, length |-> AtMost(T, prefix - (i - 1) * T), causal |-> FALSE]
             s1 == [i \in 1 .. n |-> one(i)]
             e == [start |-> prefix, length |-> count, causal |-> TRUE]
             s2 == << e >>
  <1>1. prefix \in Nat /\ count \in Nat \ {0} /\ prefill_context = prefix + count
    OBVIOUS
  <1>2. T \in Nat \ {0}
    BY BackendAssumption
  <1>3. Chunks = s1 \o s2
    BY DEF Chunks
  <1> HIDE DEF prefix, T
  <1>4. n \in Nat /\ prefix <= n * T
    BY <1>1, <1>2, CeilDivCovers
  <1>5. n > 0 => n * T <= prefix + T - 1
    BY <1>1, <1>2, CeilDivTight
  <1> HIDE DEF n
  <1>6. ASSUME NEW i \in 1 .. n
        PROVE  /\ (i - 1) * T \in Nat /\ i * T = (i - 1) * T + T
               /\ (i - 1) * T < prefix
               /\ (i - 1) * T = 0 <=> i = 1
               /\ i = n => prefix <= i * T
               /\ i # n => i * T < prefix
    <2>1. i - 1 \in Nat /\ i \in Nat /\ i - 1 <= n - 1 /\ n - 1 \in Nat
      BY <1>4
    <2>2. (i - 1) * T \in Nat /\ i * T = (i - 1) * T + T
      BY <1>2, <2>1
    <2>3. (i - 1) * T <= (n - 1) * T
      BY <1>2, <2>1, MultiplesOrdered
    <2>4. (n - 1) * T = n * T - T /\ n * T \in Int
      BY <1>2, <1>4
    <2>5. (i - 1) * T < prefix
      BY <1>1, <1>2, <1>4, <1>5, <2>1, <2>2, <2>3, <2>4
    <2>6. i # 1 => (i - 1) * T # 0
      <3>1. SUFFICES ASSUME i # 1 PROVE (i - 1) * T # 0
        OBVIOUS
      <3>2. 1 <= i - 1 /\ i - 1 \in Int /\ T \in Nat
        BY <1>2, <2>1, <3>1
      <3>3. 1 * T <= (i - 1) * T
        BY <3>2, MultiplesOrdered
      <3> QED
        BY <1>2, <2>2, <3>3
    <2>7. i # n => i * T < prefix
      <3>1. SUFFICES ASSUME i # n PROVE i * T < prefix
        OBVIOUS
      <3>2. i <= n - 1 /\ i \in Int /\ n - 1 \in Int /\ T \in Nat
        BY <1>2, <1>4, <2>1, <3>1
      <3>3. i * T <= (n - 1) * T
        BY <3>2, MultiplesOrdered
      <3> QED
        BY <1>1, <1>2, <1>4, <1>5, <2>1, <2>2, <2>4, <3>3
    <2>8. i = 1 => (i - 1) * T = 0
      BY <1>2
    <2> QED
      BY <1>4, <2>2, <2>5, <2>6, <2>7, <2>8
  <1>7. ASSUME NEW i \in 1 .. n
        PROVE  /\ one(i) \in E
               /\ one(i).length > 0 /\ one(i).start + one(i).length <= prefix
               /\ i # n => one(i).start + one(i).length = i * T
               /\ i = n => one(i).start + one(i).length = prefix
    <2> DEFINE a == (i - 1) * T
    <2>1. /\ a \in Nat /\ i * T = a + T /\ a < prefix
          /\ i = n => prefix <= i * T
          /\ i # n => i * T < prefix
      BY <1>6
    <2> HIDE DEF a
    <2>2. one(i) = [start |-> a, length |-> AtMost(T, prefix - a), causal |-> FALSE]
      BY DEF a
    <2>3. AtMost(T, prefix - a) \in Nat \ {0} /\ a + AtMost(T, prefix - a) <= prefix
      BY <1>1, <1>2, <2>1 DEF AtMost
    <2>4. i # n => AtMost(T, prefix - a) = T
      BY <1>1, <1>2, <2>1 DEF AtMost
    <2>5. i = n => AtMost(T, prefix - a) = prefix - a
      BY <1>1, <1>2, <2>1 DEF AtMost
    <2> HIDE DEF one
    <2> QED
      BY <1>1, <1>2, <2>1, <2>2, <2>3, <2>4, <2>5
  <1>8. s1 \in Seq(E) /\ Len(s1) = n
    <2>1. \A i \in 1 .. n : one(i) \in E
      BY <1>7
    <2> HIDE DEF one, E
    <2>2. s1 \in [1 .. n -> E]
      BY <2>1
    <2> QED
      BY <1>4, <2>2
  <1>9. s2 \in Seq(E) /\ Len(s2) = 1 /\ s2[1] = e
    BY <1>1
  <1> HIDE DEF one, E, s2
  <1>10. /\ Chunks \in Seq(E) /\ Len(Chunks) = n + 1
         /\ \A c \in 1 .. n + 1 : Chunks[c] = IF c <= n THEN s1[c] ELSE s2[c - n]
    <2> HIDE DEF s1
    <2>1. s1 \in Seq(E) /\ s2 \in Seq(E)
      BY <1>8, <1>9
    <2>2. /\ s1 \o s2 \in Seq(E) /\ Len(s1 \o s2) = Len(s1) + Len(s2)
          /\ \A c \in 1 .. Len(s1) + Len(s2) :
               (s1 \o s2)[c] = IF c <= Len(s1) THEN s1[c] ELSE s2[c - Len(s1)]
      BY ONLY <2>1, ConcatProperties
    <2> QED
      BY <1>3, <1>8, <1>9, <2>2
  <1>11. \A c \in 1 .. n : Chunks[c] = one(c)
    BY <1>4, <1>10
  <1>12. Chunks[n + 1] = e
    <2> HIDE DEF e, s1
    <2>1. n + 1 \in 1 .. n + 1 /\ ~ (n + 1 <= n) /\ n + 1 - n = 1
      BY <1>4
    <2>2. Chunks[n + 1] = s2[n + 1 - n]
      BY <1>4, <1>10, <2>1
    <2> QED
      BY <1>9, <2>1, <2>2
  <1> HIDE DEF s1
  <1>13. e.start = prefix /\ e.length = count /\ e.causal = TRUE
    OBVIOUS
  <1>14. \A c \in 1 .. n : one(c).start = (c - 1) * T /\ one(c).causal = FALSE
    BY DEF one
  <1>15. ASSUME NEW c \in 1 .. Len(Chunks)
         PROVE  /\ Chunks[c].length > 0
                /\ Chunks[c].start + Chunks[c].length <= prefill_context
                /\ Chunks[c].causal <=> c = Len(Chunks)
                /\ Chunks[c].start = 0 <=> c = 1
                /\ c = Len(Chunks) => Chunks[c].start = prefix /\ Chunks[c].length = count
                /\ c # Len(Chunks) =>
                     /\ Chunks[c].start + Chunks[c].length <= prefix
                     /\ Chunks[c + 1].start = Chunks[c].start + Chunks[c].length
    <2>1. CASE c = n + 1
      <3>1. prefix = 0 <=> n + 1 = 1
        <4>1. n = 0 => prefix = 0
          BY <1>1, <1>2, <1>4
        <4>2. n # 0 => prefix # 0
          <5>1. SUFFICES ASSUME n # 0 PROVE prefix # 0
            OBVIOUS
          <5>2. 1 \in 1 .. n
            BY <1>4, <5>1
          <5>3. (1 - 1) * T < prefix /\ (1 - 1) * T = 0
            BY <1>2, <1>6, <5>2
          <5> QED
            BY <5>3
        <4> QED
          BY <1>4, <4>1, <4>2
      <3> HIDE DEF e
      <3> QED
        BY <1>1, <1>10, <1>12, <1>13, <2>1, <3>1
    <2>2. CASE c # n + 1
      <3>1. c \in 1 .. n /\ c # Len(Chunks)
        BY <1>4, <1>10, <2>2
      <3>2. Chunks[c] = one(c) /\ Chunks[c].start = (c - 1) * T /\ ~ Chunks[c].causal
        BY <1>11, <1>14, <3>1
      <3>3. /\ one(c) \in E /\ one(c).length > 0 /\ one(c).start + one(c).length <= prefix
            /\ c # n => one(c).start + one(c).length = c * T
            /\ c = n => one(c).start + one(c).length = prefix
        BY <1>7, <3>1
      <3>4. (c - 1) * T = 0 <=> c = 1
        BY <1>6, <3>1
      <3>5. Chunks[c + 1].start = Chunks[c].start + Chunks[c].length
        <4>1. CASE c = n
          <5> HIDE DEF e
          <5> QED
            BY <1>12, <1>13, <3>2, <3>3, <4>1
        <4>2. CASE c # n
          <5>1. c + 1 \in 1 .. n /\ c + 1 - 1 = c
            BY <1>4, <3>1, <4>2
          <5>2. Chunks[c + 1] = one(c + 1) /\ one(c + 1).start = (c + 1 - 1) * T
            BY <1>11, <1>14, <5>1
          <5>3. (c + 1 - 1) * T = c * T
            BY <5>1
          <5> QED
            BY <3>2, <3>3, <4>2, <5>2, <5>3
        <4> QED
          BY <4>1, <4>2
      <3>6. Chunks[c].start \in Nat /\ Chunks[c].length \in Nat
        BY <3>2, <3>3 DEF E
      <3> QED
        BY <1>1, <3>1, <3>2, <3>3, <3>4, <3>5, <3>6
    <2> QED
      BY <2>1, <2>2
  <1> QED
    BY <1>4, <1>10, <1>15 DEF E, prefix

-----------------------------------------------------------------------------
(* Pages of a batch hold the longest context it may have.                  *)
LEMMA PagesSuffice ==
  ASSUME batch \in Batches, NEW x \in 1 .. Maximum
  PROVE  /\ x \in Nat \ {0} /\ x <= MaxKeys /\ x <= capacity
         /\ batch.pages >= (x + batch.page_size - 1) \div batch.page_size
         /\ batch.page_size \in Nat \ {0} /\ batch.page_size >= PageQuantum
         /\ batch.page_size % PageQuantum = 0
  <1> DEFINE p == batch.page_size
             d == (x + p - 1) \div p
  <1>1. /\ batch.pages \in Nat /\ p \in Nat /\ batch.max_model_len \in Nat
        /\ p >= PageQuantum /\ p % PageQuantum = 0
    BY BatchFacts DEF BatchTypes, BatchFits
  <1>2. PageQuantum \in Nat \ {0} /\ MaxKeys \in Nat
    BY LimitsAssumption
  <1>3. Maximum \in 1 .. MaxKeys /\ Maximum = AtMost(batch.max_model_len, batch.pages * p)
    BY BatchFacts DEF Maximum, capacity
  <1>4. batch.pages * p \in Nat
    BY <1>1
  <1>5. Maximum <= batch.pages * p /\ Maximum \in Nat
    BY <1>1, <1>2, <1>3, <1>4 DEF AtMost
  <1>6. x \in Nat \ {0} /\ x <= MaxKeys /\ x <= batch.pages * p
    BY <1>2, <1>3, <1>4, <1>5
  <1>7. p \in Nat \ {0}
    BY <1>1, <1>2
  <1>8. x + p - 1 \in Nat
    BY <1>6, <1>7
  <1> HIDE DEF p
  <1>9. d \in Nat /\ d * p <= x + p - 1
    BY <1>7, <1>8, DivBounds
  <1> HIDE DEF d
  <1>10. d <= batch.pages
    <2>1. SUFFICES ASSUME batch.pages + 1 <= d PROVE FALSE
      BY <1>1, <1>9
    <2>2. (batch.pages + 1) * p <= d * p
      <3>1. batch.pages + 1 \in Int /\ d \in Int /\ p \in Nat
        BY <1>1, <1>7, <1>9
      <3> QED
        BY <2>1, <3>1, MultiplesOrdered
    <2>3. (batch.pages + 1) * p = batch.pages * p + p
      BY <1>1, <1>7
    <2>4. d * p \in Nat /\ batch.pages * p \in Nat
      BY <1>4, <1>7, <1>9
    <2> QED
      BY <1>6, <1>7, <1>9, <2>2, <2>3, <2>4
  <1> QED
    BY <1>1, <1>6, <1>7, <1>9, <1>10 DEF p, d, capacity

(* The heads of a batch are whole groups.                                  *)
LEMMA GroupFacts ==
  ASSUME batch \in Batches
  PROVE  /\ batch.heads \in Nat \ {0} /\ batch.kv_heads \in Nat \ {0}
         /\ batch.heads % batch.kv_heads = 0
         /\ group \in Nat \ {0} /\ group * batch.kv_heads = batch.heads
  <1> DEFINE h == batch.heads
             v == batch.kv_heads
             g == h \div v
  <1>1. h \in Nat \ {0} /\ v \in Nat \ {0} /\ h % v = 0
    BY BatchFacts DEF BatchTypes, BatchFits
  <1> HIDE DEF h, v
  <1>2. g \in Nat
    BY <1>1, DivBounds
  <1>3. h = v * g + (h % v)
    BY <1>1, SMT
  <1>4. v * g = g * v
    BY <1>1, <1>2
  <1>5. g # 0
    BY <1>1, <1>3
  <1> QED
    BY <1>1, <1>2, <1>3, <1>4, <1>5 DEF group, h, v

(* Device metadata are valid field by field.                               *)
LEMMA MetadataIsValid ==
  ASSUME NEW c, NEW n, n = c.batch, NEW cu, NEW lengths,
         cu \in [1 .. n + 1 -> 0 .. c.tokens], lengths \in [1 .. n -> 0 .. c.max_k], cu[1] = 0,
         \A i, j \in 1 .. n + 1 : i <= j => cu[i] <= cu[j],
         \A i \in 1 .. n : cu[i + 1] - cu[i] <= c.max_q
  PROVE  [cu_q |-> cu, seq_k |-> lengths] \in ValidMetadata(c)
  <1>1. PICK m : m = [cu_q |-> cu, seq_k |-> lengths]
    OBVIOUS
  <1>2. m.cu_q = cu /\ m.seq_k = lengths
    BY <1>1
  <1>3. m \in [cu_q : [1 .. c.batch + 1 -> 0 .. c.tokens], seq_k : [1 .. c.batch -> 0 .. c.max_k]]
    BY <1>1
  <1>4. m \in ValidMetadata(c)
    BY <1>2, <1>3, Zenon DEF ValidMetadata
  <1> QED
    BY <1>1, <1>4

(* No request of a call has more queries than max_q, more keys than max_k  *)
(* or fewer keys than queries.                                             *)
LEMMA ContractFacts ==
  ASSUME NEW o, MeetsContract(o), NEW b \in 1 .. o.call.batch
  PROVE  /\ o.cu_q[b] \in Nat /\ o.cu_q[b + 1] \in Nat
         /\ o.cu_q[b + 1] - o.cu_q[b] \in 0 .. o.call.max_q
         /\ o.seq_k[b] \in o.cu_q[b + 1] - o.cu_q[b] .. o.call.max_k
         /\ o.call \in CallTypes /\ Accepted(o.call) /\ o.call.max_q <= o.call.max_k
         /\ o.call.max_q \in Int /\ o.call.max_k \in Int
  <1>1. /\ o.call \in CallTypes /\ Accepted(o.call) /\ b \in 1 .. o.call.batch
        /\ o.cu_q[b + 1] - o.cu_q[b] <= o.seq_k[b] /\ o.call.max_q <= o.call.max_k
    BY DEF MeetsContract
  <1>2. o.call.batch \in Nat /\ o.call.tokens \in Nat /\ o.call.max_q \in Int /\ o.call.max_k \in Int
    BY <1>1 DEF CallTypes
  <1>3. /\ o.cu_q \in [1 .. o.call.batch + 1 -> 0 .. o.call.tokens]
        /\ o.seq_k \in [1 .. o.call.batch -> 0 .. o.call.max_k]
        /\ \A i, j \in 1 .. o.call.batch + 1 : i <= j => o.cu_q[i] <= o.cu_q[j]
        /\ \A i \in 1 .. o.call.batch : o.cu_q[i + 1] - o.cu_q[i] <= o.call.max_q
    <2> DEFINE m == [cu_q |-> o.cu_q, seq_k |-> o.seq_k]
    <2>1. m \in ValidMetadata(o.call) /\ m.cu_q = o.cu_q /\ m.seq_k = o.seq_k
      BY DEF MeetsContract
    <2> HIDE DEF m
    <2> QED
      BY <2>1 DEF ValidMetadata
  <1>4. b \in 1 .. o.call.batch + 1 /\ b + 1 \in 1 .. o.call.batch + 1 /\ b <= b + 1
    BY <1>1, <1>2
  <1>5. o.cu_q[b] \in 0 .. o.call.tokens /\ o.cu_q[b + 1] \in 0 .. o.call.tokens
    BY <1>3, <1>4, Zenon
  <1>6. o.seq_k[b] \in 0 .. o.call.max_k
    BY <1>1, <1>3, Zenon
  <1>7. o.cu_q[b] <= o.cu_q[b + 1] /\ o.cu_q[b + 1] - o.cu_q[b] <= o.call.max_q
    BY <1>1, <1>3, <1>4
  <1> DEFINE x == o.cu_q[b]
             y == o.cu_q[b + 1]
             z == o.seq_k[b]
             w == o.call.max_q
             v == o.call.max_k
             u == o.call.tokens
  <1>8. /\ x \in 0 .. u /\ y \in 0 .. u /\ z \in 0 .. v /\ x <= y /\ y - x <= w /\ y - x <= z
        /\ u \in Nat /\ w \in Int /\ v \in Int
    BY <1>1, <1>2, <1>5, <1>6, <1>7
  <1> HIDE DEF x, y, z, u, v, w
  <1>9. x \in Nat /\ y \in Nat /\ y - x \in 0 .. w /\ z \in y - x .. v
    BY <1>8
  <1> QED
    BY <1>1, <1>2, <1>9 DEF x, y, z, v, w

(* The one call for a whole batch is within the operator's limits, unless  *)
(* a query is too long.                                                    *)
LEMMA WholeBatchCall ==
  ASSUME batch \in Batches, count # 0, NEW c \in {DirectCall, OverlayCall}
  PROVE  /\ c \in CallTypes /\ c.max_q <= c.max_k
         /\ max_query_len <= MaxQueries => Accepted(c)
         /\ Accepted(c) => MeetsContract(Operator(c, 0, QueryStarts, batch.k, [b \in Requests |-> b]))
  <1> DEFINE splits == c.splits
             o == Operator(c, 0, QueryStarts, batch.k, [b \in Requests |-> b])
  <1>1. /\ batch.causal \in BOOLEAN /\ batch.window_left \in Int /\ batch.splits \in 1 .. MaxSplitCount
        /\ batch.page_size \in Nat /\ batch.pages \in Nat /\ batch.window_left >= -1
    BY BatchFacts DEF BatchTypes, BatchFits
  <1>2. /\ num_reqs \in Nat \ {0} /\ Requests = 1 .. num_reqs /\ batch.k \in [Requests -> Nat]
        /\ \A b \in Requests : batch.q[b] <= batch.k[b] /\ batch.k[b] <= Maximum
        /\ Maximum \in 1 .. MaxKeys
    BY BatchFacts DEF Requests
  <1>3. /\ max_query_len \in Nat /\ max_query_len <= Maximum
        /\ \A b \in Requests : batch.q[b] <= max_query_len
    BY LongestQuery
  <1>4. count <= num_reqs * max_query_len /\ max_query_len # 0
    BY TokensBounded
  <1>5. /\ QueryStarts \in [1 .. num_reqs + 1 -> Nat] /\ QueryStarts[1] = 0
        /\ \A b \in Requests : QueryStarts[b + 1] = QueryStarts[b] + batch.q[b]
        /\ count \in Nat /\ count = QueryStarts[num_reqs + 1]
    BY StartsFacts
  <1>6. /\ batch.heads \in Nat \ {0} /\ batch.kv_heads \in Nat \ {0} /\ batch.heads % batch.kv_heads = 0
        /\ group \in Nat \ {0}
    BY GroupFacts
  <1>7. /\ MaxSplitCount \in Nat \ {0} /\ MaxKeys \in Nat \ {0}
        /\ CausalSplits \in 1 .. MaxSplitCount /\ WindowSplits \in 1 .. MaxSplitCount
    BY LimitsAssumption, BackendAssumption
  <1>8. /\ c.batch = num_reqs /\ c.tokens = count /\ c.heads = batch.heads /\ c.kv_heads = batch.kv_heads
        /\ c.page_size = batch.page_size /\ c.pages = batch.pages /\ c.max_q = max_query_len
        /\ c.max_k = Maximum /\ c.causal = batch.causal /\ c.window_left = batch.window_left
        /\ c.window_right = -1 /\ c.contiguous = TRUE
        /\ c.pack_gqa = (FullCausal /\ max_query_len * group <= ShortQuery)
    BY DEF DirectCall, OverlayCall, OperatorCall
  <1>9. c.splits \in 1 .. MaxSplitCount
    BY <1>1, <1>7 DEF DirectCall, OverlayCall, OperatorCall
  <1>10. c = [ batch |-> c.batch, tokens |-> c.tokens, heads |-> c.heads, kv_heads |-> c.kv_heads,
               page_size |-> c.page_size, pages |-> c.pages, max_q |-> c.max_q, max_k |-> c.max_k,
               causal |-> c.causal, window_left |-> c.window_left, window_right |-> c.window_right,
               splits |-> c.splits, pack_gqa |-> c.pack_gqa, contiguous |-> c.contiguous ]
    BY DEF DirectCall, OverlayCall, OperatorCall
  <1> HIDE DEF splits, o
  <1>11. c \in CallTypes
    <2>1. c.pack_gqa \in BOOLEAN
      BY <1>8
    <2> HIDE DEF count, num_reqs, max_query_len, Maximum
    <2>2. /\ c.batch \in Nat /\ c.tokens \in Nat /\ c.heads \in Nat \ {0} /\ c.kv_heads \in Nat
          /\ c.page_size \in Nat /\ c.pages \in Nat
      BY <1>1, <1>2, <1>5, <1>6, <1>8
    <2>3. c.max_q \in Int /\ c.max_k \in Int /\ c.splits \in Int
      <3>1. max_query_len \in Int /\ Maximum \in Int
        BY <1>2, <1>3
      <3> QED
        BY <1>7, <1>8, <1>9, <3>1
    <2>4. /\ c.causal \in BOOLEAN /\ c.window_left \in Int /\ c.window_right \in Int
          /\ c.contiguous \in BOOLEAN
      <3>1. c.causal = batch.causal /\ batch.causal \in BOOLEAN
        BY <1>1, <1>8
      <3>2. c.window_left \in Int
        BY <1>1, <1>8
      <3>3. c.window_right \in Int
        BY <1>8
      <3>4. c.contiguous \in BOOLEAN
        BY <1>8
      <3> QED
        BY <3>1, <3>2, <3>3, <3>4
    <2> QED
      BY <1>10, <2>1, <2>2, <2>3, <2>4 DEF CallTypes
  <1>12. PackingAllowed(c)
    <2>1. CASE ~ c.pack_gqa
      BY <2>1 DEF PackingAllowed, Groups
    <2>2. CASE c.pack_gqa
      <3>1. FullCausal /\ max_query_len * group <= ShortQuery
        BY <1>8, <2>2
      <3>2. Groups(c) = group
        BY <1>8, <2>2 DEF Groups, group
      <3>3. OrdinaryCausal(c)
        BY <1>8, <3>1 DEF OrdinaryCausal, RightWindow, FullCausal
      <3>4. max_query_len * group <= kBlockM
        <4>1. max_query_len * group \in Nat /\ ShortQuery \in Nat /\ kBlockM \in Nat /\ ShortQuery <= kBlockM
          BY <1>3, <1>6, BackendAssumption, BlocksArePositive
        <4> QED
          BY <3>1, <4>1
      <3> QED
        BY <1>8, <3>2, <3>3, <3>4 DEF PackingAllowed
    <2> QED
      BY <1>11, <2>1, <2>2 DEF CallTypes
  <1>13. ASSUME max_query_len <= MaxQueries PROVE Accepted(c)
    <2>1. Maximum \in 1 .. Maximum
      BY <1>2, <1>7
    <2>2. /\ Maximum \in Nat \ {0} /\ Maximum <= MaxKeys
          /\ batch.pages >= (Maximum + batch.page_size - 1) \div batch.page_size
          /\ batch.page_size >= PageQuantum /\ batch.page_size % PageQuantum = 0
      BY <2>1, PagesSuffice
    <2> HIDE DEF count, num_reqs, max_query_len, Maximum
    <2>3. /\ c.max_q > 0 /\ c.max_q <= MaxQueries /\ c.max_k > 0 /\ c.max_k <= MaxKeys
          /\ c.batch > 0 /\ c.kv_heads > 0 /\ c.window_left >= -1 /\ c.window_right >= -1
          /\ c.splits >= 0 /\ c.splits <= MaxSplitCount
      <3>1. max_query_len > 0 /\ Maximum > 0 /\ num_reqs > 0
        BY <1>2, <1>3, <1>4, <2>2
      <3>2. c.max_q > 0 /\ c.max_q <= MaxQueries /\ c.max_k > 0 /\ c.max_k <= MaxKeys /\ c.batch > 0
        BY <1>8, <1>13, <2>2, <3>1
      <3>3. c.kv_heads > 0 /\ c.window_left >= -1 /\ c.window_right >= -1
        BY <1>1, <1>6, <1>8
      <3>4. c.splits >= 0 /\ c.splits <= MaxSplitCount
        BY <1>7, <1>9
      <3> QED
        BY <3>2, <3>3, <3>4
    <2>4. c.tokens <= c.batch * c.max_q
      BY <1>4, <1>8
    <2>5. c.pages >= (c.max_k + c.page_size - 1) \div c.page_size
      BY <1>8, <2>2
    <2> QED
      BY <1>6, <1>8, <1>12, <2>2, <2>3, <2>4, <2>5 DEF Accepted
  <1>14. c.max_q <= c.max_k
    BY <1>3, <1>8
  <1>15. ASSUME Accepted(c) PROVE MeetsContract(o)
    <2>1. /\ o.call = c /\ o.cu_q = QueryStarts /\ o.seq_k = batch.k /\ o.seqs = [b \in Requests |-> b]
      BY DEF o, Operator
    <2> HIDE DEF count, num_reqs, max_query_len, Maximum, QueryStarts, Requests
    <2>2. ASSUME NEW b \in 1 .. num_reqs + 1 PROVE QueryStarts[b] \in 0 .. count
      <3>1. b <= num_reqs + 1 /\ num_reqs + 1 \in 1 .. num_reqs + 1
        BY <1>2
      <3>2. QueryStarts[b] <= QueryStarts[num_reqs + 1]
        BY <3>1, StartsOrdered
      <3> QED
        BY <1>5, <3>2
    <2>3. QueryStarts \in [1 .. num_reqs + 1 -> 0 .. count]
      BY <1>5, <2>2
    <2>4. batch.k \in [1 .. num_reqs -> 0 .. Maximum]
      <3>1. \A b \in 1 .. num_reqs : batch.k[b] \in 0 .. Maximum
        BY <1>2, <1>7
      <3> QED
        BY <1>2, <3>1
    <2>5. \A i, j \in 1 .. num_reqs + 1 : i <= j => QueryStarts[i] <= QueryStarts[j]
      BY StartsOrdered
    <2>6. ASSUME NEW b \in 1 .. num_reqs
          PROVE  /\ QueryStarts[b + 1] - QueryStarts[b] = batch.q[b]
                 /\ batch.q[b] <= max_query_len /\ batch.q[b] <= batch.k[b]
      <3>1. b \in Requests /\ b \in 1 .. num_reqs + 1
        BY <1>2
      <3>2. QueryStarts[b] \in Nat /\ batch.q[b] \in Nat
        <4>1. batch.q \in [Requests -> Nat]
          BY BatchFacts
        <4> QED
          BY <1>5, <3>1, <4>1
      <3>3. QueryStarts[b + 1] = QueryStarts[b] + batch.q[b]
        BY <1>5, <3>1
      <3>4. QueryStarts[b + 1] - QueryStarts[b] = batch.q[b]
        BY <3>2, <3>3
      <3> QED
        BY <1>2, <1>3, <3>1, <3>4
    <2>7. [cu_q |-> QueryStarts, seq_k |-> batch.k] \in ValidMetadata(c)
      <3>1. /\ num_reqs = c.batch /\ QueryStarts \in [1 .. num_reqs + 1 -> 0 .. c.tokens]
            /\ batch.k \in [1 .. num_reqs -> 0 .. c.max_k]
        BY <1>8, <2>3, <2>4
      <3>2. \A b \in 1 .. num_reqs : QueryStarts[b + 1] - QueryStarts[b] <= c.max_q
        BY <1>8, <2>6
      <3> QED
        BY ONLY <1>5, <2>5, <3>1, <3>2, MetadataIsValid
    <2>8. DOMAIN o.seqs = 1 .. c.batch /\ Len(o.seqs) = c.batch
      BY <1>2, <1>8, <2>1
    <2> QED
      BY <1>8, <1>11, <1>14, <1>15, <2>1, <2>6, <2>7, <2>8 DEF MeetsContract
  <1> QED
    BY <1>11, <1>13, <1>14, <1>15 DEF o

(* The starts as a sequence.                                               *)
LEMMA StartsSeq ==
  ASSUME batch \in Batches
  PROVE  QueryStarts \in Seq(Nat) /\ Len(QueryStarts) = num_reqs + 1 /\ batch.k \in Seq(Nat)
  <1>1. num_reqs \in Nat /\ QueryStarts \in [1 .. num_reqs + 1 -> Nat]
    BY BatchFacts, StartsFacts
  <1>2. batch.k \in Seq(Nat)
    BY BatchFacts DEF BatchTypes
  <1> HIDE DEF num_reqs, QueryStarts
  <1>3. num_reqs + 1 \in Nat
    BY <1>1
  <1> QED
    BY <1>1, <1>2, <1>3

(* A chunk of queries of the paged route.                                  *)
LEMMA ChunkGeometry ==
  ASSUME batch \in Batches, PagedInv, pc = "paged", start < PagedEnd
  PROVE  /\ row \in Requests /\ row + 1 \in 1 .. num_reqs + 1 /\ row \in 1 .. num_reqs + 1
         /\ PagedEnd = QueryStarts[row + 1] /\ QueryStarts[row + 1] \in 0 .. count
         /\ start \in Nat /\ QueryStarts[row] \in Nat /\ QueryStarts[row] <= start
         /\ QueryStarts[row + 1] = QueryStarts[row] + batch.q[row]
         /\ QueryChunk \in 1 .. QueryTokens /\ start + QueryChunk <= QueryStarts[row + 1]
         /\ PagedLength = batch.k[row] - (QueryStarts[row + 1] - start - QueryChunk)
         /\ batch.k[row] \in Nat /\ batch.k[row] <= paged.maximum /\ PagedLength \in QueryChunk .. batch.k[row]
  <1>1. /\ paged.starts = QueryStarts /\ paged.lengths = batch.k /\ row \in Requests
        /\ start \in QueryStarts[row] .. QueryStarts[row + 1]
        /\ batch.k[row] <= paged.maximum
    BY DEF PagedInv
  <1>2. num_reqs \in Nat \ {0} /\ Requests = 1 .. num_reqs
    BY BatchFacts DEF Requests
  <1>3. batch.k[row] \in Nat /\ batch.q[row] \in Nat /\ batch.q[row] <= batch.k[row]
    BY <1>1, BatchFacts
  <1>4. /\ QueryStarts \in [1 .. num_reqs + 1 -> Nat]
        /\ QueryStarts[row + 1] = QueryStarts[row] + batch.q[row]
        /\ count \in Nat /\ count = QueryStarts[num_reqs + 1]
    BY <1>1, StartsFacts
  <1> HIDE DEF num_reqs, QueryStarts, count, Requests
  <1>5. row + 1 \in 1 .. num_reqs + 1 /\ row \in 1 .. num_reqs + 1 /\ num_reqs + 1 \in 1 .. num_reqs + 1
    BY <1>1, <1>2
  <1>6. QueryStarts[row + 1] <= count
    <2>1. row + 1 <= num_reqs + 1
      BY <1>2, <1>5
    <2> QED
      BY <1>4, <1>5, <2>1, StartsOrdered
  <1>7. QueryStarts[row] \in Nat /\ QueryStarts[row + 1] \in Nat
    BY <1>4, <1>5
  <1>8. PagedEnd = QueryStarts[row + 1]
    BY <1>1 DEF PagedEnd
  <1>9. start \in Nat /\ QueryStarts[row] <= start /\ start < QueryStarts[row + 1]
    BY <1>1, <1>7, <1>8
  <1>10. QueryTokens \in Nat \ {0}
    BY BackendAssumption
  <1>11. QueryChunk \in 1 .. QueryTokens /\ start + QueryChunk <= QueryStarts[row + 1]
    BY <1>7, <1>8, <1>9, <1>10 DEF QueryChunk, AtMost
  <1>12. PagedLength = batch.k[row] - (QueryStarts[row + 1] - start - QueryChunk)
    BY <1>1, <1>8 DEF PagedLength
  <1> HIDE DEF PagedLength, QueryChunk
  <1>13. PagedLength \in QueryChunk .. batch.k[row]
    <2>1. QueryChunk \in Nat
      BY <1>10, <1>11
    <2>2. QueryStarts[row + 1] - start <= batch.k[row] /\ QueryStarts[row + 1] - start \in Int
      BY <1>3, <1>4, <1>7, <1>9
    <2>3. QueryStarts[row + 1] - start - QueryChunk >= 0 /\ QueryStarts[row + 1] - start - QueryChunk \in Int
      BY <1>7, <1>9, <1>11, <2>1
    <2> DEFINE d == QueryStarts[row + 1] - start
    <2> HIDE DEF d
    <2>4. d <= batch.k[row] /\ d \in Int /\ d - QueryChunk >= 0 /\ PagedLength = batch.k[row] - (d - QueryChunk)
      BY <1>12, <2>2, <2>3 DEF d
    <2> QED
      BY <1>3, <2>1, <2>4
  <1> QED
    BY <1>1, <1>3, <1>4, <1>5, <1>6, <1>7, <1>8, <1>9, <1>11, <1>12, <1>13

(* The operator takes every chunk.                                         *)
LEMMA ChunkCall ==
  ASSUME batch \in Batches, PagedInv, pc = "paged", start < PagedEnd
  PROVE  /\ Accepted(PagedChunkCall)
         /\ MeetsContract(Operator(PagedChunkCall, start, <<0, QueryChunk>>, <<PagedLength>>, <<row>>))
  <1> DEFINE c == PagedChunkCall
             o == Operator(c, start, <<0, QueryChunk>>, <<PagedLength>>, <<row>>)
             n == QueryChunk
  <1>1. /\ n \in 1 .. QueryTokens /\ PagedLength \in n .. batch.k[row] /\ row \in Requests
        /\ batch.k[row] \in Nat /\ batch.k[row] <= paged.maximum
    BY ChunkGeometry
  <1>2. paged.maximum \in 1 .. Maximum
    BY DEF PagedInv
  <1>3. /\ paged.maximum \in Nat \ {0} /\ paged.maximum <= MaxKeys
        /\ batch.pages >= (paged.maximum + batch.page_size - 1) \div batch.page_size
        /\ batch.page_size >= PageQuantum /\ batch.page_size % PageQuantum = 0
    BY <1>2, PagesSuffice
  <1>4. /\ batch.heads \in Nat \ {0} /\ batch.kv_heads \in Nat \ {0} /\ batch.heads % batch.kv_heads = 0
    BY GroupFacts
  <1>5. batch.page_size \in Nat /\ batch.pages \in Nat
    BY BatchFacts DEF BatchTypes
  <1>6. QueryTokens \in Nat \ {0} /\ QueryTokens <= MaxQueries /\ MaxQueries \in Nat /\ MaxSplitCount \in Nat \ {0}
    BY BackendAssumption, LimitsAssumption
  <1>7. c = [ batch |-> 1, tokens |-> n, heads |-> batch.heads, kv_heads |-> batch.kv_heads,
              page_size |-> batch.page_size, pages |-> batch.pages, max_q |-> n, max_k |-> paged.maximum,
              causal |-> TRUE, window_left |-> -1, window_right |-> -1,
              splits |-> 1, pack_gqa |-> FALSE, contiguous |-> TRUE ]
    BY DEF PagedChunkCall, OperatorCall
  <1> HIDE DEF c, n
  <1>8. n \in Nat \ {0} /\ n <= MaxQueries /\ n <= paged.maximum /\ PagedLength \in Nat
    BY <1>1, <1>3, <1>6
  <1>9. c \in CallTypes
    BY <1>3, <1>4, <1>5, <1>7, <1>8 DEF CallTypes
  <1>10. PackingAllowed(c)
    BY <1>7 DEF PackingAllowed, Groups
  <1>11. Accepted(c)
    <2>1. c.tokens <= c.batch * c.max_q
      BY <1>7, <1>8
    <2>2. c.pages >= (c.max_k + c.page_size - 1) \div c.page_size
      BY <1>3, <1>7
    <2>3. /\ c.kv_heads > 0 /\ c.heads % c.kv_heads = 0
          /\ c.page_size >= PageQuantum /\ c.page_size % PageQuantum = 0
          /\ c.batch > 0 /\ c.max_q > 0 /\ c.max_q <= MaxQueries
          /\ c.max_k > 0 /\ c.max_k <= MaxKeys
          /\ c.window_left >= -1 /\ c.window_right >= -1
          /\ c.splits >= 0 /\ c.splits <= MaxSplitCount
      BY <1>3, <1>4, <1>6, <1>7, <1>8
    <2> QED
      BY <1>10, <2>1, <2>2, <2>3 DEF Accepted
  <1>12. /\ o.call = c /\ o.cu_q = <<0, n>> /\ o.seq_k = <<PagedLength>> /\ o.seqs = <<row>>
    BY DEF o, Operator, n
  <1> HIDE DEF o
  <1>13. [cu_q |-> o.cu_q, seq_k |-> o.seq_k] \in ValidMetadata(c)
    <2>1. o.cu_q \in [1 .. 2 -> 0 .. n] /\ o.cu_q[1] = 0 /\ o.cu_q[2] = n
      BY <1>8, <1>12
    <2>2. o.seq_k \in [1 .. 1 -> 0 .. paged.maximum]
      <3>1. PagedLength \in 0 .. paged.maximum
        BY <1>1, <1>3, <1>8
      <3> QED
        BY <1>12, <3>1
    <2>3. \A i, j \in 1 .. 2 : i <= j => o.cu_q[i] <= o.cu_q[j]
      BY <1>8, <2>1
    <2>4. \A i \in 1 .. 1 : o.cu_q[i + 1] - o.cu_q[i] <= n
      BY <1>8, <2>1
    <2>5. c.batch = 1 /\ c.batch + 1 = 2 /\ c.tokens = n /\ c.max_q = n /\ c.max_k = paged.maximum
      BY <1>7
    <2> QED
      <3>1. /\ 1 = c.batch /\ o.cu_q \in [1 .. 1 + 1 -> 0 .. c.tokens] /\ o.seq_k \in [1 .. 1 -> 0 .. c.max_k]
            /\ o.cu_q[1] = 0 /\ \A i, j \in 1 .. 1 + 1 : i <= j => o.cu_q[i] <= o.cu_q[j]
        BY <2>1, <2>2, <2>3, <2>5
      <3>2. \A i \in 1 .. 1 : o.cu_q[i + 1] - o.cu_q[i] <= c.max_q
        BY <2>4, <2>5
      <3> QED
        BY ONLY <3>1, <3>2, MetadataIsValid
  <1>14. DOMAIN o.seqs = 1 .. c.batch /\ Len(o.seqs) = c.batch
    BY <1>7, <1>12
  <1>15. \A b \in 1 .. c.batch : o.cu_q[b + 1] - o.cu_q[b] <= o.seq_k[b]
    BY <1>1, <1>7, <1>8, <1>12
  <1>16. c.max_q <= c.max_k
    BY <1>7, <1>8
  <1> QED
    BY <1>9, <1>11, <1>12, <1>13, <1>14, <1>15, <1>16 DEF MeetsContract, o, c, n

-----------------------------------------------------------------------------
(* What is computed from the batch stays as long as the batch does.        *)
LEMMA SameBatch ==
  ASSUME batch' = batch
  PROVE  /\ num_reqs' = num_reqs /\ Requests' = Requests /\ QueryStarts' = QueryStarts
         /\ count' = count /\ max_query_len' = max_query_len /\ group' = group
         /\ capacity' = capacity /\ Maximum' = Maximum
         /\ (FullCausal <=> FullCausal') /\ (Plugin <=> Plugin')
         /\ BuiltContext' = BuiltContext /\ BuiltStarts' = BuiltStarts
         /\ OutIndex' = OutIndex
  <1>1. num_reqs' = num_reqs /\ Requests' = Requests
    BY DEF num_reqs, Requests
  <1>2. QueryStarts' = QueryStarts
    BY <1>1 DEF QueryStarts
  <1>3. count' = count
    BY <1>1, <1>2 DEF count
  <1>4. max_query_len' = max_query_len
    BY <1>1 DEF max_query_len
  <1>5. group' = group /\ capacity' = capacity
    BY DEF group, capacity
  <1>6. Maximum' = Maximum
    BY <1>5 DEF Maximum
  <1>7. (FullCausal <=> FullCausal') /\ (Plugin <=> Plugin')
    BY DEF FullCausal, Plugin
  <1>8. BuiltContext' = BuiltContext
    BY <1>1, <1>4 DEF BuiltContext
  <1>9. BuiltStarts' = BuiltStarts
    BY <1>2, <1>4, <1>7 DEF BuiltStarts
  <1>10. OutIndex' = OutIndex
    BY DEF OutIndex
  <1> QED
    BY <1>1, <1>2, <1>3, <1>4, <1>5, <1>6, <1>7, <1>8, <1>9, <1>10

(* What is computed from the metadata stays as long as both do.            *)
LEMMA SameMetadata ==
  ASSUME batch' = batch, metadata' = metadata
  PROVE  /\ Chunks' = Chunks /\ (RunsNative <=> RunsNative')
         /\ prefill_context' = prefill_context /\ prefill_query_starts' = prefill_query_starts
  <1>1. prefill_context' = prefill_context /\ prefill_query_starts' = prefill_query_starts
    BY DEF metadata
  <1>2. count' = count /\ max_query_len' = max_query_len /\ (FullCausal <=> FullCausal') /\ (Plugin <=> Plugin')
    BY SameBatch
  <1>3. Chunks' = Chunks
    BY <1>1, <1>2 DEF Chunks
  <1>4. TakesNative <=> TakesNative'
    BY <1>1, <1>2 DEF TakesNative
  <1>5. RunsNative <=> RunsNative'
    BY <1>2, <1>4 DEF RunsNative, OverlayTakesNative
  <1> QED
    BY <1>1, <1>3, <1>5

(* Work that is issued keeps what is said of the stream.                   *)
LEMMA IssueKeeps ==
  ASSUME stream \in Seq(Work), CallsMeetContract, NEW o \in Work,
         o.op = "forward" => MeetsContract(o), Issue(o)
  PROVE  stream' \in Seq(Work) /\ CallsMeetContract'
  <1>1. stream' = Append(stream, o)
    BY DEF Issue
  <1>2. /\ stream' \in Seq(Work) /\ Len(stream') = Len(stream) + 1
        /\ \A n \in 1 .. Len(stream) : stream'[n] = stream[n]
        /\ stream'[Len(stream) + 1] = o
    BY <1>1, AppendProperties
  <1>3. Len(stream) \in Nat
    BY LenProperties
  <1>4. ASSUME NEW n \in 1 .. Len(stream'), stream'[n].op = "forward" PROVE MeetsContract(stream'[n])
    <2>1. CASE n = Len(stream) + 1
      BY <1>2, <1>4, <2>1
    <2>2. CASE n # Len(stream) + 1
      <3>1. n \in 1 .. Len(stream)
        BY <1>2, <1>3, <2>2
      <3> QED
        BY <1>2, <1>4, <3>1 DEF CallsMeetContract
    <2> QED
      BY <2>1, <2>2
  <1> QED
    BY <1>2, <1>4 DEF CallsMeetContract

(* So does work that is taken off the stream.                              *)
LEMMA ExecuteKeeps ==
  ASSUME stream \in Seq(Work), CallsMeetContract, stream # << >>, stream' = Tail(stream)
  PROVE  stream' \in Seq(Work) /\ CallsMeetContract'
  <1>1. /\ stream' \in Seq(Work) /\ Len(stream') = Len(stream) - 1
        /\ \A n \in 1 .. Len(stream') : stream'[n] = stream[n + 1]
    BY HeadTailProperties
  <1>2. Len(stream) \in Nat
    BY LenProperties
  <1>3. ASSUME NEW n \in 1 .. Len(stream'), stream'[n].op = "forward" PROVE MeetsContract(stream'[n])
    <2>1. n + 1 \in 1 .. Len(stream)
      BY <1>1, <1>2
    <2> QED
      BY <1>1, <1>3, <2>1 DEF CallsMeetContract
  <1> QED
    BY <1>1, <1>3 DEF CallsMeetContract

(* Whether a batch may be refused is decided by the batch.                 *)
LEMMA SameRefusal ==
  ASSUME batch' = batch, MayRefuse PROVE MayRefuse'
  <1>1. /\ num_reqs' = num_reqs /\ max_query_len' = max_query_len
        /\ (FullCausal <=> FullCausal') /\ (Plugin <=> Plugin')
    BY SameBatch
  <1> QED
    BY <1>1 DEF MayRefuse

(* The initial states satisfy the invariant.                               *)
LEMMA InitHost == Init => HostInv
  <1> SUFFICES ASSUME Init PROVE HostInv
    OBVIOUS
  <1>1. batch \in Batches /\ pc = "build" /\ stream = << >> /\ prefill_query_starts = << >>
    BY DEF Init
  <1>2. stream \in Seq(Work) /\ Len(stream) = 0
    BY <1>1, EmptySeq
  <1>3. CallsMeetContract
    BY <1>2 DEF CallsMeetContract
  <1> QED
    BY <1>1, <1>2, <1>3 DEF HostInv, BuildInv, NativeInv, Native, PagedInv

(* Building the metadata.                                                  *)
LEMMA BuildStep ==
  ASSUME HostInv, Build \/ BuildOverlay PROVE HostInv'
  <1>1. /\ batch' = batch /\ stream' = stream /\ pc = "build" /\ pc' = "forward"
        /\ prefill_context' = BuiltContext
    BY DEF Build, BuildOverlay, Jump, BuiltContext
  <1>2. prefill_query_starts' = BuiltStarts
    <2>1. CASE Build
      BY <2>1 DEF Build, BuiltStarts
    <2>2. CASE BuildOverlay
      BY <1>1, <2>2 DEF BuildOverlay, BuiltStarts, HostInv, BuildInv
    <2> QED
      BY <2>1, <2>2
  <1>3. BuiltContext' = BuiltContext /\ BuiltStarts' = BuiltStarts
    BY <1>1, SameBatch
  <1>4. stream' \in Seq(Work) /\ CallsMeetContract' /\ batch' \in Batches
    BY <1>1 DEF HostInv, CallsMeetContract
  <1> QED
    BY <1>1, <1>2, <1>3, <1>4 DEF HostInv, BuildInv, NativeInv, Native, PagedInv

(* forward ends: what is left to show is the stream and the refusal.       *)
LEMMA EndStep ==
  ASSUME HostInv, batch' = batch, metadata' = metadata, pc # "build",
         pc' \in {"returned", "raised"}, stream' \in Seq(Work), CallsMeetContract',
         pc' = "raised" => MayRefuse
  PROVE  HostInv'
  <1>1. BuiltContext' = BuiltContext /\ BuiltStarts' = BuiltStarts
    BY SameBatch
  <1>2. prefill_context' = prefill_context /\ prefill_query_starts' = prefill_query_starts
    BY DEF metadata
  <1>3. pc' = "raised" => MayRefuse'
    BY SameRefusal
  <1> QED
    BY <1>1, <1>2, <1>3 DEF HostInv, BuildInv, NativeInv, Native, PagedInv

(* A batch without tokens.                                                 *)
LEMMA FillStep ==
  ASSUME HostInv, FillZero PROVE HostInv'
  <1>1. /\ batch' = batch /\ metadata' = metadata /\ pc = "forward" /\ pc' = "returned"
        /\ Issue([op |-> "fill"])
    BY DEF FillZero, Jump
  <1>2. [op |-> "fill"] \in Work
    BY DEF Work
  <1>3. stream' \in Seq(Work) /\ CallsMeetContract'
    BY <1>1, <1>2, IssueKeeps DEF HostInv
  <1> QED
    BY <1>1, <1>3, EndStep

(* A configuration without a kernel.                                       *)
LEMMA UnsupportedStep ==
  ASSUME HostInv, Unsupported PROVE HostInv'
  <1>1. /\ batch' = batch /\ metadata' = metadata /\ pc = "forward" /\ pc' = "raised"
        /\ stream' = stream /\ ~ batch.supported
    BY DEF Unsupported, Jump
  <1>2. stream' \in Seq(Work) /\ CallsMeetContract'
    BY <1>1 DEF HostInv, CallsMeetContract
  <1> QED
    BY <1>1, <1>2, EndStep DEF MayRefuse

(* A causal batch without a window gets a chunked route unless it is       *)
(* captured or the overlay has none for it.                                *)
LEMMA LongTakesChunks ==
  ASSUME HostInv, pc = "forward", count # 0, ~ RunsNative, Plugin => ~ TakesPagedBatch,
         max_query_len > MaxQueries
  PROVE  MayRefuse
  <1>1. batch \in Batches /\ prefill_context = BuiltContext /\ prefill_query_starts = BuiltStarts
    BY DEF HostInv, BuildInv
  <1> SUFFICES ASSUME FullCausal, ~ batch.capturing
               PROVE  ~ Plugin /\ ~ (batch.enabled /\ num_reqs = 1 /\ batch.upper # << >>)
    BY DEF MayRefuse
  <1>2. batch.causal
    BY DEF FullCausal
  <1>3. ~ Plugin
    <2>1. SUFFICES ASSUME Plugin PROVE FALSE
      OBVIOUS
    <2>2. prefill_query_starts = QueryStarts
      BY <1>1, <1>2, <2>1 DEF BuiltStarts
    <2>3. QueryStarts # << >>
      <3>1. QueryStarts \in Seq(Nat) /\ Len(QueryStarts) = num_reqs + 1 /\ num_reqs \in Nat
        BY <1>1, StartsSeq, BatchFacts
      <3> HIDE DEF QueryStarts, num_reqs
      <3>2. Len(QueryStarts) # 0
        BY <3>1
      <3> QED
        BY <3>2, EmptySeq
    <2> QED
      BY <2>1, <2>2, <2>3 DEF TakesPagedBatch
  <1>4. SUFFICES ASSUME batch.enabled, num_reqs = 1, batch.upper # << >> PROVE FALSE
    BY <1>3
  <1>5. /\ max_query_len \in Nat /\ ShortQuery \in Nat /\ MaxQueries \in Nat
        /\ ShortQuery <= MaxQueries
    BY <1>1, LongestQuery, BackendAssumption, LimitsAssumption
  <1>6. max_query_len > ShortQuery
    BY <1>5
  <1>7. prefill_context = batch.upper[1]
    BY <1>1, <1>2, <1>4, <1>6 DEF BuiltContext
  <1>8. count = max_query_len /\ count = batch.q[1]
    BY <1>1, <1>4, TokensBounded
  <1>9. 1 \in Requests /\ batch.q[1] <= batch.k[1]
    <2>1. 1 \in Requests
      BY <1>4 DEF Requests
    <2> QED
      BY <1>1, <2>1, BatchFacts
  <1>10. batch.upper[1] = batch.k[1]
    <2>1. BatchFits(batch)
      BY <1>1, BatchFacts
    <2>2. \A i \in Requests : batch.q[i] > ShortQuery => batch.upper[i] = batch.k[i]
      BY <1>4, <2>1 DEF BatchFits, Requests, num_reqs
    <2> QED
      BY <1>6, <1>8, <1>9, <2>2
  <1>11. batch.k[1] \in Nat
    BY <1>1, <1>9, BatchFacts
  <1>12. TakesNative
    BY <1>5, <1>6, <1>7, <1>8, <1>9, <1>10, <1>11 DEF TakesNative
  <1> QED
    BY <1>3, <1>4, <1>12 DEF RunsNative, OverlayTakesNative

(* One operator call for the whole batch.                                  *)
LEMMA DirectStep ==
  ASSUME HostInv, Direct \/ DirectOverlay PROVE HostInv'
  <1> DEFINE c == IF Plugin THEN DirectCall ELSE OverlayCall
             o == Operator(c, 0, QueryStarts, batch.k, [b \in Requests |-> b])
  <1>1. /\ batch' = batch /\ metadata' = metadata /\ pc = "forward"
        /\ pc' = IF Accepted(c) THEN "returned" ELSE "raised"
        /\ IF Accepted(c) THEN Issue(o) ELSE stream' = stream
        /\ count # 0 /\ ~ RunsNative /\ (Plugin => ~ TakesPagedBatch)
    <2>1. CASE Direct
      BY <2>1 DEF Direct, Jump
    <2>2. CASE DirectOverlay
      BY <2>2 DEF DirectOverlay, Jump
    <2> QED
      BY <2>1, <2>2
  <1>2. c \in {DirectCall, OverlayCall}
    OBVIOUS
  <1>3. batch \in Batches /\ stream \in Seq(Work) /\ CallsMeetContract
    BY DEF HostInv
  <1>4. /\ c \in CallTypes
        /\ max_query_len <= MaxQueries => Accepted(c)
        /\ Accepted(c) => MeetsContract(o)
    BY <1>1, <1>2, <1>3, WholeBatchCall
  <1> HIDE DEF c
  <1>5. o \in Work /\ o.op = "forward"
    <2>1. QueryStarts \in Seq(Nat) /\ batch.k \in Seq(Nat)
      BY <1>3, StartsSeq
    <2>2. [b \in Requests |-> b] \in Seq(Nat)
      <3>1. num_reqs \in Nat
        BY <1>3, BatchFacts
      <3> HIDE DEF num_reqs
      <3> QED
        BY <3>1 DEF Requests
    <2> HIDE DEF QueryStarts, Requests
    <2> QED
      BY <1>4, <2>1, <2>2 DEF Work, Operator
  <1> HIDE DEF o
  <1>6. stream' \in Seq(Work) /\ CallsMeetContract'
    <2>1. CASE Accepted(c)
      BY <1>1, <1>3, <1>4, <1>5, <2>1, IssueKeeps
    <2>2. CASE ~ Accepted(c)
      BY <1>1, <1>3, <2>2 DEF CallsMeetContract
    <2> QED
      BY <2>1, <2>2
  <1>7. ASSUME ~ Accepted(c) PROVE MayRefuse
    <2>1. max_query_len > MaxQueries
      <3>1. max_query_len \in Nat /\ MaxQueries \in Nat
        BY <1>3, LongestQuery, LimitsAssumption
      <3> QED
        BY <1>4, <1>7, <3>1
    <2> QED
      BY <1>1, <2>1, LongTakesChunks
  <1> QED
    BY <1>1, <1>6, <1>7, EndStep

(* Facts about a state of the native route.                                *)
LEMMA NativeState ==
  ASSUME HostInv, Native \/ (pc = "forward" /\ RunsNative)
  PROVE  /\ batch \in Batches /\ prefill_context = BuiltContext /\ prefill_query_starts = BuiltStarts
         /\ RunsNative /\ FullCausal /\ num_reqs = 1 /\ Requests = {1}
         /\ prefill_context = batch.k[1] /\ prefill_context \in 1 .. Maximum
         /\ count = batch.q[1] /\ count \in 1 .. prefill_context
         /\ prefill_context \in Nat /\ Len(Chunks) \in Nat \ {0}
  <1>1. /\ batch \in Batches /\ RunsNative
        /\ prefill_context = BuiltContext /\ prefill_query_starts = BuiltStarts
    BY DEF HostInv, NativeInv, BuildInv, Native
  <1>2. /\ FullCausal /\ num_reqs = 1 /\ Requests = {1}
        /\ prefill_context = batch.k[1] /\ prefill_context \in 1 .. Maximum
        /\ count = batch.q[1] /\ count \in 1 .. prefill_context
    BY <1>1, NativeGeometry
  <1>3. prefill_context \in Nat
    BY <1>1, <1>2, BatchFacts
  <1>4. Len(Chunks) \in Nat \ {0}
    BY <1>2, <1>3, ChunksFacts
  <1> QED
    BY <1>1, <1>2, <1>3, <1>4

(* The native route begins; its checks always hold.                        *)
LEMMA StartNativeStep ==
  ASSUME HostInv, StartNative PROVE HostInv'
  <1>1. /\ batch' = batch /\ metadata' = metadata /\ stream' = stream /\ pc = "forward"
        /\ count # 0 /\ batch.supported /\ RunsNative /\ head' = 0 /\ chunk' = 1
        /\ pc' = IF batch.heads % batch.kv_heads = 0 /\ prefill_context >= count THEN "gather" ELSE "raised"
    BY DEF StartNative, Jump
  <1>2. /\ batch \in Batches /\ count \in 1 .. prefill_context /\ prefill_context \in Nat
        /\ Len(Chunks) \in Nat \ {0}
    BY <1>1, NativeState
  <1>3. /\ count' = count /\ Chunks' = Chunks /\ (RunsNative <=> RunsNative')
        /\ prefill_context' = prefill_context /\ prefill_query_starts' = prefill_query_starts
        /\ BuiltContext' = BuiltContext /\ BuiltStarts' = BuiltStarts
    BY <1>1, SameBatch, SameMetadata
  <1>4. batch.heads % batch.kv_heads = 0 /\ batch.kv_heads \in Nat \ {0}
    BY <1>2, GroupFacts
  <1>5. pc' = "gather"
    BY <1>1, <1>2, <1>4
  <1>6. 0 \in 0 .. batch.kv_heads - 1 /\ 1 \in 1 .. Len(Chunks) + 1 /\ 1 # Len(Chunks) + 1
    BY <1>2, <1>4
  <1>7. NativeInv'
    BY <1>1, <1>3, <1>5, <1>6 DEF NativeInv, Native
  <1>8. stream' \in Seq(Work) /\ CallsMeetContract'
    BY <1>1 DEF HostInv, CallsMeetContract
  <1> QED
    BY <1>1, <1>3, <1>5, <1>7, <1>8 DEF HostInv, BuildInv, PagedInv

(* The fallback takes over a batch with lengths that are enough.           *)
LEMMA EnterStep ==
  ASSUME HostInv, batch' = batch, metadata' = metadata, stream' = stream, pc # "build", pc' = "paged",
         count # 0, batch.supported, FullCausal, NEW maximum \in 1 .. Maximum,
         \A b \in Requests : batch.k[b] <= maximum,
         EnterPaged(QueryStarts, batch.k, maximum)
  PROVE  HostInv'
  <1>1. batch \in Batches
    BY DEF HostInv
  <1>2. /\ paged'.starts = QueryStarts /\ paged'.lengths = batch.k /\ paged'.maximum = maximum
        /\ row' = 1 /\ start' = QueryStarts[1]
    BY DEF EnterPaged
  <1>3. /\ count' = count /\ Requests' = Requests /\ QueryStarts' = QueryStarts /\ Maximum' = Maximum
        /\ (FullCausal <=> FullCausal') /\ BuiltContext' = BuiltContext /\ BuiltStarts' = BuiltStarts
    BY SameBatch
  <1>4. prefill_context' = prefill_context /\ prefill_query_starts' = prefill_query_starts
    BY DEF metadata
  <1>5. 1 \in Requests /\ QueryStarts[1] \in QueryStarts[1] .. QueryStarts[1 + 1]
    <2>1. num_reqs \in Nat \ {0} /\ QueryStarts \in [1 .. num_reqs + 1 -> Nat] /\ Requests = 1 .. num_reqs
      BY <1>1, BatchFacts, StartsFacts DEF Requests
    <2> HIDE DEF num_reqs, QueryStarts, Requests
    <2>2. 1 \in 1 .. num_reqs + 1 /\ 1 + 1 \in 1 .. num_reqs + 1 /\ 1 \in Requests
      BY <2>1
    <2>3. QueryStarts[1] <= QueryStarts[1 + 1]
      BY <1>1, <2>2, StartsOrdered
    <2> QED
      BY <2>1, <2>2, <2>3
  <1>6. PagedInv'
    BY <1>2, <1>3, <1>5 DEF PagedInv
  <1>7. stream' \in Seq(Work) /\ CallsMeetContract'
    BY DEF HostInv, CallsMeetContract
  <1> QED
    BY <1>3, <1>4, <1>6, <1>7 DEF HostInv, BuildInv, NativeInv, Native

(* The chunked route begins.                                               *)
LEMMA StartPagedStep ==
  ASSUME HostInv, StartPagedBatch PROVE HostInv'
  <1>1. /\ batch' = batch /\ metadata' = metadata /\ stream' = stream /\ pc = "forward" /\ pc' = "paged"
        /\ count # 0 /\ batch.supported /\ TakesPagedBatch
        /\ EnterPaged(prefill_query_starts, batch.k, Maximum)
    BY DEF StartPagedBatch, Jump
  <1>2. batch \in Batches /\ prefill_query_starts = BuiltStarts
    BY <1>1 DEF HostInv, BuildInv
  <1>3. FullCausal /\ prefill_query_starts = QueryStarts
    BY <1>1, <1>2 DEF TakesPagedBatch, BuiltStarts
  <1>4. Maximum \in 1 .. Maximum /\ \A b \in Requests : batch.k[b] <= Maximum
    <2>1. Maximum \in 1 .. MaxKeys /\ MaxKeys \in Nat
      BY <1>2, BatchFacts, LimitsAssumption
    <2> HIDE DEF Maximum
    <2>2. Maximum \in 1 .. Maximum
      BY <2>1
    <2> QED
      BY <1>2, <2>2, BatchFacts
  <1> QED
    BY <1>1, <1>3, <1>4, EnterStep

(* Out of memory in the native route: its one request, with the context    *)
(* the host knows exactly.                                                 *)
LEMMA OutOfMemoryStep ==
  ASSUME HostInv, OutOfMemory PROVE HostInv'
  <1>1. /\ batch' = batch /\ metadata' = metadata /\ stream' = stream
        /\ pc \in {"gather", "attend"} /\ pc' = "paged"
        /\ EnterPaged(<<0, count>>, <<prefill_context>>, prefill_context)
    BY DEF OutOfMemory
  <1>2. Native /\ pc # "build"
    BY <1>1 DEF Native
  <1>3. /\ batch \in Batches /\ FullCausal /\ num_reqs = 1 /\ Requests = {1}
        /\ prefill_context = batch.k[1] /\ prefill_context \in 1 .. Maximum
        /\ count = batch.q[1] /\ prefill_context \in Nat
    BY <1>2, NativeState
  <1>4. count # 0 /\ batch.supported
    BY <1>2 DEF HostInv, NativeInv
  <1>5. QueryStarts = <<0, count>>
    <2>1. QueryStarts \in Seq(Nat) /\ Len(QueryStarts) = 2
      BY <1>3, StartsSeq
    <2>2. QueryStarts[1] = 0 /\ QueryStarts[2] = count /\ count \in Nat
      BY <1>3, StartsFacts
    <2> HIDE DEF QueryStarts, count
    <2>3. <<0, count>> \in Seq(Nat) /\ Len(<<0, count>>) = 2
      BY <2>2
    <2> QED
      BY <2>1, <2>2, <2>3, SeqEqual
  <1>6. batch.k = <<prefill_context>>
    <2>1. batch.k \in Seq(Nat) /\ Len(batch.k) = 1
      <3>1. BatchFits(batch) /\ batch \in BatchTypes
        BY <1>3, BatchFacts
      <3> QED
        BY <1>3, <3>1 DEF BatchFits, BatchTypes, num_reqs
    <2>2. <<prefill_context>> \in Seq(Nat) /\ Len(<<prefill_context>>) = 1
      BY <1>3
    <2> QED
      BY <1>3, <2>1, <2>2, SeqEqual
  <1>7. \A b \in Requests : batch.k[b] <= prefill_context
    BY <1>3
  <1> QED
    BY <1>1, <1>2, <1>3, <1>4, <1>5, <1>6, <1>7, EnterStep

(* A step inside the native route.                                         *)
LEMMA NativeStep ==
  ASSUME HostInv, Native, batch' = batch, metadata' = metadata,
         NEW o \in Work, o.op # "forward", Issue(o), pc' \in {"gather", "attend", "copy"},
         head' \in 0 .. batch.kv_heads - 1, chunk' \in 1 .. Len(Chunks) + 1,
         chunk' = Len(Chunks) + 1 <=> pc' = "copy"
  PROVE  HostInv'
  <1>1. /\ count' = count /\ Chunks' = Chunks /\ (RunsNative <=> RunsNative')
        /\ prefill_context' = prefill_context /\ prefill_query_starts' = prefill_query_starts
        /\ BuiltContext' = BuiltContext /\ BuiltStarts' = BuiltStarts
    BY SameBatch, SameMetadata
  <1>2. count # 0 /\ batch.supported /\ RunsNative /\ pc # "build"
    BY DEF HostInv, NativeInv, Native
  <1>3. NativeInv'
    BY <1>1, <1>2 DEF NativeInv, Native
  <1>4. stream' \in Seq(Work) /\ CallsMeetContract'
    BY IssueKeeps DEF HostInv
  <1> QED
    BY <1>1, <1>2, <1>3, <1>4 DEF HostInv, BuildInv, PagedInv

(* Facts about the chunk at hand.                                          *)
LEMMA ChunkAtHand ==
  ASSUME HostInv, pc \in {"gather", "attend"}
  PROVE  /\ chunk \in 1 .. Len(Chunks) /\ Len(Chunks) \in Nat \ {0}
         /\ Chunks[chunk] \in [start : Nat, length : Nat, causal : BOOLEAN]
         /\ Chunks[chunk].start \in Nat /\ Chunks[chunk].length \in Nat \ {0}
         /\ Chunks[chunk].start + Chunks[chunk].length <= prefill_context
         /\ head \in 0 .. batch.kv_heads - 1 /\ batch.kv_heads \in Nat \ {0}
  <1>1. Native
    BY DEF Native
  <1>2. prefill_context \in Nat /\ count \in 1 .. prefill_context /\ batch \in Batches
    BY <1>1, NativeState
  <1>3. /\ Chunks \in Seq([start : Nat, length : Nat, causal : BOOLEAN]) /\ Len(Chunks) \in Nat \ {0}
        /\ \A c \in 1 .. Len(Chunks) :
             Chunks[c].length > 0 /\ Chunks[c].start + Chunks[c].length <= prefill_context
    BY <1>2, ChunksFacts
  <1>4. /\ chunk \in 1 .. Len(Chunks) + 1 /\ chunk # Len(Chunks) + 1
        /\ head \in 0 .. batch.kv_heads - 1
    BY <1>1 DEF HostInv, NativeInv
  <1>5. chunk \in 1 .. Len(Chunks)
    BY <1>3, <1>4
  <1>6. Chunks[chunk] \in [start : Nat, length : Nat, causal : BOOLEAN]
    BY <1>3, <1>5, ElementOfSeq
  <1>7. Chunks[chunk].length > 0 /\ Chunks[chunk].start + Chunks[chunk].length <= prefill_context
    BY <1>3, <1>5
  <1>8. batch.kv_heads \in Nat \ {0}
    BY <1>2, GroupFacts
  <1> HIDE DEF Chunks
  <1>9. Chunks[chunk].start \in Nat /\ Chunks[chunk].length \in Nat
    BY <1>6
  <1> QED
    BY <1>3, <1>4, <1>5, <1>6, <1>7, <1>8, <1>9

(* A gather, whose checks always hold.                                     *)
LEMMA GatherStep ==
  ASSUME HostInv, Gather PROVE HostInv'
  <1> DEFINE c == Chunks[chunk]
             o == [op |-> "gather", kv |-> head, start |-> c.start, length |-> c.length]
             valid == num_reqs = 1 /\ c.start >= 0 /\ c.length > 0 /\ c.start + c.length <= capacity
  <1>1. /\ pc = "gather" /\ pc' = (IF valid THEN "attend" ELSE "raised")
        /\ IF valid THEN Issue(o) ELSE stream' = stream
        /\ batch' = batch /\ metadata' = metadata /\ head' = head /\ chunk' = chunk
    BY DEF Gather, Jump, native
  <1>2. Native
    BY <1>1 DEF Native
  <1>3. /\ num_reqs = 1 /\ batch \in Batches /\ prefill_context \in 1 .. Maximum
        /\ prefill_context \in Nat
    BY <1>2, NativeState
  <1>4. /\ chunk \in 1 .. Len(Chunks) /\ Len(Chunks) \in Nat \ {0}
        /\ c.start \in Nat /\ c.length \in Nat \ {0} /\ c.start + c.length <= prefill_context
        /\ head \in 0 .. batch.kv_heads - 1 /\ batch.kv_heads \in Nat \ {0}
    BY <1>1, ChunkAtHand
  <1>5. prefill_context <= capacity /\ capacity \in Int
    <2>1. batch.pages \in Nat /\ batch.page_size \in Nat
      BY <1>3, BatchFacts DEF BatchTypes
    <2>2. capacity \in Int
      BY <2>1 DEF capacity
    <2> QED
      BY <1>3, <2>2, PagesSuffice
  <1> HIDE DEF c
  <1>6. valid
    BY <1>3, <1>4, <1>5
  <1>7. o \in Work /\ o.op # "forward"
    BY <1>4 DEF Work
  <1> HIDE DEF valid, o
  <1>8. pc' = "attend" /\ Issue(o)
    BY <1>1, <1>6
  <1>9. chunk' \in 1 .. Len(Chunks) + 1 /\ chunk' # Len(Chunks) + 1
    BY <1>1, <1>4
  <1> QED
    BY <1>1, <1>2, <1>4, <1>7, <1>8, <1>9, NativeStep

(* Attention over a chunk.                                                 *)
LEMMA AttendStep ==
  ASSUME HostInv, Attend PROVE HostInv'
  <1> DEFINE c == Chunks[chunk]
             o == [op |-> "attend", causal |-> c.causal, first |-> c.start = 0]
  <1>1. /\ pc = "attend" /\ pc' = (IF chunk = Len(Chunks) THEN "copy" ELSE "gather")
        /\ Issue(o) /\ chunk' = chunk + 1
        /\ batch' = batch /\ metadata' = metadata /\ head' = head
    BY DEF Attend, Jump
  <1>2. Native
    BY <1>1 DEF Native
  <1>3. /\ chunk \in 1 .. Len(Chunks) /\ Len(Chunks) \in Nat \ {0}
        /\ c \in [start : Nat, length : Nat, causal : BOOLEAN]
        /\ head \in 0 .. batch.kv_heads - 1
    BY <1>1, ChunkAtHand
  <1> HIDE DEF c
  <1>4. o \in Work /\ o.op # "forward"
    <2>1. c.causal \in BOOLEAN /\ (c.start = 0) \in BOOLEAN
      BY <1>3
    <2> QED
      BY <2>1 DEF Work
  <1> HIDE DEF o
  <1>5. /\ chunk' \in 1 .. Len(Chunks) + 1 /\ (chunk' = Len(Chunks) + 1 <=> pc' = "copy")
        /\ pc' \in {"gather", "attend", "copy"}
    BY <1>1, <1>3
  <1> QED
    BY <1>1, <1>2, <1>3, <1>4, <1>5, NativeStep

(* The end of a KV head.                                                   *)
LEMMA CopyStep ==
  ASSUME HostInv, CopyHead PROVE HostInv'
  <1> DEFINE o == [op |-> "copy", kv |-> head]
  <1>1. /\ pc = "copy" /\ pc' = (IF head + 1 = batch.kv_heads THEN "returned" ELSE "gather")
        /\ Issue(o) /\ head' = head + 1 /\ chunk' = 1
        /\ batch' = batch /\ metadata' = metadata
    BY DEF CopyHead, Jump
  <1>2. Native
    BY <1>1 DEF Native
  <1>3. /\ head \in 0 .. batch.kv_heads - 1 /\ batch \in Batches
        /\ stream \in Seq(Work) /\ CallsMeetContract
    BY <1>2 DEF HostInv, NativeInv
  <1>4. batch.kv_heads \in Nat \ {0} /\ Len(Chunks) \in Nat \ {0}
    BY <1>2, <1>3, GroupFacts, NativeState
  <1>5. o \in Work /\ o.op # "forward"
    BY <1>3, <1>4 DEF Work
  <1> HIDE DEF o
  <1>6. CASE head + 1 = batch.kv_heads
    <2>1. stream' \in Seq(Work) /\ CallsMeetContract'
      BY <1>1, <1>3, <1>5, IssueKeeps
    <2> QED
      BY <1>1, <1>6, <2>1, EndStep
  <1>7. CASE head + 1 # batch.kv_heads
    <2>1. /\ head' \in 0 .. batch.kv_heads - 1 /\ chunk' \in 1 .. Len(Chunks) + 1
          /\ chunk' # Len(Chunks) + 1 /\ pc' = "gather"
      BY <1>1, <1>3, <1>4, <1>7
    <2> QED
      BY <1>1, <1>2, <1>5, <2>1, NativeStep
  <1> QED
    BY <1>6, <1>7

(* A step inside the paged route.                                          *)
LEMMA PagedStep ==
  ASSUME HostInv, pc = "paged", pc' = "paged", batch' = batch, metadata' = metadata, paged' = paged,
         row' \in Requests, start' \in QueryStarts[row'] .. QueryStarts[row' + 1],
         stream' \in Seq(Work), CallsMeetContract'
  PROVE  HostInv'
  <1>1. /\ count' = count /\ Requests' = Requests /\ QueryStarts' = QueryStarts /\ Maximum' = Maximum
        /\ (FullCausal <=> FullCausal') /\ BuiltContext' = BuiltContext /\ BuiltStarts' = BuiltStarts
    BY SameBatch
  <1>2. prefill_context' = prefill_context /\ prefill_query_starts' = prefill_query_starts
    BY DEF metadata
  <1>3. PagedInv'
    BY <1>1 DEF PagedInv, HostInv
  <1> QED
    BY <1>1, <1>2, <1>3 DEF HostInv, BuildInv, NativeInv, Native

(* A chunk of queries.                                                     *)
LEMMA PagedChunkStep ==
  ASSUME HostInv, PagedChunk PROVE HostInv'
  <1> DEFINE o == Operator(PagedChunkCall, start, <<0, QueryChunk>>, <<PagedLength>>, <<row>>)
  <1>1. /\ pc = "paged" /\ start < PagedEnd
        /\ pc' = (IF Accepted(PagedChunkCall) THEN "paged" ELSE "raised")
        /\ (IF Accepted(PagedChunkCall) THEN Issue(o) ELSE stream' = stream)
        /\ start' = start + QueryChunk
        /\ batch' = batch /\ metadata' = metadata /\ paged' = paged /\ row' = row
    BY DEF PagedChunk, Jump
  <1>2. batch \in Batches /\ PagedInv /\ stream \in Seq(Work) /\ CallsMeetContract
    BY DEF HostInv
  <1>3. Accepted(PagedChunkCall) /\ MeetsContract(o)
    BY <1>1, <1>2, ChunkCall
  <1>4. /\ row \in Requests /\ start \in Nat /\ QueryStarts[row] \in Nat /\ QueryStarts[row] <= start
        /\ QueryChunk \in 1 .. QueryTokens /\ start + QueryChunk <= QueryStarts[row + 1]
        /\ QueryStarts[row + 1] \in 0 .. count
        /\ batch.k[row] \in Nat /\ PagedLength \in QueryChunk .. batch.k[row]
    BY <1>1, <1>2, ChunkGeometry
  <1>5. QueryTokens \in Nat /\ count \in Nat /\ num_reqs \in Nat /\ Requests = 1 .. num_reqs
    BY <1>2, BackendAssumption, StartsFacts, BatchFacts DEF Requests
  <1> HIDE DEF QueryStarts, count, PagedLength, QueryChunk, num_reqs, Requests
  <1>6. QueryChunk \in Nat /\ PagedLength \in Nat /\ row \in Nat
    BY <1>4, <1>5
  <1>7. o \in Work /\ o.op = "forward"
    <2>1. <<0, QueryChunk>> \in Seq(Nat) /\ <<PagedLength>> \in Seq(Nat) /\ <<row>> \in Seq(Nat)
      BY <1>6
    <2>2. PagedChunkCall \in CallTypes
      <3>1. o.call = PagedChunkCall
        BY DEF Operator
      <3> QED
        BY <1>3, <3>1 DEF MeetsContract
    <2> QED
      BY <1>4, <2>1, <2>2 DEF Work, Operator
  <1> HIDE DEF o
  <1>8. pc' = "paged" /\ Issue(o)
    BY <1>1, <1>3
  <1>9. stream' \in Seq(Work) /\ CallsMeetContract'
    BY <1>2, <1>3, <1>7, <1>8, IssueKeeps
  <1>10. start' \in QueryStarts[row'] .. QueryStarts[row' + 1]
    <2>1. start + QueryChunk \in Nat /\ QueryStarts[row] <= start + QueryChunk /\ QueryStarts[row + 1] \in Nat
      BY <1>4, <1>5, <1>6
    <2> QED
      BY <1>1, <1>4, <2>1
  <1> QED
    BY <1>1, <1>4, <1>8, <1>9, <1>10, PagedStep

(* The next request.                                                       *)
LEMMA NextRowStep ==
  ASSUME HostInv, PagedNextRow PROVE HostInv'
  <1>1. /\ pc = "paged" /\ row < Len(paged.starts) /\ start >= PagedEnd
        /\ pc' = (IF row + 2 > Len(paged.starts) THEN "returned" ELSE "paged")
        /\ row' = row + 1 /\ start' = start /\ stream' = stream
        /\ batch' = batch /\ metadata' = metadata /\ paged' = paged
    BY DEF PagedNextRow, Jump
  <1>2. batch \in Batches
    BY DEF HostInv
  <1>3. /\ paged.starts = QueryStarts /\ row \in Requests
        /\ start \in QueryStarts[row] .. QueryStarts[row + 1]
    BY <1>1 DEF HostInv, PagedInv
  <1>4. /\ num_reqs \in Nat /\ Requests = 1 .. num_reqs /\ Len(QueryStarts) = num_reqs + 1
        /\ QueryStarts \in [1 .. num_reqs + 1 -> Nat]
    BY <1>2, BatchFacts, StartsSeq, StartsFacts DEF Requests
  <1>5. stream' \in Seq(Work) /\ CallsMeetContract'
    BY <1>1 DEF HostInv, CallsMeetContract
  <1>6. PagedEnd = QueryStarts[row + 1]
    BY <1>3 DEF PagedEnd
  <1> HIDE DEF num_reqs, Requests, QueryStarts
  <1>7. CASE row + 2 > Len(paged.starts)
    <2>1. pc' = "returned"
      BY <1>1, <1>7
    <2> QED
      BY <1>1, <1>5, <2>1, EndStep
  <1>8. CASE ~ (row + 2 > Len(paged.starts))
    <2>1. pc' = "paged"
      BY <1>1, <1>8
    <2>2. row + 1 \in Requests /\ row \in 1 .. num_reqs + 1 /\ row + 1 \in 1 .. num_reqs + 1
      BY <1>3, <1>4, <1>8
    <2>3. row + 1 + 1 \in 1 .. num_reqs + 1 /\ row + 1 <= row + 1 + 1
      BY <1>4, <2>2
    <2>4. /\ QueryStarts[row] \in Nat /\ QueryStarts[row + 1] \in Nat
          /\ QueryStarts[row + 1 + 1] \in Nat
      BY <1>4, <2>2, <2>3
    <2>5. QueryStarts[row + 1] <= QueryStarts[row + 1 + 1]
      BY <1>2, <2>2, <2>3, StartsOrdered
    <2>6. start = QueryStarts[row + 1]
      BY <1>1, <1>3, <1>6, <2>4
    <2>7. start' \in QueryStarts[row'] .. QueryStarts[row' + 1]
      BY <1>1, <2>4, <2>5, <2>6
    <2> QED
      BY <1>1, <1>5, <2>1, <2>2, <2>7, PagedStep
  <1> QED
    BY <1>7, <1>8

(* The host does nothing: the device executes, or the system rests.        *)
LEMMA HostRests ==
  ASSUME HostInv, batch' = batch, metadata' = metadata, pc' = pc, native' = native,
         fallback' = fallback, stream' \in Seq(Work), CallsMeetContract'
  PROVE  HostInv'
  <1>1. /\ count' = count /\ Requests' = Requests /\ QueryStarts' = QueryStarts /\ Maximum' = Maximum
        /\ (FullCausal <=> FullCausal') /\ BuiltContext' = BuiltContext /\ BuiltStarts' = BuiltStarts
    BY SameBatch
  <1>2. /\ Chunks' = Chunks /\ (RunsNative <=> RunsNative')
        /\ prefill_context' = prefill_context /\ prefill_query_starts' = prefill_query_starts
    BY SameMetadata
  <1>3. head' = head /\ chunk' = chunk /\ paged' = paged /\ row' = row /\ start' = start
    BY DEF native, fallback
  <1>4. BuildInv' /\ NativeInv'
    BY <1>1, <1>2, <1>3 DEF HostInv, BuildInv, NativeInv, Native
  <1>5. PagedInv'
    BY <1>1, <1>3 DEF HostInv, PagedInv
  <1>6. pc' = "raised" => MayRefuse'
    BY SameRefusal DEF HostInv
  <1> QED
    BY <1>4, <1>5, <1>6 DEF HostInv

(* Every step keeps the invariant.                                         *)
LEMMA NextHost == HostInv /\ [Next]_vars => HostInv'
  <1> SUFFICES ASSUME HostInv, [Next]_vars PROVE HostInv'
    OBVIOUS
  <1>1. CASE HostStep
    BY <1>1, BuildStep, FillStep, UnsupportedStep, StartNativeStep, StartPagedStep, DirectStep,
       GatherStep, AttendStep, CopyStep, PagedChunkStep, NextRowStep DEF HostStep
  <1>2. CASE OutOfMemory
    BY <1>2, OutOfMemoryStep
  <1>3. CASE Execute
    <2>1. /\ batch' = batch /\ metadata' = metadata /\ pc' = pc /\ native' = native /\ fallback' = fallback
          /\ stream # << >> /\ stream' = Tail(stream)
      BY <1>3 DEF Execute
    <2>2. stream' \in Seq(Work) /\ CallsMeetContract'
      BY <2>1, ExecuteKeeps DEF HostInv
    <2> QED
      BY <2>1, <2>2, HostRests
  <1>4. CASE Terminating \/ UNCHANGED vars
    <2>1. /\ batch' = batch /\ metadata' = metadata /\ pc' = pc /\ native' = native /\ fallback' = fallback
          /\ stream' = stream
      BY <1>4 DEF Terminating, vars
    <2>2. stream' \in Seq(Work) /\ CallsMeetContract'
      BY <2>1 DEF HostInv, CallsMeetContract
    <2> QED
      BY <2>1, <2>2, HostRests
  <1> QED
    BY <1>1, <1>2, <1>3, <1>4 DEF Next

(* The host invariant holds throughout.                                    *)
LEMMA HostInvariance == Spec => []HostInv
  BY InitHost, NextHost, PTL DEF Spec

(***************************************************************************)
(* Every operator call either adapter issues is one the operator accepts,  *)
(* with device metadata as ForwardLaunch assumes it of its callers, and    *)
(* with no more queries than keys, as WindowIsHonoured asks.               *)
(***************************************************************************)
THEOREM AdaptersMeetTheContract == Spec => []CallsMeetContract
  <1>1. HostInv => CallsMeetContract
    BY DEF HostInv
  <1> QED
    BY <1>1, HostInvariance, PTL

(***************************************************************************)
(* In particular, no request of a call has more queries than max_q, more   *)
(* keys than max_k or fewer keys than queries, on any route.               *)
(***************************************************************************)
THEOREM CallsStayWithinEnvelope == Spec => []CallsWithinEnvelope
  <1>1. HostInv => CallsWithinEnvelope
    <2> SUFFICES ASSUME HostInv, NEW n \in 1 .. Len(stream), stream[n].op = "forward",
                        NEW o, o = stream[n], NEW b \in 1 .. Len(o.seqs)
                 PROVE  /\ o.cu_q[b + 1] - o.cu_q[b] \in 0 .. o.call.max_q
                        /\ o.seq_k[b] \in o.cu_q[b + 1] - o.cu_q[b] .. o.call.max_k
      BY DEF CallsWithinEnvelope
    <2>1. MeetsContract(o) /\ b \in 1 .. o.call.batch
      BY DEF HostInv, CallsMeetContract, MeetsContract
    <2> QED
      BY <2>1, ContractFacts
  <1> QED
    BY <1>1, HostInvariance, PTL

(***************************************************************************)
(* A supported batch is refused only if it has a query beyond the          *)
(* operator's limit and no chunked route is open to it.                    *)
(***************************************************************************)
THEOREM OnlyLongSpecialRefused == Spec => []RefusedOnlyLongSpecial
  <1>1. HostInv => RefusedOnlyLongSpecial
    BY DEF HostInv, RefusedOnlyLongSpecial, MayRefuse
  <1> QED
    BY <1>1, HostInvariance, PTL

-----------------------------------------------------------------------------
(***************************************************************************)
(* What the operator promises is attention: the window the host rewrites,  *)
(* the packed rows and the chunked contexts come out as requested.         *)
(***************************************************************************)

(* The keys a caller asks for, for a query that stands at key `here' of K.  *)
Asked(causal, window_left, K, here) ==
  { k \in 0 .. K - 1 : (causal => k <= here) /\ (window_left # -1 => k >= here - window_left) }

(* Whole groups are not empty.                                             *)
LEMMA WholeGroups ==
  ASSUME NEW h \in Nat \ {0}, NEW v \in Nat \ {0}, h % v = 0
  PROVE  h \div v \in Nat \ {0}
  <1>1. h \div v \in Nat
    BY DivBounds
  <1>2. h = v * (h \div v) + (h % v)
    BY SMT
  <1>3. h \div v # 0
    BY <1>1, <1>2
  <1> QED
    BY <1>1, <1>3

(* The flags and limits of the launch, for a call of an adapter.           *)
LEMMA AdapterWindow ==
  ASSUME NEW c \in CallTypes, Accepted(c), c.window_right = -1, NEW l, l = Launch(c),
         NEW K \in 0 .. c.max_k, NEW here \in Int, here < K, K - c.max_k <= here, NEW k \in 0 .. K - 1
  PROVE  (/\ l.causal => k <= here
          /\ l.local => here - l.wl <= k /\ k <= here + l.wr)
         <=> (/\ c.causal => k <= here
              /\ c.window_left # -1 => k >= here - c.window_left)
  <1>1. /\ c.window_left \in Int /\ c.window_left >= -1 /\ c.causal \in BOOLEAN
        /\ c.max_k \in Nat /\ K \in Nat /\ K <= c.max_k /\ k \in Nat /\ k < K
    BY DEF CallTypes, Accepted
  <1>2. /\ l.causal <=> OrdinaryCausal(c)
        /\ l.local <=> (~ OrdinaryCausal(c) /\ (LaunchLeft(c) >= 0 \/ LaunchRight(c) >= 0))
        /\ l.wl = LaunchLeft(c) /\ l.wr = LaunchRight(c)
    BY DEF Launch
  <1>3. RightWindow(c) = IF c.causal THEN 0 ELSE -1
    BY DEF RightWindow
  <1>4. CASE c.window_left = -1 /\ c.causal
    <2>1. l.causal /\ ~ l.local
      BY <1>1, <1>2, <1>3, <1>4 DEF OrdinaryCausal
    <2> QED
      BY <1>1, <1>4, <2>1
  <1>5. CASE c.window_left = -1 /\ ~ c.causal
    <2>1. ~ l.causal /\ ~ l.local
      BY <1>1, <1>2, <1>3, <1>5 DEF OrdinaryCausal, LaunchLeft, LaunchRight
    <2> QED
      BY <1>1, <1>5, <2>1
  <1>6. CASE c.window_left >= 0 /\ c.causal
    <2>1. ~ l.causal /\ l.local /\ l.wl = c.window_left /\ l.wr = 0
      BY <1>1, <1>2, <1>3, <1>6 DEF OrdinaryCausal, LaunchLeft, LaunchRight
    <2> QED
      BY <1>1, <1>6, <2>1
  <1>7. CASE c.window_left >= 0 /\ ~ c.causal
    <2>1. ~ l.causal /\ l.local /\ l.wl = c.window_left /\ l.wr = c.max_k
      BY <1>1, <1>2, <1>3, <1>7 DEF OrdinaryCausal, LaunchLeft, LaunchRight
    <2> QED
      BY <1>1, <1>7, <2>1
  <1> QED
    BY <1>1, <1>4, <1>5, <1>6, <1>7

(* A packed row of a tile is a row of a token.                             *)
LEMMA RowOfToken ==
  ASSUME NEW g \in Nat \ {0}, NEW t \in Nat, NEW Q \in Nat, NEW K, NEW p, p.groups = g,
         NEW tile, tile = TileOf(p, (t * g) \div kBlockM, Q * g, K)
  PROVE  /\ Token(tile, (t * g) % kBlockM) = t /\ Tokens(tile) = Q /\ tile.K = K
         /\ tile.causal = p.causal /\ tile.local = p.local /\ tile.wl = p.wl /\ tile.wr = p.wr
  <1> DEFINE r == t * g
             m == r \div kBlockM
  <1>1. kBlockM \in Nat \ {0} /\ r \in Nat
    BY BlocksArePositive
  <1>2. /\ tile.m = m /\ tile.groups = g /\ tile.Q = Q * g /\ tile.K = K
        /\ tile.causal = p.causal /\ tile.local = p.local /\ tile.wl = p.wl /\ tile.wr = p.wr
    BY DEF TileOf
  <1>3. (t * g) \div g = t /\ (Q * g) \div g = Q
    <2>1. (t * g) \div g = t
      <3>1. t * g = t * g + 0
        BY <1>1
      <3>2. t * g \in Nat /\ 0 \in 0 .. g - 1 /\ t \in Int
        OBVIOUS
      <3> QED
        BY <3>1, <3>2, DivUnique
    <2>2. (Q * g) \div g = Q
      <3>1. Q * g = Q * g + 0
        OBVIOUS
      <3>2. Q * g \in Nat /\ 0 \in 0 .. g - 1 /\ Q \in Int
        OBVIOUS
      <3> QED
        BY <3>1, <3>2, DivUnique
    <2> QED
      BY <2>1, <2>2
  <1> HIDE DEF r
  <1>4. m * kBlockM + (r % kBlockM) = r
    <2>1. r = kBlockM * m + (r % kBlockM) /\ m \in Nat /\ r % kBlockM \in Int
      BY <1>1, SMT
    <2> QED
      BY <1>1, <2>1
  <1> QED
    BY <1>2, <1>3, <1>4 DEF Token, Tokens, r

(* So the launch of an adapter shows token t of Q tokens with K keys what  *)
(* the caller asked for.                                                   *)
LEMMA AdapterKeys ==
  ASSUME NEW c \in CallTypes, Accepted(c), c.window_right = -1, c.max_q <= c.max_k, NEW l, l = Launch(c),
         NEW Q \in 1 .. c.max_q, NEW K \in Q .. c.max_k, NEW t \in 0 .. Q - 1,
         NEW r, r = t * l.groups, NEW tile, tile = TileOf(l, r \div kBlockM, Q * l.groups, K)
  PROVE  Visible(tile, r % kBlockM) = Asked(c.causal, c.window_left, K, t + K - Q)
  <1> DEFINE here == t + K - Q
  <1>1. c.max_q \in Nat /\ c.max_k \in Nat /\ c.heads \in Nat \ {0} /\ c.kv_heads \in Nat \ {0}
    BY DEF CallTypes, Accepted
  <1>2. l.groups \in Nat \ {0}
    <2>1. l.groups = Groups(c) /\ c.heads % c.kv_heads = 0
      BY DEF Launch, Accepted
    <2>2. c.heads \div c.kv_heads \in Nat \ {0}
      BY <1>1, <2>1, WholeGroups
    <2> QED
      BY <2>1, <2>2 DEF Groups
  <1>3. t \in Nat /\ Q \in Nat /\ K \in Nat
    BY <1>1
  <1>4. /\ Token(tile, r % kBlockM) = t /\ Tokens(tile) = Q /\ tile.K = K
        /\ tile.causal = l.causal /\ tile.local = l.local /\ tile.wl = l.wl /\ tile.wr = l.wr
    BY <1>2, <1>3, RowOfToken
  <1>5. here \in Int /\ here < K /\ K - c.max_k <= here /\ K \in 0 .. c.max_k
    BY <1>1, <1>3
  <1>6. \A k \in 0 .. K - 1 :
          (/\ l.causal => k <= here
           /\ l.local => here - l.wl <= k /\ k <= here + l.wr)
          <=> (/\ c.causal => k <= here
               /\ c.window_left # -1 => k >= here - c.window_left)
    <2> HIDE DEF here
    <2> QED
      BY <1>5, AdapterWindow
  <1> DEFINE x == r % kBlockM
             S == Visible(tile, x)
  <1>7. \A k : k \in S <=> /\ k \in 0 .. K - 1
                           /\ l.causal => k <= here
                           /\ l.local => here - l.wl <= k /\ k <= here + l.wr
    <2>1. Token(tile, x) + tile.K - Tokens(tile) = here
      BY <1>4
    <2> HIDE DEF x, here
    <2> QED
      BY <1>4, <2>1 DEF Visible
  <1> HIDE DEF S, here
  <1>8. S = { k \in 0 .. K - 1 : /\ c.causal => k <= here
                                 /\ c.window_left # -1 => k >= here - c.window_left }
    BY <1>6, <1>7
  <1>9. S = Asked(c.causal, c.window_left, K, here)
    BY <1>8 DEF Asked
  <1> QED
    BY <1>9 DEF S, here

(* What the operator promises for a token of request b of a call.          *)
LEMMA PromisedKeys ==
  ASSUME NEW o, MeetsContract(o), o.call.window_right = -1, o.first \in Nat,
         NEW b \in 1 .. o.call.batch, NEW t \in Nat, NEW h,
         o.cu_q[b] <= t - o.first, t - o.first < o.cu_q[b + 1],
         \A x \in 1 .. o.call.batch : o.cu_q[x] <= t - o.first /\ t - o.first < o.cu_q[x + 1] => x = b,
         NEW here, here = (t - o.first - o.cu_q[b]) + o.seq_k[b] - (o.cu_q[b + 1] - o.cu_q[b])
  PROVE  Promised(o, t, h) = Value(o.seqs[b], h \div group,
                                   Asked(o.call.causal, o.call.window_left, o.seq_k[b], here))
  <1> DEFINE l == Launch(o.call)
             i == t - o.first - o.cu_q[b]
             r == i * l.groups
             Q == o.cu_q[b + 1] - o.cu_q[b]
             K == o.seq_k[b]
             tile == TileOf(l, r \div kBlockM, Q * l.groups, K)
  <1>1. /\ o.cu_q[b] \in Nat /\ o.cu_q[b + 1] \in Nat /\ Q \in 0 .. o.call.max_q /\ K \in Q .. o.call.max_k
        /\ o.call \in CallTypes /\ Accepted(o.call) /\ o.call.max_q <= o.call.max_k
        /\ o.call.max_q \in Int /\ o.call.max_k \in Int
    BY ContractFacts
  <1>2. Len(o.seqs) = o.call.batch
    BY DEF MeetsContract
  <1>3. (CHOOSE x \in 1 .. Len(o.seqs) : o.cu_q[x] <= t - o.first /\ t - o.first < o.cu_q[x + 1]) = b
    <2> HIDE DEF l, i, r, Q, K, tile
    <2> QED
      BY <1>2
  <1>4. Promised(o, t, h) = Value(o.seqs[b], h \div group, Visible(tile, r % kBlockM))
    BY <1>3 DEF Promised
  <1>5. i \in 0 .. Q - 1 /\ Q \in 1 .. o.call.max_q
    BY <1>1
  <1> HIDE DEF l, i, Q, K
  <1>6. Visible(tile, r % kBlockM) = Asked(o.call.causal, o.call.window_left, K, i + K - Q)
    <2>1. l = Launch(o.call)
      BY DEF l
    <2> QED
      BY <1>1, <1>5, <2>1, AdapterKeys
  <1>7. here = i + K - Q
    BY DEF i, K, Q
  <1> QED
    BY <1>4, <1>6, <1>7 DEF K

-----------------------------------------------------------------------------
(* What a place of the output should hold.                                 *)
Owner(t) == CHOOSE b \in Requests : QueryStarts[b] <= t /\ t < QueryStarts[b + 1]
Expected(i) == Value(Owner(i[1]), i[2] \div group, ExpectedKeys(Owner(i[1]), i[1] - QueryStarts[Owner(i[1])]))

(* The owner of a token.                                                   *)
LEMMA OwnerIs ==
  ASSUME batch \in Batches, NEW t \in Nat, NEW b \in Requests,
         QueryStarts[b] <= t, t < QueryStarts[b + 1]
  PROVE  Owner(t) = b
  <1> HIDE DEF Requests, QueryStarts
  <1>1. Owner(t) \in Requests /\ QueryStarts[Owner(t)] <= t /\ t < QueryStarts[Owner(t) + 1]
    BY DEF Owner
  <1> HIDE DEF Owner
  <1> QED
    BY <1>1, OwnerUnique

(* The keys of a query in terms of its position among the keys.            *)
LEMMA KeysOfQuery ==
  ASSUME batch \in Batches, NEW b \in Requests, NEW i \in Nat, NEW here, here = i + batch.k[b] - batch.q[b]
  PROVE  ExpectedKeys(b, i) = Asked(batch.causal, batch.window_left, batch.k[b], here)
  BY DEF ExpectedKeys, Asked

(* One call for the whole batch promises attention.                        *)
LEMMA WholeBatchPromise ==
  ASSUME batch \in Batches, count # 0, NEW c \in {DirectCall, OverlayCall}, Accepted(c),
         NEW o, o = Operator(c, 0, QueryStarts, batch.k, [b \in Requests |-> b]),
         NEW i, i[1] \in 0 .. count - 1
  PROVE  Promised(o, i[1], i[2]) = Expected(i)
  <1> DEFINE t == i[1]
             h == i[2]
  <1>1. MeetsContract(o)
    BY WholeBatchCall
  <1>2. /\ o.call = c /\ o.first = 0 /\ o.cu_q = QueryStarts /\ o.seq_k = batch.k
        /\ o.seqs = [b \in Requests |-> b]
    BY DEF Operator
  <1>3. /\ c.batch = num_reqs /\ c.causal = batch.causal /\ c.window_left = batch.window_left
        /\ c.window_right = -1
    BY DEF DirectCall, OverlayCall, OperatorCall
  <1>4. Requests = 1 .. num_reqs /\ num_reqs \in Nat \ {0} /\ t \in Nat
    <2>1. count \in Nat
      BY StartsFacts
    <2> QED
      BY <2>1, BatchFacts DEF Requests
  <1>5. PICK b \in Requests : QueryStarts[b] <= t /\ t < QueryStarts[b + 1]
    BY OwnerExists
  <1>6. Owner(t) = b
    BY <1>4, <1>5, OwnerIs
  <1>7. /\ QueryStarts[b] \in Nat /\ QueryStarts[b + 1] = QueryStarts[b] + batch.q[b]
        /\ batch.k[b] \in Nat /\ batch.q[b] \in Nat
    <2>1. /\ QueryStarts \in [1 .. num_reqs + 1 -> Nat]
          /\ QueryStarts[b + 1] = QueryStarts[b] + batch.q[b]
      BY StartsFacts
    <2>2. b \in 1 .. num_reqs + 1
      BY <1>4
    <2>3. batch.k \in [Requests -> Nat] /\ batch.q \in [Requests -> Nat]
      BY BatchFacts
    <2> HIDE DEF QueryStarts, num_reqs, Requests
    <2> QED
      BY <2>1, <2>2, <2>3
  <1> DEFINE here == (t - QueryStarts[b]) + batch.k[b] - batch.q[b]
  <1>8. Promised(o, t, h) = Value(b, h \div group, Asked(batch.causal, batch.window_left, batch.k[b], here))
    <2> HIDE DEF QueryStarts, num_reqs, Requests, t, h
    <2>1. /\ o.call.window_right = -1 /\ o.first \in Nat /\ b \in 1 .. o.call.batch /\ t \in Nat
      BY <1>2, <1>3, <1>4, <1>5
    <2>2. t - o.first = t
      BY <1>2, <1>4
    <2>3. o.cu_q[b] <= t - o.first /\ t - o.first < o.cu_q[b + 1]
      BY <1>2, <1>5, <2>2
    <2>4. \A x \in 1 .. o.call.batch : o.cu_q[x] <= t - o.first /\ t - o.first < o.cu_q[x + 1] => x = b
      BY <1>2, <1>3, <1>4, <1>5, <2>2, OwnerUnique
    <2>5. here = (t - o.first - o.cu_q[b]) + o.seq_k[b] - (o.cu_q[b + 1] - o.cu_q[b])
      <3>1. o.cu_q[b + 1] - o.cu_q[b] = batch.q[b] /\ o.cu_q[b] = QueryStarts[b] /\ o.seq_k[b] = batch.k[b]
        BY <1>2, <1>7
      <3> QED
        BY <2>2, <3>1
    <2>6. o.seqs[b] = b /\ o.seq_k[b] = batch.k[b]
      BY <1>2
    <2> HIDE DEF here
    <2>7. Promised(o, t, h) =
            Value(o.seqs[b], h \div group, Asked(o.call.causal, o.call.window_left, o.seq_k[b], here))
      BY ONLY <1>1, <2>1, <2>3, <2>4, <2>5, PromisedKeys
    <2> QED
      BY <1>2, <1>3, <2>6, <2>7
  <1>9. ExpectedKeys(b, t - QueryStarts[b]) = Asked(batch.causal, batch.window_left, batch.k[b], here)
    <2>1. t - QueryStarts[b] \in Nat
      BY <1>4, <1>5, <1>7
    <2> QED
      BY <2>1, KeysOfQuery
  <1>10. Expected(i) = Value(b, h \div group, ExpectedKeys(b, t - QueryStarts[b]))
    BY <1>6 DEF Expected
  <1> HIDE DEF here
  <1> QED
    BY <1>8, <1>9, <1>10

(* Keys behind the query do not matter to a causal mask.                   *)
LEMMA CausalKeys ==
  ASSUME NEW here \in Int, NEW K \in Nat, NEW L \in Nat, here < K, here < L
  PROVE  Asked(TRUE, -1, K, here) = Asked(TRUE, -1, L, here)
  BY DEF Asked

(* The call for a chunk of queries promises attention.                     *)
LEMMA ChunkPromise ==
  ASSUME batch \in Batches, PagedInv, pc = "paged", start < PagedEnd,
         NEW o, o = Operator(PagedChunkCall, start, <<0, QueryChunk>>, <<PagedLength>>, <<row>>),
         NEW i, i[1] \in start .. start + QueryChunk - 1
  PROVE  Promised(o, i[1], i[2]) = Expected(i)
  <1> DEFINE t == i[1]
             h == i[2]
             n == QueryChunk
             L == PagedLength
             K == batch.k[row]
             S == QueryStarts[row]
             E == QueryStarts[row + 1]
  <1>1. MeetsContract(o)
    BY ChunkCall
  <1>2. o.call = PagedChunkCall /\ o.first = start /\ o.cu_q = <<0, n>> /\ o.seq_k = <<L>> /\ o.seqs = <<row>>
    BY DEF Operator
  <1>3. /\ o.call.batch = 1 /\ o.call.causal = TRUE /\ o.call.window_left = -1 /\ o.call.window_right = -1
    BY <1>2 DEF PagedChunkCall, OperatorCall
  <1>4. batch.causal = TRUE /\ batch.window_left = -1
    <2>1. batch.causal \in BOOLEAN
      BY BatchFacts DEF BatchTypes
    <2> QED
      BY <2>1 DEF PagedInv, FullCausal
  <1>5. /\ row \in Requests /\ start \in Nat /\ S \in Nat /\ S <= start /\ E \in Nat /\ E = S + batch.q[row]
        /\ n \in Nat \ {0} /\ start + n <= E /\ L = K - (E - start - n) /\ K \in Nat /\ L \in n .. K
    <2>1. count \in Nat /\ QueryTokens \in Nat
      BY StartsFacts, BackendAssumption
    <2> HIDE DEF QueryChunk, PagedLength, QueryStarts, Requests, count
    <2> QED
      BY <2>1, ChunkGeometry
  <1>6. batch.q[row] \in Nat
    BY <1>5, BatchFacts
  <1> HIDE DEF t, h, n, L, K, S, E
  <1>7. t \in Nat /\ S <= t /\ start <= t /\ t < start + n /\ t < E
    BY <1>5 DEF t, n
  <1>8. Owner(t) = row
    BY <1>5, <1>7, OwnerIs DEF S, E
  <1> DEFINE here == (t - S) + K - batch.q[row]
  <1>9. Promised(o, t, h) = Value(row, h \div group, Asked(TRUE, -1, L, here))
    <2>1. o.cu_q[1] = 0 /\ o.cu_q[1 + 1] = n /\ o.seq_k[1] = L /\ o.seqs[1] = row
      BY <1>2
    <2>2. o.cu_q[1] <= t - o.first /\ t - o.first < o.cu_q[1 + 1] /\ o.first \in Nat /\ 1 \in 1 .. o.call.batch
      BY <1>2, <1>3, <1>5, <1>7, <2>1
    <2>3. \A x \in 1 .. o.call.batch : o.cu_q[x] <= t - o.first /\ t - o.first < o.cu_q[x + 1] => x = 1
      BY <1>3
    <2>4. here = (t - o.first - o.cu_q[1]) + o.seq_k[1] - (o.cu_q[1 + 1] - o.cu_q[1])
      BY <1>2, <1>5, <1>6, <1>7, <2>1
    <2> HIDE DEF here
    <2>5. Promised(o, t, h) =
            Value(o.seqs[1], h \div group, Asked(o.call.causal, o.call.window_left, o.seq_k[1], here))
      BY ONLY <1>1, <1>3, <1>7, <2>2, <2>3, <2>4, PromisedKeys
    <2> QED
      BY <1>3, <2>1, <2>5
  <1>10. ExpectedKeys(row, t - S) = Asked(TRUE, -1, K, here)
    <2>1. t - S \in Nat
      BY <1>5, <1>7
    <2>2. here = (t - S) + batch.k[row] - batch.q[row]
      BY DEF K
    <2> HIDE DEF here
    <2>3. ExpectedKeys(row, t - S) = Asked(batch.causal, batch.window_left, batch.k[row], here)
      BY <1>5, <2>1, <2>2, KeysOfQuery
    <2> QED
      BY <1>4, <2>3 DEF K
  <1>11. Asked(TRUE, -1, L, here) = Asked(TRUE, -1, K, here)
    <2>1. here \in Int /\ K \in Nat /\ L \in Nat /\ here < K /\ here < L
      BY <1>5, <1>6, <1>7
    <2> HIDE DEF here
    <2> QED
      BY <2>1, CausalKeys
  <1>12. Expected(i) = Value(row, h \div group, ExpectedKeys(row, t - S))
    BY <1>8 DEF Expected, t, h, S
  <1> HIDE DEF here
  <1>13. Promised(o, t, h) = Expected(i)
    BY <1>9, <1>10, <1>11, <1>12
  <1> QED
    BY <1>13 DEF t, h

-----------------------------------------------------------------------------
(* What an operation makes of a state of the device.                       *)
Now == [unpacked |-> unpacked, accumulated |-> accumulated, output |-> output]

RowOf(u, i, causal) ==
  Value(1, u.kv, { u.start + j : j \in { j \in 0 .. u.length - 1 : causal => j <= i + u.length - count } })

Place(o, d, i) ==
  IF o.op = "fill" THEN Zero
  ELSE IF o.op = "copy" /\ i[1] < count /\ i[2] \div group = o.kv THEN d.accumulated[i[1]]
  ELSE IF o.op = "forward" /\ Written(o, i[1]) THEN Promised(o, i[1], i[2])
  ELSE d.output[i]

Applied(o, d) ==
  [ unpacked    |-> IF o.op = "gather" THEN [kv |-> o.kv, start |-> o.start, length |-> o.length] ELSE d.unpacked,
    accumulated |-> IF o.op = "attend"
                    THEN [i \in 0 .. count - 1 |->
                            IF o.first THEN RowOf(d.unpacked, i, o.causal)
                            ELSE Merge(d.accumulated[i], RowOf(d.unpacked, i, o.causal))]
                    ELSE d.accumulated,
    output      |-> IF o.op \in {"fill", "copy", "forward"} THEN [i \in OutIndex |-> Place(o, d, i)] ELSE d.output ]

(* The keys before a chunk, or all of them behind the last one.            *)
Folded(t, c) == IF c > Len(Chunks) THEN ExpectedKeys(1, t) ELSE 0 .. Chunks[c].start - 1

(* Places that nothing that is still to be issued will touch.              *)
Settled(i) ==
  /\ i[1] < count
  /\ \/ pc = "returned"
     \/ Native /\ i[2] \div group < head
     \/ pc = "paged" /\ i[1] < start

(***************************************************************************)
(* What the device will have done when it has caught up with the host: d   *)
(* is then its state.                                                      *)
(***************************************************************************)
OutputAhead(d) ==
  pc # "raised" =>
    \A i \in OutIndex :
      /\ i[1] >= count => d.output[i] = IF count = 0 /\ pc = "returned" THEN Zero ELSE Caller
      /\ Settled(i) => d.output[i] = Expected(i)

NativeAhead(d) ==
  /\ pc = "attend" =>
       d.unpacked = [kv |-> head, start |-> Chunks[chunk].start, length |-> Chunks[chunk].length]
  /\ Native /\ chunk > 1 =>
       \A t \in 0 .. count - 1 : d.accumulated[t] = Value(1, head, Folded(t, chunk))

Ahead(d) == OutputAhead(d) /\ NativeAhead(d)

StreamInv ==
  \E d : /\ d[1] = Now
         /\ \A n \in 1 .. Len(stream) : d[n + 1] = Applied(stream[n], d[n])
         /\ Ahead(d[Len(stream) + 1])

(* None of this depends on more than the batch and its metadata.           *)
LEMMA SameExpected ==
  ASSUME batch' = batch
  PROVE  /\ \A b, i : ExpectedKeys(b, i)' = ExpectedKeys(b, i)
         /\ \A i : Expected(i)' = Expected(i)
  <1>1. Requests' = Requests /\ QueryStarts' = QueryStarts /\ group' = group
    BY SameBatch
  <1>2. \A b, i : ExpectedKeys(b, i)' = ExpectedKeys(b, i)
    BY DEF ExpectedKeys
  <1>3. \A t : Owner(t)' = Owner(t)
    BY <1>1 DEF Owner
  <1>4. \A i : Expected(i)' = Expected(i)
    BY <1>1, <1>2, <1>3 DEF Expected
  <1> QED
    BY <1>2, <1>4

(* Neither does what an operation makes of a state.                        *)
LEMMA SameApplied ==
  ASSUME batch' = batch
  PROVE  \A o, d : Applied(o, d)' = Applied(o, d)
  <1>1. count' = count /\ group' = group /\ OutIndex' = OutIndex
    BY SameBatch
  <1>2. \A o, t, h : Promised(o, t, h)' = Promised(o, t, h)
    BY <1>1 DEF Promised
  <1>3. \A u, i, causal : RowOf(u, i, causal)' = RowOf(u, i, causal)
    BY <1>1 DEF RowOf
  <1>4. \A o, d, i : Place(o, d, i)' = Place(o, d, i)
    BY <1>1, <1>2 DEF Place
  <1> SUFFICES ASSUME NEW o, NEW d PROVE Applied(o, d)' = Applied(o, d)
    OBVIOUS
  <1> DEFINE attended == [i \in 0 .. count - 1 |->
                            IF o.first THEN RowOf(d.unpacked, i, o.causal)
                            ELSE Merge(d.accumulated[i], RowOf(d.unpacked, i, o.causal))]
             written == [i \in OutIndex |-> Place(o, d, i)]
  <1>5. attended' = attended
    BY <1>1, <1>3
  <1>6. written' = written
    BY <1>1, <1>4
  <1>7. Applied(o, d) =
          [ unpacked    |-> IF o.op = "gather" THEN [kv |-> o.kv, start |-> o.start, length |-> o.length] ELSE d.unpacked,
            accumulated |-> IF o.op = "attend" THEN attended ELSE d.accumulated,
            output      |-> IF o.op \in {"fill", "copy", "forward"} THEN written ELSE d.output ]
    BY DEF Applied
  <1>8. Applied(o, d)' =
          [ unpacked    |-> IF o.op = "gather" THEN [kv |-> o.kv, start |-> o.start, length |-> o.length] ELSE d.unpacked,
            accumulated |-> IF o.op = "attend" THEN attended' ELSE d.accumulated,
            output      |-> IF o.op \in {"fill", "copy", "forward"} THEN written' ELSE d.output ]
    BY DEF Applied
  <1> HIDE DEF attended, written
  <1> QED
    BY <1>5, <1>6, <1>7, <1>8

(* Executing an operation is applying it.                                  *)
LEMMA EffectApplies ==
  ASSUME NEW o \in Work, Effect(o)
  PROVE  Now' = Applied(o, Now)
  <1>1. Now' = [unpacked |-> unpacked', accumulated |-> accumulated', output |-> output']
    BY DEF Now
  <1>2. Now.unpacked = unpacked /\ Now.accumulated = accumulated /\ Now.output = output
    BY DEF Now
  <1>3. o.op \in {"fill", "gather", "attend", "copy", "forward"}
    BY DEF Work
  <1>4. CASE o.op = "fill"
    <2>1. unpacked' = unpacked /\ accumulated' = accumulated /\ output' = [i \in OutIndex |-> Zero]
      BY <1>4 DEF Effect
    <2>2. \A i \in OutIndex : Place(o, Now, i) = Zero
      BY <1>4 DEF Place
    <2>3. Applied(o, Now) = [unpacked |-> unpacked, accumulated |-> accumulated,
                             output |-> [i \in OutIndex |-> Place(o, Now, i)]]
      BY <1>2, <1>4 DEF Applied
    <2> QED
      BY <1>1, <2>1, <2>2, <2>3
  <1>5. CASE o.op = "gather"
    <2>1. /\ unpacked' = [kv |-> o.kv, start |-> o.start, length |-> o.length]
          /\ accumulated' = accumulated /\ output' = output
      BY <1>5 DEF Effect
    <2> QED
      BY <1>1, <1>2, <1>5, <2>1 DEF Applied
  <1>6. CASE o.op = "attend"
    <2>1. /\ accumulated' = [i \in 0 .. count - 1 |->
                              IF o.first THEN ChunkRow(i, o.causal)
                              ELSE Merge(accumulated[i], ChunkRow(i, o.causal))]
          /\ unpacked' = unpacked /\ output' = output
      BY <1>6 DEF Effect
    <2>2. \A i, causal : ChunkRow(i, causal) = RowOf(unpacked, i, causal)
      BY DEF ChunkRow, RowOf
    <2>3. accumulated' = [i \in 0 .. count - 1 |->
                              IF o.first THEN RowOf(unpacked, i, o.causal)
                              ELSE Merge(accumulated[i], RowOf(unpacked, i, o.causal))]
      BY <2>1, <2>2
    <2> QED
      BY <1>1, <1>2, <1>6, <2>1, <2>3 DEF Applied
  <1>7. CASE o.op = "copy"
    <2>1. /\ output' = [i \in OutIndex |->
                          IF i[1] < count /\ i[2] \div group = o.kv THEN accumulated[i[1]] ELSE output[i]]
          /\ unpacked' = unpacked /\ accumulated' = accumulated
      BY <1>7 DEF Effect
    <2>2. \A i \in OutIndex : Place(o, Now, i) =
            IF i[1] < count /\ i[2] \div group = o.kv THEN accumulated[i[1]] ELSE output[i]
      BY <1>2, <1>7 DEF Place
    <2>3. Applied(o, Now) = [unpacked |-> unpacked, accumulated |-> accumulated,
                             output |-> [i \in OutIndex |-> Place(o, Now, i)]]
      BY <1>2, <1>7 DEF Applied
    <2> QED
      BY <1>1, <2>1, <2>2, <2>3
  <1>8. CASE o.op = "forward"
    <2>1. /\ output' = [i \in OutIndex |->
                          IF Written(o, i[1]) THEN Promised(o, i[1], i[2]) ELSE output[i]]
          /\ unpacked' = unpacked /\ accumulated' = accumulated
      BY <1>8 DEF Effect
    <2>2. \A i \in OutIndex : Place(o, Now, i) =
            IF Written(o, i[1]) THEN Promised(o, i[1], i[2]) ELSE output[i]
      BY <1>2, <1>8 DEF Place
    <2>3. Applied(o, Now) = [unpacked |-> unpacked, accumulated |-> accumulated,
                             output |-> [i \in OutIndex |-> Place(o, Now, i)]]
      BY <1>2, <1>8 DEF Applied
    <2> QED
      BY <1>1, <2>1, <2>2, <2>3
  <1> QED
    BY <1>3, <1>4, <1>5, <1>6, <1>7, <1>8

(* An operation that is issued is applied behind the others.               *)
LEMMA IssuedAhead ==
  ASSUME stream \in Seq(Work), StreamInv, NEW o, Issue(o), batch' = batch, device' = device,
         \A d, e : Ahead(d) /\ e = Applied(o, d) => Ahead(e)'
  PROVE  StreamInv'
  <1>1. PICK d : /\ d[1] = Now
                 /\ \A n \in 1 .. Len(stream) : d[n + 1] = Applied(stream[n], d[n])
                 /\ Ahead(d[Len(stream) + 1])
    BY DEF StreamInv
  <1>2. /\ Len(stream') = Len(stream) + 1 /\ Len(stream) \in Nat
        /\ \A n \in 1 .. Len(stream) : stream'[n] = stream[n]
        /\ stream'[Len(stream) + 1] = o
    <2> DEFINE W == Work \cup {o}
    <2>1. Len(stream) \in Nat
      BY LenProperties
    <2>2. stream' = Append(stream, o)
      BY DEF Issue
    <2> HIDE DEF Work
    <2>3. stream \in Seq(W) /\ o \in W
      OBVIOUS
    <2> HIDE DEF W
    <2> QED
      BY <2>1, <2>2, <2>3, AppendProperties
  <1>3. Now' = Now
    BY DEF device, Now
  <1> DEFINE N == Len(stream)
  <1>4. PICK x : x = Applied(o, d[N + 1])
    OBVIOUS
  <1>5. PICK e : e = [n \in 1 .. N + 2 |-> IF n = N + 2 THEN x ELSE d[n]]
    OBVIOUS
  <1>6. (\A n \in 1 .. N + 1 : e[n] = d[n]) /\ e[N + 2] = x
    BY <1>2, <1>5
  <1>7. e[1] = Now'
    BY <1>1, <1>2, <1>3, <1>6
  <1>8. ASSUME NEW n \in 1 .. Len(stream') PROVE e[n + 1] = Applied(stream[n], e[n])'
    <2>1. Applied(stream[n], e[n])' = Applied(stream'[n], e[n])
      BY SameApplied
    <2>2. CASE n = N + 1
      BY <1>2, <1>4, <1>6, <2>1, <2>2
    <2>3. CASE n # N + 1
      <3>1. n \in 1 .. N /\ n \in 1 .. N + 1 /\ n + 1 \in 1 .. N + 1
        BY <1>2, <2>3
      <3>2. d[n + 1] = Applied(stream[n], d[n]) /\ e[n] = d[n] /\ e[n + 1] = d[n + 1] /\ stream'[n] = stream[n]
        BY <1>1, <1>2, <1>6, <3>1
      <3> QED
        BY <2>1, <3>2
    <2> QED
      BY <2>2, <2>3
  <1>9. Ahead(e[Len(stream) + 1])'
    <2>1. e[Len(stream') + 1] = x
      BY <1>2, <1>6
    <2>2. Ahead(x)'
      BY <1>1, <1>4
    <2> QED
      BY <2>1, <2>2
  <1> QED
    BY <1>7, <1>8, <1>9 DEF StreamInv

(* A step of the host that issues nothing.                                 *)
LEMMA SilentAhead ==
  ASSUME StreamInv, stream' = stream, batch' = batch, device' = device,
         \A d : Ahead(d) => Ahead(d)'
  PROVE  StreamInv'
  <1>1. PICK d : /\ d[1] = Now
                 /\ \A n \in 1 .. Len(stream) : d[n + 1] = Applied(stream[n], d[n])
                 /\ Ahead(d[Len(stream) + 1])
    BY DEF StreamInv
  <1>2. Now' = Now
    BY DEF device, Now
  <1>3. ASSUME NEW n \in 1 .. Len(stream') PROVE d[n + 1] = Applied(stream[n], d[n])'
    <2>1. Applied(stream[n], d[n])' = Applied(stream'[n], d[n])
      BY SameApplied
    <2> QED
      BY <1>1, <2>1
  <1>4. Ahead(d[Len(stream) + 1])'
    <2>1. PICK x : x = d[Len(stream) + 1]
      OBVIOUS
    <2>2. Ahead(x)' /\ d[Len(stream') + 1] = x
      BY <1>1, <2>1
    <2> QED
      BY <2>2
  <1> QED
    BY <1>1, <1>2, <1>3, <1>4 DEF StreamInv

(* The device catches up by one operation.                                 *)
LEMMA ExecutedAhead ==
  ASSUME stream \in Seq(Work), StreamInv, Execute, \A d : Ahead(d) => Ahead(d)'
  PROVE  StreamInv'
  <1>1. PICK d : /\ d[1] = Now
                 /\ \A n \in 1 .. Len(stream) : d[n + 1] = Applied(stream[n], d[n])
                 /\ Ahead(d[Len(stream) + 1])
    BY DEF StreamInv
  <1>2. stream # << >> /\ stream' = Tail(stream) /\ Effect(Head(stream)) /\ batch' = batch
    BY DEF Execute
  <1>3. /\ Len(stream') = Len(stream) - 1 /\ Len(stream) \in Nat \ {0}
        /\ \A n \in 1 .. Len(stream') : stream'[n] = stream[n + 1]
        /\ Head(stream) = stream[1] /\ stream[1] \in Work
    <2> HIDE DEF Work
    <2>1. Len(stream) \in Nat \ {0}
      BY <1>2, EmptySeq, LenProperties
    <2>2. stream[1] \in Work
      BY <2>1, ElementOfSeq
    <2> QED
      BY <1>2, <2>1, <2>2, HeadTailProperties
  <1>4. Now' = Applied(stream[1], Now)
    BY <1>2, <1>3, EffectApplies
  <1> DEFINE N == Len(stream)
  <1>5. PICK e : e = [n \in 1 .. N |-> d[n + 1]]
    OBVIOUS
  <1>6. e[1] = Now'
    BY <1>1, <1>3, <1>4, <1>5
  <1>7. ASSUME NEW n \in 1 .. Len(stream') PROVE e[n + 1] = Applied(stream[n], e[n])'
    <2>1. Applied(stream[n], e[n])' = Applied(stream'[n], e[n])
      BY <1>2, SameApplied
    <2>2. n \in 1 .. N /\ n + 1 \in 1 .. N
      BY <1>3
    <2>3. e[n] = d[n + 1] /\ e[n + 1] = d[n + 1 + 1] /\ stream'[n] = stream[n + 1]
      BY <1>3, <1>5, <2>2
    <2>4. d[n + 1 + 1] = Applied(stream[n + 1], d[n + 1])
      BY <1>1, <2>2
    <2> QED
      BY <2>1, <2>3, <2>4
  <1>8. Ahead(e[Len(stream) + 1])'
    <2>1. PICK x : x = d[N + 1]
      OBVIOUS
    <2>2. Ahead(x)'
      BY <1>1, <2>1
    <2>3. e[Len(stream') + 1] = x
      BY <1>3, <1>5, <2>1
    <2> QED
      BY <2>2, <2>3
  <1> QED
    BY <1>6, <1>7, <1>8 DEF StreamInv

(* A place of the output.                                                  *)
LEMMA PlaceFacts ==
  ASSUME batch \in Batches, NEW i \in OutIndex
  PROVE  i[1] \in Nat /\ i[2] \in Nat /\ i[2] \div group \in 0 .. batch.kv_heads - 1
  <1>1. batch.rows \in Nat
    BY BatchFacts DEF BatchTypes
  <1>2. /\ batch.heads \in Nat \ {0} /\ batch.kv_heads \in Nat \ {0} /\ group \in Nat \ {0}
        /\ group * batch.kv_heads = batch.heads
    BY GroupFacts
  <1>3. i[1] \in 0 .. batch.rows - 1 /\ i[2] \in 0 .. batch.heads - 1
    BY DEF OutIndex
  <1> HIDE DEF group
  <1>4. PICK h \in Nat : h = i[2] /\ h < batch.heads
    BY <1>2, <1>3
  <1> DEFINE v == batch.kv_heads
             x == h \div group
  <1>5. x \in Nat /\ x * group <= h
    BY <1>2, DivBounds
  <1>6. v \in Nat /\ v * group = batch.heads
    BY <1>2
  <1> HIDE DEF x, v
  <1>7. x * group < v * group
    BY <1>2, <1>4, <1>5, <1>6
  <1>8. x < v
    BY <1>2, <1>5, <1>6, <1>7, MultiplesReflectOrder
  <1> QED
    BY <1>1, <1>3, <1>4, <1>5, <1>6, <1>8 DEF x, v

(* A step of the host that issues and settles nothing.                     *)
LEMMA RestAhead ==
  ASSUME batch' = batch, pc \notin {"raised", "returned"}, pc' # "returned" \/ count # 0,
         NEW d, Ahead(d), NativeAhead(d)',
         \A i \in OutIndex : pc' # "raised" /\ Settled(i)' => Settled(i)
  PROVE  Ahead(d)'
  <1>1. OutIndex' = OutIndex /\ count' = count
    BY SameBatch
  <1>2. \A i : Expected(i)' = Expected(i)
    BY SameExpected
  <1>3. ASSUME pc' # "raised", NEW i \in OutIndex
        PROVE  /\ i[1] >= count => d.output[i] = IF count = 0 /\ pc' = "returned" THEN Zero ELSE Caller
               /\ Settled(i)' => d.output[i] = Expected(i)
    <2>1. /\ i[1] >= count => d.output[i] = IF count = 0 /\ pc = "returned" THEN Zero ELSE Caller
          /\ Settled(i) => d.output[i] = Expected(i)
      BY DEF Ahead, OutputAhead
    <2> QED
      BY <1>3, <2>1
  <1>4. OutputAhead(d)'
    BY <1>1, <1>2, <1>3 DEF OutputAhead
  <1> QED
    BY <1>4 DEF Ahead

(* The host decides.                                                       *)
LEMMA BuildAhead ==
  ASSUME HostInv, Build \/ BuildOverlay \/ Unsupported
  PROVE  \A d : Ahead(d) => Ahead(d)'
  <1> SUFFICES ASSUME NEW d, Ahead(d) PROVE Ahead(d)'
    OBVIOUS
  <1>1. /\ batch' = batch /\ pc \in {"build", "forward"} /\ pc' \in {"forward", "raised"}
    BY DEF Build, BuildOverlay, Unsupported, Jump
  <1>2. NativeAhead(d)'
    BY <1>1 DEF NativeAhead, Native
  <1>3. \A i \in OutIndex : Settled(i)' => Settled(i)
    BY <1>1 DEF Settled, Native
  <1> QED
    BY <1>1, <1>2, <1>3, RestAhead

(* The native route begins.                                                *)
LEMMA StartNativeAhead ==
  ASSUME HostInv, StartNative
  PROVE  \A d : Ahead(d) => Ahead(d)'
  <1> SUFFICES ASSUME NEW d, Ahead(d) PROVE Ahead(d)'
    OBVIOUS
  <1>1. /\ batch' = batch /\ pc = "forward" /\ pc' \in {"gather", "raised"}
        /\ head' = 0 /\ chunk' = 1
    BY DEF StartNative, Jump
  <1>2. NativeAhead(d)'
    BY <1>1 DEF NativeAhead, Native
  <1>3. ASSUME NEW i \in OutIndex, pc' # "raised", Settled(i)' PROVE FALSE
    <2>1. i[2] \div group \in 0 .. batch.kv_heads - 1
      BY PlaceFacts DEF HostInv
    <2>2. group' = group
      BY <1>1, SameBatch
    <2>3. i[2] \div group < 0
      BY <1>1, <1>3, <2>2 DEF Settled, Native
    <2> QED
      BY <2>1, <2>3
  <1> QED
    BY <1>1, <1>2, <1>3, RestAhead

(* The paged route begins, at the first token.                             *)
LEMMA EnterAhead ==
  ASSUME HostInv, StartPagedBatch \/ OutOfMemory
  PROVE  \A d : Ahead(d) => Ahead(d)'
  <1> SUFFICES ASSUME NEW d, Ahead(d) PROVE Ahead(d)'
    OBVIOUS
  <1>1. batch \in Batches
    BY DEF HostInv
  <1>2. batch' = batch /\ pc \in {"forward", "gather", "attend"} /\ pc' = "paged"
    BY DEF StartPagedBatch, OutOfMemory, Jump
  <1>3. start' = 0
    <2>1. CASE StartPagedBatch
      <3>1. pc = "forward" /\ TakesPagedBatch /\ start' = prefill_query_starts[1]
        BY <2>1 DEF StartPagedBatch, EnterPaged, Jump
      <3>2. prefill_query_starts = BuiltStarts /\ prefill_query_starts # << >>
        BY <3>1 DEF HostInv, BuildInv, TakesPagedBatch
      <3>3. prefill_query_starts = QueryStarts
        BY <3>2 DEF BuiltStarts
      <3> QED
        BY <1>1, <3>1, <3>3, StartsFacts
    <2>2. CASE OutOfMemory
      BY <2>2 DEF OutOfMemory, EnterPaged
    <2> QED
      BY <2>1, <2>2
  <1>4. NativeAhead(d)'
    BY <1>2 DEF NativeAhead, Native
  <1>5. ASSUME NEW i \in OutIndex, Settled(i)' PROVE FALSE
    <2>1. i[1] \in Nat
      BY <1>1, PlaceFacts
    <2>2. i[1] < 0
      BY <1>2, <1>3, <1>5 DEF Settled, Native
    <2> QED
      BY <2>1, <2>2
  <1> QED
    BY <1>2, <1>4, <1>5, RestAhead

(* The next request, or the end of the last one.                           *)
LEMMA NextRowAhead ==
  ASSUME HostInv, PagedNextRow
  PROVE  \A d : Ahead(d) => Ahead(d)'
  <1> SUFFICES ASSUME NEW d, Ahead(d) PROVE Ahead(d)'
    OBVIOUS
  <1>1. /\ pc = "paged" /\ row < Len(paged.starts) /\ start >= PagedEnd
        /\ pc' = (IF row + 2 > Len(paged.starts) THEN "returned" ELSE "paged")
        /\ start' = start /\ batch' = batch
    BY DEF PagedNextRow, Jump
  <1>2. batch \in Batches
    BY DEF HostInv
  <1>3. /\ paged.starts = QueryStarts /\ row \in Requests /\ count # 0
    BY <1>1 DEF HostInv, PagedInv
  <1>4. /\ num_reqs \in Nat /\ Requests = 1 .. num_reqs /\ Len(QueryStarts) = num_reqs + 1
        /\ count \in Nat /\ count = QueryStarts[num_reqs + 1]
    BY <1>2, BatchFacts, StartsSeq, StartsFacts DEF Requests
  <1>5. PagedEnd = QueryStarts[row + 1] /\ count' = count
    BY <1>1, <1>3, SameBatch DEF PagedEnd
  <1>6. NativeAhead(d)'
    BY <1>1 DEF NativeAhead, Native
  <1>7. ASSUME NEW i \in OutIndex, Settled(i)' PROVE Settled(i)
    <2>1. i[1] \in Nat /\ i[1] < count
      BY <1>2, <1>5, <1>7, PlaceFacts DEF Settled
    <2>2. i[1] < start
      <3>1. CASE pc' = "paged"
        BY <1>1, <1>7, <3>1 DEF Settled, Native
      <3>2. CASE pc' # "paged"
        <4> HIDE DEF num_reqs, Requests, QueryStarts, count, PagedEnd
        <4>1. row + 1 = num_reqs + 1
          BY <1>1, <1>3, <1>4, <3>2
        <4>2. start >= count
          BY <1>1, <1>4, <1>5, <4>1
        <4>3. start \in Int
          <5>1. start \in QueryStarts[row] .. QueryStarts[row + 1]
            BY <1>1 DEF HostInv, PagedInv
          <5> QED
            BY <5>1
        <4> QED
          BY <1>4, <2>1, <4>2, <4>3
      <3> QED
        BY <3>1, <3>2
    <2> QED
      BY <1>1, <2>1, <2>2 DEF Settled
  <1> QED
    BY <1>1, <1>3, <1>6, <1>7, RestAhead

(* A step of the host whose work reaches the output.                       *)
LEMMA WorkAhead ==
  ASSUME batch' = batch, NEW e, NativeAhead(e)',
         \A i \in OutIndex :
           /\ i[1] >= count => e.output[i] = IF count = 0 /\ pc' = "returned" THEN Zero ELSE Caller
           /\ Settled(i)' => e.output[i] = Expected(i)
  PROVE  Ahead(e)'
  <1>1. OutIndex' = OutIndex /\ count' = count
    BY SameBatch
  <1>2. \A i : Expected(i)' = Expected(i)
    BY SameExpected
  <1>3. OutputAhead(e)'
    BY <1>1, <1>2 DEF OutputAhead
  <1> QED
    BY <1>3 DEF Ahead

(* A batch without tokens.                                                 *)
LEMMA FillAhead ==
  ASSUME HostInv, FillZero, NEW o, o = [op |-> "fill"]
  PROVE  \A d, e : Ahead(d) /\ e = Applied(o, d) => Ahead(e)'
  <1> SUFFICES ASSUME NEW d, NEW e, Ahead(d), e = Applied(o, d) PROVE Ahead(e)'
    OBVIOUS
  <1>1. batch' = batch /\ pc' = "returned" /\ count = 0
    BY DEF FillZero, Jump
  <1>2. e.output = [i \in OutIndex |-> Place(o, d, i)]
    BY DEF Applied
  <1>3. \A i \in OutIndex : Place(o, d, i) = Zero
    BY DEF Place
  <1>4. \A i \in OutIndex : e.output[i] = Zero
    BY <1>2, <1>3
  <1>5. ASSUME NEW i \in OutIndex, Settled(i)' PROVE FALSE
    <2>1. i[1] \in Nat
      BY PlaceFacts DEF HostInv
    <2>2. i[1] < 0
      BY <1>1, <1>5, SameBatch DEF Settled
    <2> QED
      BY <2>1, <2>2
  <1>6. NativeAhead(e)'
    BY <1>1 DEF NativeAhead, Native
  <1> QED
    BY <1>1, <1>4, <1>5, <1>6, WorkAhead

(* A forward call writes its tokens.                                       *)
LEMMA ForwardPlace ==
  ASSUME NEW o, o.op = "forward", NEW d, NEW e, e = Applied(o, d), NEW i \in OutIndex
  PROVE  e.output[i] = IF Written(o, i[1]) THEN Promised(o, i[1], i[2]) ELSE d.output[i]
  <1>1. e.output = [j \in OutIndex |-> Place(o, d, j)]
    BY DEF Applied
  <1>2. Place(o, d, i) = IF Written(o, i[1]) THEN Promised(o, i[1], i[2]) ELSE d.output[i]
    BY DEF Place
  <1> QED
    BY <1>1, <1>2

(* One call for the whole batch.                                           *)
LEMMA DirectAhead ==
  ASSUME HostInv, batch' = batch, pc = "forward", pc' = "returned", count # 0,
         NEW c \in {DirectCall, OverlayCall}, Accepted(c),
         NEW o, o = Operator(c, 0, QueryStarts, batch.k, [b \in Requests |-> b])
  PROVE  \A d, e : Ahead(d) /\ e = Applied(o, d) => Ahead(e)'
  <1> SUFFICES ASSUME NEW d, NEW e, Ahead(d), e = Applied(o, d) PROVE Ahead(e)'
    OBVIOUS
  <1>1. batch \in Batches
    BY DEF HostInv
  <1>2. o.op = "forward" /\ o.first = 0 /\ o.cu_q = QueryStarts
    BY DEF Operator
  <1>3. /\ QueryStarts[1] = 0 /\ QueryStarts[Len(QueryStarts)] = count /\ count \in Nat
    BY <1>1, StartsFacts, StartsSeq
  <1>4. ASSUME NEW i \in OutIndex
        PROVE  /\ i[1] < count => e.output[i] = Expected(i)
               /\ i[1] >= count => e.output[i] = Caller
    <2>1. i[1] \in Nat
      BY <1>1, PlaceFacts
    <2>2. Written(o, i[1]) <=> i[1] < count
      <3>1. i[1] - 0 = i[1] /\ 0 <= i[1]
        BY <2>1
      <3> HIDE DEF QueryStarts, count
      <3> QED
        BY <1>2, <1>3, <3>1 DEF Written
    <2>3. CASE i[1] < count
      <3>1. i[1] \in 0 .. count - 1
        BY <1>3, <2>1, <2>3
      <3>2. Promised(o, i[1], i[2]) = Expected(i)
        <4> HIDE DEF DirectCall, OverlayCall, count
        <4> QED
          BY <1>1, <3>1, WholeBatchPromise
      <3>3. e.output[i] = Promised(o, i[1], i[2])
        BY <1>2, <2>2, <2>3, ForwardPlace
      <3> QED
        BY <1>3, <2>1, <2>3, <3>2, <3>3
    <2>4. CASE ~ (i[1] < count)
      <3>1. e.output[i] = d.output[i]
        BY <1>2, <2>2, <2>4, ForwardPlace
      <3>2. i[1] >= count
        BY <1>3, <2>1, <2>4
      <3>3. d.output[i] = Caller
        BY <3>2 DEF Ahead, OutputAhead
      <3> QED
        BY <2>4, <3>1, <3>3
    <2> QED
      BY <2>3, <2>4
  <1>5. NativeAhead(e)'
    BY DEF NativeAhead, Native
  <1>6. \A i \in OutIndex : Settled(i)' => i[1] < count
    BY SameBatch DEF Settled
  <1> QED
    BY <1>4, <1>5, <1>6, WorkAhead

(* A chunk of queries of the paged route.                                  *)
LEMMA PagedChunkAhead ==
  ASSUME HostInv, PagedChunk,
         NEW o, o = Operator(PagedChunkCall, start, <<0, QueryChunk>>, <<PagedLength>>, <<row>>)
  PROVE  \A d, e : Ahead(d) /\ e = Applied(o, d) => Ahead(e)'
  <1> SUFFICES ASSUME NEW d, NEW e, Ahead(d), e = Applied(o, d) PROVE Ahead(e)'
    OBVIOUS
  <1>1. /\ pc = "paged" /\ start < PagedEnd /\ start' = start + QueryChunk /\ batch' = batch
        /\ pc' \in {"paged", "raised"}
    BY DEF PagedChunk, Jump
  <1>2. batch \in Batches /\ PagedInv /\ count # 0
    BY <1>1 DEF HostInv, PagedInv
  <1>3. o.op = "forward" /\ o.first = start /\ o.cu_q = <<0, QueryChunk>>
    BY DEF Operator
  <1>4. count \in Nat /\ QueryTokens \in Nat /\ start \in Nat /\ QueryChunk \in Nat
        /\ start + QueryChunk <= count
    <2>1. /\ QueryChunk \in 1 .. QueryTokens /\ start + QueryChunk <= QueryStarts[row + 1]
          /\ QueryStarts[row + 1] \in 0 .. count /\ start \in Nat
      BY <1>1, <1>2, ChunkGeometry
    <2>2. count \in Nat /\ QueryTokens \in Nat
      BY <1>2, StartsFacts, BackendAssumption
    <2> HIDE DEF count, QueryStarts, QueryChunk
    <2>3. QueryChunk \in Nat
      BY <2>1, <2>2
    <2> QED
      BY <2>1, <2>2, <2>3
  <1>5. ASSUME NEW i \in OutIndex
        PROVE  /\ i[1] < start + QueryChunk => e.output[i] = Expected(i)
               /\ i[1] >= count => e.output[i] = Caller
    <2>1. i[1] \in Nat
      BY <1>2, PlaceFacts
    <2> HIDE DEF QueryChunk, count, PagedLength, PagedChunkCall
    <2>2. Written(o, i[1]) <=> start <= i[1] /\ i[1] < start + QueryChunk
      <3>1. o.cu_q[1] = 0 /\ Len(o.cu_q) = 2 /\ o.cu_q[2] = QueryChunk
        BY <1>3
      <3>2. Written(o, i[1]) <=> 0 <= i[1] - start /\ i[1] - start < QueryChunk
        BY <1>3, <3>1 DEF Written
      <3>3. PICK t \in Nat : t = i[1]
        BY <2>1
      <3> QED
        BY <1>4, <3>2, <3>3
    <2>3. CASE start <= i[1] /\ i[1] < start + QueryChunk
      <3>1. i[1] \in start .. start + QueryChunk - 1
        BY <1>4, <2>1, <2>3
      <3>2. Promised(o, i[1], i[2]) = Expected(i)
        BY <1>1, <1>2, <3>1, ChunkPromise
      <3>3. e.output[i] = Promised(o, i[1], i[2])
        BY <1>3, <2>2, <2>3, ForwardPlace
      <3>4. ~ (i[1] >= count)
        BY <1>4, <2>1, <2>3
      <3> QED
        BY <3>2, <3>3, <3>4
    <2>4. CASE ~ (start <= i[1] /\ i[1] < start + QueryChunk)
      <3>1. e.output[i] = d.output[i]
        BY <1>3, <2>2, <2>4, ForwardPlace
      <3>2. i[1] >= count => d.output[i] = Caller
        BY <1>1 DEF Ahead, OutputAhead
      <3>3. ASSUME i[1] < start + QueryChunk PROVE d.output[i] = Expected(i)
        <4>1. i[1] < start /\ i[1] < count
          BY <1>4, <2>1, <2>4, <3>3
        <4>2. Settled(i)
          BY <1>1, <4>1 DEF Settled
        <4> QED
          BY <1>1, <4>2 DEF Ahead, OutputAhead
      <3> QED
        BY <3>1, <3>2, <3>3
    <2> QED
      BY <2>3, <2>4
  <1>6. NativeAhead(e)'
    BY <1>1 DEF NativeAhead, Native
  <1>7. ASSUME NEW i \in OutIndex, Settled(i)' PROVE e.output[i] = Expected(i)
    <2>1. CASE pc' = "paged"
      <3>1. i[1] < start'
        BY <1>7, <2>1 DEF Settled, Native
      <3> HIDE DEF QueryChunk
      <3> QED
        BY <1>1, <1>5, <3>1
    <2>2. CASE pc' = "raised"
      BY <1>7, <2>2 DEF Settled, Native
    <2> QED
      BY <1>1, <2>1, <2>2
  <1>8. \A i \in OutIndex : i[1] >= count => e.output[i] = IF count = 0 /\ pc' = "returned" THEN Zero ELSE Caller
    <2> HIDE DEF QueryChunk
    <2> QED
      BY <1>1, <1>5
  <1> QED
    BY <1>1, <1>6, <1>7, <1>8, WorkAhead

(* What has been folded is a matter of the batch and its metadata.         *)
LEMMA SameFolded ==
  ASSUME batch' = batch, metadata' = metadata
  PROVE  \A t, c : Folded(t, c)' = Folded(t, c)
  <1>1. Chunks' = Chunks
    BY SameMetadata
  <1>2. \A b, i : ExpectedKeys(b, i)' = ExpectedKeys(b, i)
    BY SameExpected
  <1> HIDE DEF Chunks
  <1> QED
    BY <1>1, <1>2 DEF Folded

(* A step of the native route that stays with its head and leaves the      *)
(* output alone.                                                           *)
LEMMA NativeOutputAhead ==
  ASSUME HostInv, Native, Native', batch' = batch, head' = head,
         NEW d, NEW e, Ahead(d), e.output = d.output, NativeAhead(e)'
  PROVE  Ahead(e)'
  <1>1. count' = count /\ group' = group
    BY SameBatch
  <1>2. pc # "raised" /\ pc # "returned" /\ pc' # "returned" /\ pc' # "paged" /\ pc # "paged"
    BY DEF Native
  <1>3. ASSUME NEW i \in OutIndex, Settled(i)' PROVE Settled(i)
    BY <1>1, <1>2, <1>3 DEF Settled
  <1>4. ASSUME NEW i \in OutIndex
        PROVE  /\ i[1] >= count => e.output[i] = IF count = 0 /\ pc' = "returned" THEN Zero ELSE Caller
               /\ Settled(i)' => e.output[i] = Expected(i)
    <2>1. /\ i[1] >= count => d.output[i] = Caller
          /\ Settled(i) => d.output[i] = Expected(i)
      BY <1>2 DEF Ahead, OutputAhead
    <2> QED
      BY <1>2, <1>3, <2>1
  <1> QED
    BY <1>4, WorkAhead

(* A chunk is unpacked.                                                    *)
LEMMA GatherAhead ==
  ASSUME HostInv, Gather, pc' = "attend",
         NEW o, o = [op |-> "gather", kv |-> head, start |-> Chunks[chunk].start, length |-> Chunks[chunk].length]
  PROVE  \A d, e : Ahead(d) /\ e = Applied(o, d) => Ahead(e)'
  <1> SUFFICES ASSUME NEW d, NEW e, Ahead(d), e = Applied(o, d) PROVE Ahead(e)'
    OBVIOUS
  <1>1. /\ pc = "gather" /\ batch' = batch /\ metadata' = metadata /\ head' = head /\ chunk' = chunk
    BY DEF Gather, Jump, native
  <1>2. Native /\ Native'
    BY <1>1 DEF Native
  <1>3. count' = count /\ Chunks' = Chunks
    BY <1>1, SameBatch, SameMetadata
  <1>4. \A t, c : Folded(t, c)' = Folded(t, c)
    BY <1>1, SameFolded
  <1>5. /\ e.unpacked = [kv |-> head, start |-> Chunks[chunk].start, length |-> Chunks[chunk].length]
        /\ e.accumulated = d.accumulated /\ e.output = d.output
    <2> HIDE DEF Chunks
    <2> QED
      BY DEF Applied
  <1>6. NativeAhead(e)'
    <2> HIDE DEF Chunks, count
    <2>1. chunk > 1 => \A t \in 0 .. count - 1 : d.accumulated[t] = Value(1, head, Folded(t, chunk))
      BY <1>2 DEF Ahead, NativeAhead
    <2> QED
      BY <1>1, <1>3, <1>4, <1>5, <2>1 DEF NativeAhead
  <1> QED
    BY <1>1, <1>2, <1>5, <1>6, NativeOutputAhead

(* The keys a row of queries sees of the unpacked ones.                    *)
LEMMA RowKeys ==
  ASSUME NEW u, u.start \in Nat, u.length \in Nat, NEW t \in Nat, NEW causal, NEW m \in Nat,
         causal => m = t + 1 /\ u.length = count /\ t < count, ~ causal => m = u.length
  PROVE  RowOf(u, t, causal) = Value(1, u.kv, u.start .. u.start + m - 1)
  <1> DEFINE J == { j \in 0 .. u.length - 1 : causal => j <= t + u.length - count }
  <1> HIDE DEF count
  <1>1. J = 0 .. m - 1
    <2>1. CASE causal
      <3>1. t + u.length - count = t
        BY <2>1
      <3> QED
        BY <2>1, <3>1
    <2>2. CASE ~ causal
      BY <2>2
    <2> QED
      BY <2>1, <2>2
  <1>2. { u.start + j : j \in 0 .. m - 1 } = u.start .. u.start + m - 1
    <2>1. ASSUME NEW k \in u.start .. u.start + m - 1 PROVE k \in { u.start + j : j \in 0 .. m - 1 }
      <3>1. k - u.start \in 0 .. m - 1 /\ k = u.start + (k - u.start)
        OBVIOUS
      <3> QED
        BY <3>1
    <2>2. \A j \in 0 .. m - 1 : u.start + j \in u.start .. u.start + m - 1
      OBVIOUS
    <2> QED
      BY <2>1, <2>2
  <1>3. RowOf(u, t, causal) = Value(1, u.kv, { u.start + j : j \in J })
    BY DEF RowOf
  <1> HIDE DEF J
  <1> QED
    BY <1>1, <1>2, <1>3

(* Results over disjoint keys add up.                                      *)
LEMMA MergeRows ==
  ASSUME NEW h, NEW s \in Nat, NEW x \in Int, s <= x + 1
  PROVE  Merge(Value(1, h, 0 .. s - 1), Value(1, h, s .. x)) = Value(1, h, 0 .. x)
  <1> DEFINE a == Value(1, h, 0 .. s - 1)
             b == Value(1, h, s .. x)
  <1>1. a = [kind |-> "mean", seq |-> 1, kv |-> h, keys |-> 0 .. s - 1]
    BY DEF Value
  <1>2. b.kv = h /\ b.keys = s .. x
    BY DEF Value
  <1> HIDE DEF a, b
  <1>3. a.kind = "mean" /\ a.kv = h /\ a.keys = 0 .. s - 1
    BY <1>1
  <1>4. (0 .. s - 1) \cap (s .. x) = {} /\ (0 .. s - 1) \cup (s .. x) = 0 .. x
    OBVIOUS
  <1>5. Merge(a, b) = [a EXCEPT !.keys = a.keys \cup b.keys]
    BY <1>2, <1>3, <1>4 DEF Merge
  <1>6. [a EXCEPT !.keys = 0 .. x] = [kind |-> "mean", seq |-> 1, kv |-> h, keys |-> 0 .. x]
    BY <1>1
  <1>7. Merge(a, b) = Value(1, h, 0 .. x)
    BY <1>2, <1>3, <1>4, <1>5, <1>6 DEF Value
  <1> QED
    BY <1>7 DEF a, b

(* What a chunk adds to a row.                                             *)
LEMMA ChunkAdds ==
  ASSUME HostInv, pc = "attend", NEW c, c = Chunks[chunk], NEW u,
         u = [kv |-> head, start |-> c.start, length |-> c.length], NEW t \in 0 .. count - 1
  PROVE  /\ c.start \in Nat
         /\ \E x \in Int : /\ c.start <= x + 1
                           /\ RowOf(u, t, c.causal) = Value(1, head, c.start .. x)
                           /\ Folded(t, chunk + 1) = 0 .. x
  <1> DEFINE P == prefill_context
             N == Len(Chunks)
  <1>1. /\ batch \in Batches /\ FullCausal /\ P = batch.k[1] /\ count = batch.q[1]
        /\ count \in 1 .. P /\ P \in Nat
    <2>1. Native
      BY DEF Native
    <2> QED
      BY <2>1, NativeState
  <1>2. chunk \in 1 .. N /\ N \in Nat \ {0} /\ c.start \in Nat /\ c.length \in Nat \ {0}
        /\ c \in [start : Nat, length : Nat, causal : BOOLEAN]
    BY ChunkAtHand
  <1>3. /\ c.causal <=> chunk = N
        /\ chunk = N => c.start = P - count /\ c.length = count
        /\ chunk # N => Chunks[chunk + 1].start = c.start + c.length
    BY <1>1, <1>2, ChunksFacts
  <1>4. u.kv = head /\ u.start = c.start /\ u.length = c.length
    OBVIOUS
  <1>5. t \in Nat /\ t < count /\ count \in Nat
    <2> HIDE DEF count
    <2> QED
      BY <1>1
  <1>6. CASE chunk = N
    <2>1. RowOf(u, t, c.causal) = Value(1, head, c.start .. c.start + t)
      <3>1. c.causal /\ t + 1 \in Nat /\ u.length = count
        BY <1>3, <1>4, <1>5, <1>6
      <3>2. RowOf(u, t, c.causal) = Value(1, u.kv, u.start .. u.start + (t + 1) - 1)
        <4> HIDE DEF count, P, N
        <4>1. u.start \in Nat /\ u.length \in Nat
          BY <1>2, <1>4
        <4>2. PICK m \in Nat : m = t + 1
          BY <3>1
        <4>3. (c.causal => m = t + 1 /\ u.length = count /\ t < count) /\ (~ c.causal => m = u.length)
          BY <1>5, <3>1, <4>2
        <4>4. RowOf(u, t, c.causal) = Value(1, u.kv, u.start .. u.start + m - 1)
          BY ONLY <1>5, <4>1, <4>3, RowKeys
        <4> QED
          BY <4>2, <4>4
      <3>3. u.start + (t + 1) - 1 = c.start + t
        BY <1>2, <1>4, <1>5
      <3> QED
        BY <1>4, <3>2, <3>3
    <2>2. Folded(t, chunk + 1) = ExpectedKeys(1, t)
      <3>1. chunk + 1 > Len(Chunks)
        BY <1>2, <1>6
      <3> QED
        BY <3>1 DEF Folded
    <2>3. ExpectedKeys(1, t) = 0 .. c.start + t
      <3>1. batch.causal /\ batch.window_left = -1
        BY <1>1 DEF FullCausal
      <3>2. t + batch.k[1] - batch.q[1] = c.start + t
        <4>1. batch.k[1] = P /\ batch.q[1] = count /\ c.start = P - count /\ P \in Nat
          BY <1>1, <1>3, <1>6
        <4> HIDE DEF count, P, N
        <4> QED
          BY <1>5, <4>1
      <3>3. ExpectedKeys(1, t) = { k \in 0 .. P - 1 : k <= c.start + t }
        <4> HIDE DEF count, P, N
        <4> QED
          BY <1>1, <3>1, <3>2 DEF ExpectedKeys
      <3>4. c.start = P - count
        BY <1>3, <1>6
      <3>5. P \in Nat
        BY <1>1
      <3> HIDE DEF P, count
      <3>6. c.start + t <= P - 1
        BY <1>5, <3>4, <3>5
      <3>7. c.start + t \in Nat
        BY <1>2, <1>5
      <3>8. { k \in 0 .. P - 1 : k <= c.start + t } = 0 .. c.start + t
        BY ONLY <3>5, <3>6, <3>7
      <3> QED
        BY <3>3, <3>8
    <2>4. c.start + t \in Int /\ c.start <= c.start + t + 1
      BY <1>2, <1>5
    <2> QED
      BY <1>2, <2>1, <2>2, <2>3, <2>4
  <1>7. CASE chunk # N
    <2>1. RowOf(u, t, c.causal) = Value(1, head, c.start .. c.start + c.length - 1)
      <3>1. ~ c.causal /\ c.length \in Nat
        BY <1>2, <1>3, <1>7
      <3>2. RowOf(u, t, c.causal) = Value(1, u.kv, u.start .. u.start + c.length - 1)
        <4> HIDE DEF count, P, N
        <4> QED
          BY <1>2, <1>4, <1>5, <3>1, RowKeys
      <3> QED
        BY <1>4, <3>2
    <2>2. Folded(t, chunk + 1) = 0 .. c.start + c.length - 1
      <3>1. ~ (chunk + 1 > Len(Chunks))
        BY <1>2, <1>7
      <3>2. Folded(t, chunk + 1) = 0 .. Chunks[chunk + 1].start - 1
        BY <3>1 DEF Folded
      <3>3. Chunks[chunk + 1].start = c.start + c.length
        BY <1>3, <1>7
      <3> QED
        BY ONLY <1>2, <3>2, <3>3
    <2>3. c.start + c.length - 1 \in Int /\ c.start <= c.start + c.length - 1 + 1
      BY <1>2
    <2> QED
      BY <1>2, <2>1, <2>2, <2>3
  <1> QED
    BY <1>6, <1>7

(* Attention over a chunk folds it into every row.                         *)
LEMMA AttendAhead ==
  ASSUME HostInv, Attend,
         NEW o, o = [op |-> "attend", causal |-> Chunks[chunk].causal, first |-> Chunks[chunk].start = 0]
  PROVE  \A d, e : Ahead(d) /\ e = Applied(o, d) => Ahead(e)'
  <1> SUFFICES ASSUME NEW d, NEW e, Ahead(d), e = Applied(o, d) PROVE Ahead(e)'
    OBVIOUS
  <1> DEFINE c == Chunks[chunk]
  <1>1. /\ pc = "attend" /\ pc' \in {"copy", "gather"} /\ chunk' = chunk + 1
        /\ batch' = batch /\ metadata' = metadata /\ head' = head
    BY DEF Attend, Jump
  <1>2. Native /\ Native'
    BY <1>1 DEF Native
  <1>3. count' = count /\ \A t, x : Folded(t, x)' = Folded(t, x)
    BY <1>1, SameBatch, SameFolded
  <1>4. /\ chunk \in 1 .. Len(Chunks) /\ Len(Chunks) \in Nat \ {0} /\ c.start \in Nat
        /\ c.start = 0 <=> chunk = 1
    <2>1. prefill_context \in Nat /\ count \in 1 .. prefill_context
      BY <1>2, NativeState
    <2>2. chunk \in 1 .. Len(Chunks) /\ Len(Chunks) \in Nat \ {0} /\ c.start \in Nat
      BY <1>1, ChunkAtHand
    <2> QED
      BY <2>1, <2>2, ChunksFacts
  <1>5. o.op = "attend" /\ o.causal = c.causal /\ (o.first <=> chunk = 1)
    BY <1>4
  <1>6. d.unpacked = [kv |-> head, start |-> c.start, length |-> c.length]
    BY <1>1 DEF Ahead, NativeAhead
  <1> DEFINE added(i) == RowOf(d.unpacked, i, o.causal)
  <1>7. /\ e.output = d.output
        /\ e.accumulated = [i \in 0 .. count - 1 |-> IF o.first THEN added(i) ELSE Merge(d.accumulated[i], added(i))]
    BY <1>5 DEF Applied
  <1>8. ASSUME NEW t \in 0 .. count - 1
        PROVE  e.accumulated[t] = Value(1, head, Folded(t, chunk + 1))
    <2> HIDE DEF count
    <2>1. PICK x \in Int : /\ c.start <= x + 1
                           /\ added(t) = Value(1, head, c.start .. x)
                           /\ Folded(t, chunk + 1) = 0 .. x
      BY <1>1, <1>5, <1>6, ChunkAdds
    <2>2. e.accumulated[t] = IF o.first THEN added(t) ELSE Merge(d.accumulated[t], added(t))
      BY <1>7
    <2> HIDE DEF added, c
    <2>3. CASE chunk = 1
      <3>1. c.start = 0 /\ o.first
        BY <1>4, <1>5, <2>3
      <3> QED
        BY <2>1, <2>2, <3>1
    <2>4. CASE chunk # 1
      <3>1. d.accumulated[t] = Value(1, head, Folded(t, chunk))
        <4>1. chunk > 1
          BY <1>4, <2>4
        <4> QED
          BY <1>2, <4>1 DEF Ahead, NativeAhead
      <3>2. Folded(t, chunk) = 0 .. c.start - 1
        <4>1. ~ (chunk > Len(Chunks))
          BY <1>4
        <4> QED
          BY <4>1 DEF Folded, c
      <3>3. Merge(d.accumulated[t], added(t)) = Value(1, head, 0 .. x)
        BY <1>4, <2>1, <3>1, <3>2, MergeRows
      <3> QED
        BY <1>5, <2>1, <2>2, <2>4, <3>3
    <2> QED
      BY <2>3, <2>4
  <1>9. NativeAhead(e)'
    <2> HIDE DEF count, c
    <2> QED
      BY <1>1, <1>3, <1>8 DEF NativeAhead
  <1> QED
    BY <1>1, <1>2, <1>7, <1>9, NativeOutputAhead

(* A KV head is complete: its rows of the output are attention.            *)
LEMMA CopyAhead ==
  ASSUME HostInv, CopyHead, NEW o, o = [op |-> "copy", kv |-> head]
  PROVE  \A d, e : Ahead(d) /\ e = Applied(o, d) => Ahead(e)'
  <1> SUFFICES ASSUME NEW d, NEW e, Ahead(d), e = Applied(o, d) PROVE Ahead(e)'
    OBVIOUS
  <1>1. /\ pc = "copy" /\ pc' = (IF head + 1 = batch.kv_heads THEN "returned" ELSE "gather")
        /\ head' = head + 1 /\ chunk' = 1 /\ batch' = batch
    BY DEF CopyHead, Jump
  <1>2. Native /\ batch \in Batches
    BY <1>1 DEF Native, HostInv
  <1>3. /\ head \in 0 .. batch.kv_heads - 1 /\ chunk = Len(Chunks) + 1 /\ Len(Chunks) \in Nat \ {0}
        /\ batch.kv_heads \in Nat \ {0}
    BY <1>1, <1>2, NativeState, GroupFacts DEF HostInv, NativeInv
  <1>4. /\ count' = count /\ group' = group /\ count \in Nat \ {0} /\ prefill_context \in Nat
        /\ Requests = {1} /\ num_reqs = 1
    <2>1. count' = count /\ group' = group
      BY <1>1, SameBatch
    <2>2. count \in 1 .. prefill_context /\ prefill_context \in Nat /\ Requests = {1} /\ num_reqs = 1
      BY <1>2, NativeState
    <2> HIDE DEF count
    <2> QED
      BY <2>1, <2>2
  <1>5. QueryStarts[1] = 0 /\ QueryStarts[2] = count
    BY <1>2, <1>4, StartsFacts
  <1>6. ASSUME NEW t \in 0 .. count - 1 PROVE d.accumulated[t] = Value(1, head, ExpectedKeys(1, t))
    <2>1. chunk > 1 /\ chunk > Len(Chunks)
      BY <1>3
    <2>2. d.accumulated[t] = Value(1, head, Folded(t, chunk))
      BY <1>2, <2>1 DEF Ahead, NativeAhead
    <2> QED
      BY <2>1, <2>2 DEF Folded
  <1>7. ASSUME NEW i \in OutIndex
        PROVE  /\ i[1] >= count => e.output[i] = Caller
               /\ i[1] < count /\ i[2] \div group <= head => e.output[i] = Expected(i)
    <2>1. i[1] \in Nat /\ i[2] \div group \in Nat
      <3>1. i[1] \in Nat /\ i[2] \div group \in 0 .. batch.kv_heads - 1
        BY <1>2, PlaceFacts
      <3> QED
        BY <1>3, <3>1
    <2>2. e.output[i] = IF i[1] < count /\ i[2] \div group = head THEN d.accumulated[i[1]] ELSE d.output[i]
      <3>1. e.output = [j \in OutIndex |-> Place(o, d, j)]
        BY DEF Applied
      <3>2. Place(o, d, i) = IF i[1] < count /\ i[2] \div group = head THEN d.accumulated[i[1]] ELSE d.output[i]
        BY DEF Place
      <3> QED
        BY <3>1, <3>2
    <2>3. /\ i[1] >= count => d.output[i] = Caller
          /\ i[1] < count /\ i[2] \div group < head => d.output[i] = Expected(i)
      BY <1>1, <1>2 DEF Ahead, OutputAhead, Settled
    <2>4. ASSUME i[1] < count, i[2] \div group = head PROVE d.accumulated[i[1]] = Expected(i)
      <3>1. i[1] \in 0 .. count - 1 /\ i[1] - QueryStarts[1] = i[1]
        <4> HIDE DEF count, QueryStarts
        <4> QED
          BY <1>4, <1>5, <2>1, <2>4
      <3>2. Owner(i[1]) = 1
        <4>1. 1 \in Requests /\ QueryStarts[1] <= i[1] /\ i[1] < QueryStarts[1 + 1]
          <5> HIDE DEF count, QueryStarts
          <5> QED
            BY <1>4, <1>5, <2>1, <2>4
        <4> QED
          BY <1>2, <2>1, <4>1, OwnerIs
      <3>3. Expected(i) = Value(1, i[2] \div group, ExpectedKeys(1, i[1]))
        BY <3>1, <3>2 DEF Expected
      <3>4. d.accumulated[i[1]] = Value(1, head, ExpectedKeys(1, i[1]))
        BY <1>6, <3>1
      <3> QED
        BY <2>4, <3>3, <3>4
    <2> HIDE DEF count, group
    <2>5. i[1] < count <=> ~ (i[1] >= count)
      BY <1>4, <2>1
    <2>6. i[2] \div group <= head => i[2] \div group < head \/ i[2] \div group = head
      BY <1>3, <2>1
    <2> QED
      BY <2>2, <2>3, <2>4, <2>5, <2>6
  <1>8. ASSUME NEW i \in OutIndex, Settled(i)' PROVE e.output[i] = Expected(i)
    <2>1. i[2] \div group \in 0 .. batch.kv_heads - 1
      BY <1>2, PlaceFacts
    <2>2. i[1] < count
      BY <1>4, <1>8 DEF Settled
    <2>3. CASE pc' = "returned"
      <3>1. head + 1 = batch.kv_heads
        BY <1>1, <2>3
      <3> HIDE DEF group, count
      <3>2. i[2] \div group <= head
        BY <1>3, <2>1, <3>1
      <3> QED
        BY <1>7, <2>2, <3>2
    <2>4. CASE pc' = "gather"
      <3>1. i[2] \div group < head + 1
        BY <1>1, <1>4, <1>8, <2>4 DEF Settled, Native
      <3> HIDE DEF group, count
      <3>2. i[2] \div group <= head
        BY <1>3, <2>1, <3>1
      <3> QED
        BY <1>7, <2>2, <3>2
    <2> QED
      BY <1>1, <2>3, <2>4
  <1>9. NativeAhead(e)'
    BY <1>1 DEF NativeAhead, Native
  <1>10. count # 0
    BY <1>4
  <1> QED
    BY <1>1, <1>7, <1>8, <1>9, <1>10, WorkAhead

(* The host does nothing.                                                  *)
LEMMA SameAhead ==
  ASSUME batch' = batch, metadata' = metadata, pc' = pc, native' = native, fallback' = fallback
  PROVE  \A d : Ahead(d) => Ahead(d)'
  <1> SUFFICES ASSUME NEW d, Ahead(d) PROVE Ahead(d)'
    OBVIOUS
  <1>1. count' = count /\ group' = group /\ OutIndex' = OutIndex /\ Chunks' = Chunks
    BY SameBatch, SameMetadata
  <1>2. head' = head /\ chunk' = chunk /\ start' = start
    BY DEF native, fallback
  <1>3. (\A i : Expected(i)' = Expected(i)) /\ \A t, c : Folded(t, c)' = Folded(t, c)
    BY SameExpected, SameFolded
  <1>4. Native' <=> Native
    BY DEF Native
  <1>5. \A i : Settled(i)' <=> Settled(i)
    BY <1>1, <1>2, <1>4 DEF Settled
  <1>6. OutputAhead(d)'
    BY <1>1, <1>3, <1>5 DEF Ahead, OutputAhead
  <1>7. NativeAhead(d)'
    BY <1>1, <1>2, <1>3, <1>4 DEF Ahead, NativeAhead
  <1> QED
    BY <1>6, <1>7 DEF Ahead

(* A batch that is refused promises nothing.                               *)
LEMMA RaisedAhead ==
  ASSUME batch' = batch, pc \notin {"raised", "returned"}, pc' = "raised"
  PROVE  \A d : Ahead(d) => Ahead(d)'
  <1> SUFFICES ASSUME NEW d, Ahead(d) PROVE Ahead(d)'
    OBVIOUS
  <1>1. NativeAhead(d)'
    BY DEF NativeAhead, Native
  <1> QED
    BY <1>1, RestAhead

(* Nothing is settled or issued before the first step.                     *)
LEMMA InitStream == Init => StreamInv
  <1> SUFFICES ASSUME Init PROVE StreamInv
    OBVIOUS
  <1>1. batch \in Batches /\ pc = "build" /\ stream = << >> /\ output = [i \in OutIndex |-> Caller]
    BY DEF Init
  <1>2. PICK d : d = [n \in {1} |-> Now]
    OBVIOUS
  <1>3. d[1] = Now /\ Len(stream) = 0
    BY <1>1, <1>2
  <1>4. PICK x : x = Now
    OBVIOUS
  <1>5. x.output = [i \in OutIndex |-> Caller]
    BY <1>1, <1>4 DEF Now
  <1>6. Ahead(x)
    BY <1>1, <1>5 DEF Ahead, OutputAhead, NativeAhead, Native, Settled
  <1> QED
    BY <1>3, <1>4, <1>6 DEF StreamInv

(* A step of the host issues nothing, or one operation that leaves what    *)
(* the device will have done as it should be.                              *)
LEMMA HostStepStream ==
  ASSUME HostInv, StreamInv, HostStep \/ OutOfMemory
  PROVE  StreamInv'
  <1>1. stream \in Seq(Work) /\ batch \in Batches
    BY DEF HostInv
  <1>2. CASE Build \/ BuildOverlay \/ Unsupported
    <2>1. stream' = stream /\ batch' = batch /\ device' = device
      BY <1>2 DEF Build, BuildOverlay, Unsupported
    <2> QED
      BY <1>2, <2>1, BuildAhead, SilentAhead
  <1>3. CASE FillZero
    <2>1. PICK o : o = [op |-> "fill"]
      OBVIOUS
    <2>2. Issue(o) /\ batch' = batch /\ device' = device
      BY <1>3, <2>1 DEF FillZero
    <2>3. \A d, e : Ahead(d) /\ e = Applied(o, d) => Ahead(e)'
      BY <1>3, <2>1, FillAhead
    <2> QED
      BY <1>1, <2>2, <2>3, IssuedAhead
  <1>4. CASE StartNative
    <2>1. stream' = stream /\ batch' = batch /\ device' = device
      BY <1>4 DEF StartNative
    <2> QED
      BY <1>4, <2>1, StartNativeAhead, SilentAhead
  <1>5. CASE StartPagedBatch \/ OutOfMemory
    <2>1. stream' = stream /\ batch' = batch /\ device' = device
      BY <1>5 DEF StartPagedBatch, OutOfMemory
    <2> QED
      BY <1>5, <2>1, EnterAhead, SilentAhead
  <1>6. ASSUME NEW c \in {DirectCall, OverlayCall}, batch' = batch, device' = device, count # 0,
               Jump("forward", IF Accepted(c) THEN "returned" ELSE "raised"),
               IF Accepted(c)
               THEN Issue(Operator(c, 0, QueryStarts, batch.k, [b \in Requests |-> b]))
               ELSE UNCHANGED stream
        PROVE  StreamInv'
    <2>1. CASE Accepted(c)
      <3>1. PICK o : o = Operator(c, 0, QueryStarts, batch.k, [b \in Requests |-> b])
        OBVIOUS
      <3>2. Issue(o) /\ pc = "forward" /\ pc' = "returned"
        BY <1>6, <2>1, <3>1 DEF Jump
      <3>3. \A d, e : Ahead(d) /\ e = Applied(o, d) => Ahead(e)'
        <4> HIDE DEF DirectCall, OverlayCall
        <4> QED
          BY <1>6, <2>1, <3>1, <3>2, DirectAhead
      <3> QED
        BY <1>1, <1>6, <3>2, <3>3, IssuedAhead
    <2>2. CASE ~ Accepted(c)
      <3>1. stream' = stream /\ pc = "forward" /\ pc' = "raised"
        BY <1>6, <2>2 DEF Jump
      <3> QED
        BY <1>6, <3>1, RaisedAhead, SilentAhead
    <2> QED
      BY <2>1, <2>2
  <1>7. CASE Direct
    <2>1. /\ batch' = batch /\ device' = device /\ count # 0
          /\ Jump("forward", IF Accepted(DirectCall) THEN "returned" ELSE "raised")
          /\ IF Accepted(DirectCall)
             THEN Issue(Operator(DirectCall, 0, QueryStarts, batch.k, [b \in Requests |-> b]))
             ELSE UNCHANGED stream
      BY <1>7 DEF Direct
    <2> QED
      BY <1>6, <2>1
  <1>8. CASE DirectOverlay
    <2>1. /\ batch' = batch /\ device' = device /\ count # 0
          /\ Jump("forward", IF Accepted(OverlayCall) THEN "returned" ELSE "raised")
          /\ IF Accepted(OverlayCall)
             THEN Issue(Operator(OverlayCall, 0, QueryStarts, batch.k, [b \in Requests |-> b]))
             ELSE UNCHANGED stream
      BY <1>8 DEF DirectOverlay
    <2> QED
      BY <1>6, <2>1
  <1>9. CASE Gather
    <2>1. PICK o : o = [op |-> "gather", kv |-> head, start |-> Chunks[chunk].start, length |-> Chunks[chunk].length]
      OBVIOUS
    <2>2. /\ pc = "gather" /\ batch' = batch /\ device' = device
          /\ \/ pc' = "attend" /\ Issue(o)
             \/ pc' = "raised" /\ stream' = stream
      BY <1>9, <2>1 DEF Gather, Jump
    <2>3. CASE pc' = "attend" /\ Issue(o)
      <3>1. \A d, e : Ahead(d) /\ e = Applied(o, d) => Ahead(e)'
        BY <1>9, <2>1, <2>3, GatherAhead
      <3> QED
        BY <1>1, <2>2, <2>3, <3>1, IssuedAhead
    <2>4. CASE pc' = "raised" /\ stream' = stream
      BY <2>2, <2>4, RaisedAhead, SilentAhead
    <2> QED
      BY <2>2, <2>3, <2>4
  <1>10. CASE Attend
    <2>1. PICK o : o = [op |-> "attend", causal |-> Chunks[chunk].causal, first |-> Chunks[chunk].start = 0]
      OBVIOUS
    <2>2. Issue(o) /\ batch' = batch /\ device' = device
      BY <1>10, <2>1 DEF Attend
    <2>3. \A d, e : Ahead(d) /\ e = Applied(o, d) => Ahead(e)'
      BY <1>10, <2>1, AttendAhead
    <2> QED
      BY <1>1, <2>2, <2>3, IssuedAhead
  <1>11. CASE CopyHead
    <2>1. PICK o : o = [op |-> "copy", kv |-> head]
      OBVIOUS
    <2>2. Issue(o) /\ batch' = batch /\ device' = device
      BY <1>11, <2>1 DEF CopyHead
    <2>3. \A d, e : Ahead(d) /\ e = Applied(o, d) => Ahead(e)'
      BY <1>11, <2>1, CopyAhead
    <2> QED
      BY <1>1, <2>2, <2>3, IssuedAhead
  <1>12. CASE PagedChunk
    <2>1. PICK o : o = Operator(PagedChunkCall, start, <<0, QueryChunk>>, <<PagedLength>>, <<row>>)
      OBVIOUS
    <2>2. /\ pc = "paged" /\ batch' = batch /\ device' = device
          /\ Issue(o) \/ (pc' = "raised" /\ stream' = stream)
      BY <1>12, <2>1 DEF PagedChunk, Jump
    <2>3. CASE Issue(o)
      <3>1. \A d, e : Ahead(d) /\ e = Applied(o, d) => Ahead(e)'
        BY <1>12, <2>1, PagedChunkAhead
      <3> QED
        BY <1>1, <2>2, <2>3, <3>1, IssuedAhead
    <2>4. CASE pc' = "raised" /\ stream' = stream
      BY <2>2, <2>4, RaisedAhead, SilentAhead
    <2> QED
      BY <2>2, <2>3, <2>4
  <1>13. CASE PagedNextRow
    <2>1. stream' = stream /\ batch' = batch /\ device' = device
      BY <1>13 DEF PagedNextRow
    <2> QED
      BY <1>13, <2>1, NextRowAhead, SilentAhead
  <1> QED
    BY <1>2, <1>3, <1>4, <1>5, <1>7, <1>8, <1>9, <1>10, <1>11, <1>12, <1>13 DEF HostStep

(* Host and device keep what lies ahead.                                   *)
LEMMA NextStream == HostInv /\ StreamInv /\ [Next]_vars => StreamInv'
  <1> SUFFICES ASSUME HostInv, StreamInv, [Next]_vars PROVE StreamInv'
    OBVIOUS
  <1>1. CASE HostStep \/ OutOfMemory
    BY <1>1, HostStepStream
  <1>2. CASE Execute
    <2>1. batch' = batch /\ metadata' = metadata /\ pc' = pc /\ native' = native /\ fallback' = fallback
      BY <1>2 DEF Execute
    <2> QED
      BY <1>2, <2>1, SameAhead, ExecutedAhead DEF HostInv
  <1>3. CASE Terminating \/ UNCHANGED vars
    <2>1. /\ batch' = batch /\ metadata' = metadata /\ pc' = pc /\ native' = native /\ fallback' = fallback
          /\ stream' = stream /\ device' = device
      BY <1>3 DEF Terminating, vars
    <2> QED
      BY <2>1, SameAhead, SilentAhead
  <1> QED
    BY <1>1, <1>2, <1>3 DEF Next

(***************************************************************************)
(* Whichever route a batch takes, and however far the device lags behind   *)
(* the host or memory runs out under way, the output of a call that        *)
(* returned is attention for every token and head, the padding the         *)
(* caller's.                                                               *)
(***************************************************************************)
THEOREM EveryRouteIsAttention == Spec => []OutputIsAttention
  <1>1. HostInv /\ StreamInv => OutputIsAttention
    <2> SUFFICES ASSUME HostInv, StreamInv, Returned, NEW i \in OutIndex
                 PROVE  output[i] = IF count = 0 THEN Zero
                                    ELSE IF i[1] >= count THEN Caller ELSE Expected(i)
      BY DEF OutputIsAttention, Expected, Owner
    <2>1. PICK d : d[1] = Now /\ Ahead(d[Len(stream) + 1])
      BY DEF StreamInv
    <2>2. PICK x : x = Now
      OBVIOUS
    <2>3. stream = << >> /\ pc = "returned"
      BY DEF Returned
    <2>4. Ahead(x) /\ x.output = output
      <3>1. Len(stream) + 1 = 1
        BY <2>3
      <3> QED
        BY <2>1, <2>2, <3>1 DEF Now
    <2>5. i[1] \in Nat /\ count \in Nat
      BY PlaceFacts, StartsFacts DEF HostInv
    <2>6. /\ i[1] >= count => output[i] = IF count = 0 THEN Zero ELSE Caller
          /\ i[1] < count => output[i] = Expected(i)
      BY <2>3, <2>4 DEF Ahead, OutputAhead, Settled
    <2> HIDE DEF count
    <2>7. (i[1] < count <=> ~ (i[1] >= count)) /\ (count = 0 => i[1] >= count)
      BY <2>5
    <2> QED
      BY <2>6, <2>7
  <1> QED
    BY <1>1, HostInvariance, InitStream, NextStream, PTL DEF Spec
=============================================================================
