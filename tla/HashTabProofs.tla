---------------------------- MODULE HashTabProofs ----------------------------
(* Proofs about HashTab, built without HASHTAB_USE_N_OPTIMIZATION, for any keys,
   hash function and sizes. *)
EXTENDS HashTab, ListsProofs

(* The nodes with the same hash stand together; a bucket leads to the first
   node with its hash, to nothing where there is none. *)
Together(list, hash) ==
    \A i, j, k \in 1 .. Len(list) :
       i <= j /\ j <= k /\ hash[list[i]] = hash[list[k]] => hash[list[j]] = hash[list[i]]

First(list, hash, h, p) ==
    /\ p \in 1 .. Len(list)
    /\ hash[list[p]] = h
    /\ \A i \in 1 .. Len(list) : hash[list[i]] = h => p <= i

Absent(list, hash, h) == \A i \in 1 .. Len(list) : hash[list[i]] # h

Leads(list, hash, h, node) ==
    IF node = NULL THEN Absent(list, hash, h)
    ELSE \E p \in 1 .. Len(list) : node = list[p] /\ First(list, hash, h, p)

-----------------------------------------------------------------------------
(* A node of a hash no other has goes to the end (hashtab.c:124). *)
LEMMA AppendFirst ==
    ASSUME NEW list \in Seq(Key), NEW key \in Key, NEW hash, Together(list, hash),
           Absent(list, hash, hash[key])
    PROVE  /\ Together(Append(list, key), hash)
           /\ First(Append(list, key), hash, hash[key], Len(list) + 1)
           /\ \A h, p : First(list, hash, h, p) => First(Append(list, key), hash, h, p)
           /\ \A h : h # hash[key] /\ Absent(list, hash, h) => Absent(Append(list, key), hash, h)
<1>1. PICK t : t = Append(list, key)
  OBVIOUS
<1>2. /\ t \in Seq(Key) /\ Len(t) = Len(list) + 1
      /\ \A i \in 1 .. Len(list) : t[i] = list[i]
      /\ t[Len(list) + 1] = key
  BY <1>1
<1>3. \A i \in 1 .. Len(t) : i \in 1 .. Len(list) \/ i = Len(list) + 1
  BY <1>2
<1>4. \A i \in 1 .. Len(t) : hash[t[i]] = hash[key] => i = Len(list) + 1
  BY <1>2, <1>3 DEF Absent
<1>5. Together(t, hash)
  <2> SUFFICES ASSUME NEW i \in 1 .. Len(t), NEW j \in 1 .. Len(t), NEW k \in 1 .. Len(t),
                      i <= j, j <= k, hash[t[i]] = hash[t[k]]
               PROVE  hash[t[j]] = hash[t[i]]
    BY DEF Together
  <2>1. CASE k = Len(list) + 1
    <3>1. i = Len(list) + 1
      BY <1>2, <1>4, <2>1
    <3>2. QED
      BY <1>2, <2>1, <3>1
  <2>2. CASE k \in 1 .. Len(list)
    <3>1. i \in 1 .. Len(list) /\ j \in 1 .. Len(list)
      BY <1>2, <2>2
    <3>2. t[i] = list[i] /\ t[j] = list[j] /\ t[k] = list[k]
      BY <1>2, <2>2, <3>1
    <3>3. QED
      BY <2>2, <3>1, <3>2 DEF Together
  <2>3. QED
    BY <1>3, <2>1, <2>2
<1>6. First(t, hash, hash[key], Len(list) + 1)
  BY <1>2, <1>4 DEF First
<1>7. ASSUME NEW h, NEW p, First(list, hash, h, p)
      PROVE  First(t, hash, h, p)
  <2>1. p \in 1 .. Len(list) /\ hash[list[p]] = h
        /\ \A i \in 1 .. Len(list) : hash[list[i]] = h => p <= i
    BY <1>7 DEF First
  <2>2. p \in 1 .. Len(t) /\ hash[t[p]] = h
    BY <1>2, <2>1
  <2>3. \A i \in 1 .. Len(t) : hash[t[i]] = h => p <= i
    BY <1>2, <1>3, <2>1
  <2>4. QED
    BY <2>2, <2>3 DEF First
<1>8. ASSUME NEW h, h # hash[key], Absent(list, hash, h)
      PROVE  Absent(t, hash, h)
  BY <1>2, <1>3, <1>8 DEF Absent
<1>9. QED
  BY <1>1, <1>5, <1>6, <1>7, <1>8

(* Any other goes behind the first of its bucket (hashtab.c:128). *)
LEMMA InsertBehindFirst ==
    ASSUME NEW list \in Seq(Key), NEW key \in Key, NEW hash, Together(list, hash),
           NEW q, First(list, hash, hash[key], q)
    PROVE  /\ Together(InsertAt(list, q + 1, key), hash)
           /\ First(InsertAt(list, q + 1, key), hash, hash[key], q)
           /\ InsertAt(list, q + 1, key)[q] = list[q]
           /\ \A h, p : h # hash[key] /\ First(list, hash, h, p) =>
                 LET place == IF p <= q THEN p ELSE p + 1
                 IN  /\ First(InsertAt(list, q + 1, key), hash, h, place)
                     /\ InsertAt(list, q + 1, key)[place] = list[p]
           /\ \A h : h # hash[key] /\ Absent(list, hash, h) =>
                        Absent(InsertAt(list, q + 1, key), hash, h)
<1>1. PICK t : t = InsertAt(list, q + 1, key)
  OBVIOUS
<1>2. /\ q \in 1 .. Len(list) /\ hash[list[q]] = hash[key]
      /\ \A i \in 1 .. Len(list) : hash[list[i]] = hash[key] => q <= i
  BY DEF First
<1>3. /\ t \in Seq(Key) /\ Len(t) = Len(list) + 1
      /\ \A j \in 1 .. Len(list) + 1 :
            t[j] = IF j < q + 1 THEN list[j] ELSE IF j = q + 1 THEN key ELSE list[j - 1]
  <2>1. PICK p \in 1 .. Len(list) + 1 : p = q + 1
    BY <1>2
  <2>2. t \in Seq(Key) /\ WithInserted(t, list, p, key)
    BY <1>1, <2>1, InsertAtIs
  <2>3. QED
    BY <2>1, <2>2 DEF WithInserted
(* Where a node of t was, the new one standing for the first of its bucket. *)
<1> DEFINE old(j) == IF j <= q THEN j ELSE j - 1
<1>4. \A j \in 1 .. Len(t) : old(j) \in 1 .. Len(list) /\ hash[t[j]] = hash[list[old(j)]]
  BY <1>2, <1>3
<1>5. \A i, j \in 1 .. Len(t) : i <= j => old(i) <= old(j)
  BY <1>2, <1>3
<1>6. Together(t, hash)
  <2> SUFFICES ASSUME NEW i \in 1 .. Len(t), NEW j \in 1 .. Len(t), NEW k \in 1 .. Len(t),
                      i <= j, j <= k, hash[t[i]] = hash[t[k]]
               PROVE  hash[t[j]] = hash[t[i]]
    BY DEF Together
  <2>1. old(i) <= old(j) /\ old(j) <= old(k)
    BY <1>5
  <2> HIDE DEF old
  <2>2. hash[list[old(j)]] = hash[list[old(i)]]
    BY <1>4, <2>1 DEF Together
  <2>3. QED
    BY <1>4, <2>2
<1>7. First(t, hash, hash[key], q) /\ t[q] = list[q]
  <2>1. t[q] = list[q] /\ q \in 1 .. Len(t)
    BY <1>2, <1>3
  <2>2. ASSUME NEW i \in 1 .. Len(t), hash[t[i]] = hash[key]
        PROVE  q <= i
    <3>1. q <= old(i)
      BY <1>2, <1>4, <2>2
    <3>2. QED
      BY <1>2, <3>1
  <2>3. QED
    BY <1>2, <2>1, <2>2 DEF First
<1>8. ASSUME NEW h, NEW p, h # hash[key], First(list, hash, h, p)
      PROVE  /\ First(t, hash, h, IF p <= q THEN p ELSE p + 1)
             /\ t[IF p <= q THEN p ELSE p + 1] = list[p]
  <2>1. /\ p \in 1 .. Len(list) /\ hash[list[p]] = h
        /\ \A i \in 1 .. Len(list) : hash[list[i]] = h => p <= i
    BY <1>8 DEF First
  <2>2. PICK place : place = IF p <= q THEN p ELSE p + 1
    OBVIOUS
  <2>3. place \in 1 .. Len(t) /\ t[place] = list[p] /\ place # q + 1
    BY <1>2, <1>3, <2>1, <2>2
  <2>4. ASSUME NEW i \in 1 .. Len(t), hash[t[i]] = h
        PROVE  place <= i
    <3>1. old(i) \in 1 .. Len(list) /\ hash[list[old(i)]] = h
      BY <1>4, <2>4
    <3>2. p <= old(i)
      BY <2>1, <3>1
    <3>3. i # q + 1
      <4>1. hash[t[q + 1]] = hash[key]
        BY <1>2, <1>3
      <4>2. QED
        BY <1>8, <2>4, <4>1
    <3>4. QED
      BY <1>2, <1>3, <2>1, <2>2, <3>2, <3>3
  <2>5. First(t, hash, h, place)
    BY <2>1, <2>3, <2>4 DEF First
  <2>6. QED
    BY <2>2, <2>3, <2>5
<1>9. ASSUME NEW h, h # hash[key], Absent(list, hash, h)
      PROVE  Absent(t, hash, h)
  BY <1>4, <1>9 DEF Absent
<1>10. QED
  BY <1>1, <1>6, <1>7, <1>8, <1>9

(* Taking a node out keeps the others together.  The first of a bucket gives way
   to the node behind it, if that has the same hash, and was the only one of its
   bucket if not (hashtab.c:244-307). *)
LEMMA RemovePlaces ==
    ASSUME NEW list \in Seq(Key), NEW hash, Together(list, hash), NEW p \in 1 .. Len(list)
    PROVE  /\ Together(RemoveAt(list, p), hash)
           /\ \A h, q : q # p /\ First(list, hash, h, q) =>
                 LET place == IF q < p THEN q ELSE q - 1
                 IN  /\ First(RemoveAt(list, p), hash, h, place)
                     /\ RemoveAt(list, p)[place] = list[q]
           /\ \A h : Absent(list, hash, h) => Absent(RemoveAt(list, p), hash, h)
           /\ First(list, hash, hash[list[p]], p) =>
                 IF p < Len(list) /\ hash[list[p + 1]] = hash[list[p]]
                 THEN /\ First(RemoveAt(list, p), hash, hash[list[p]], p)
                      /\ RemoveAt(list, p)[p] = list[p + 1]
                 ELSE Absent(RemoveAt(list, p), hash, hash[list[p]])
<1>1. PICK t : t = RemoveAt(list, p)
  OBVIOUS
<1>2. /\ t \in Seq(Key) /\ Len(t) = Len(list) - 1
      /\ \A j \in 1 .. Len(list) - 1 : t[j] = IF j < p THEN list[j] ELSE list[j + 1]
  <2>1. t \in Seq(Key) /\ WithRemoved(t, list, p)
    BY <1>1, RemoveAtIs
  <2>2. QED
    BY <2>1 DEF WithRemoved
<1> DEFINE old(j) == IF j < p THEN j ELSE j + 1
<1>3. \A j \in 1 .. Len(t) : old(j) \in 1 .. Len(list) /\ t[j] = list[old(j)]
  BY <1>2
<1>4. \A i, j \in 1 .. Len(t) : i <= j => old(i) <= old(j)
  BY <1>2
<1>5. Together(t, hash)
  <2> SUFFICES ASSUME NEW i \in 1 .. Len(t), NEW j \in 1 .. Len(t), NEW k \in 1 .. Len(t),
                      i <= j, j <= k, hash[t[i]] = hash[t[k]]
               PROVE  hash[t[j]] = hash[t[i]]
    BY DEF Together
  <2>1. old(i) <= old(j) /\ old(j) <= old(k)
    BY <1>4
  <2> HIDE DEF old
  <2>2. hash[list[old(j)]] = hash[list[old(i)]]
    BY <1>3, <2>1 DEF Together
  <2>3. QED
    BY <1>3, <2>2
<1>6. ASSUME NEW h, NEW q, q # p, First(list, hash, h, q)
      PROVE  /\ First(t, hash, h, IF q < p THEN q ELSE q - 1)
             /\ t[IF q < p THEN q ELSE q - 1] = list[q]
  <2>1. /\ q \in 1 .. Len(list) /\ hash[list[q]] = h
        /\ \A i \in 1 .. Len(list) : hash[list[i]] = h => q <= i
    BY <1>6 DEF First
  <2>2. PICK place : place = IF q < p THEN q ELSE q - 1
    OBVIOUS
  <2>3. place \in 1 .. Len(t) /\ t[place] = list[q]
    BY <1>2, <1>6, <2>1, <2>2
  <2>4. ASSUME NEW i \in 1 .. Len(t), hash[t[i]] = h
        PROVE  place <= i
    <3>1. q <= old(i)
      BY <1>3, <2>1, <2>4
    <3>2. QED
      BY <1>2, <1>6, <2>1, <2>2, <3>1
  <2>5. First(t, hash, h, place)
    BY <2>1, <2>3, <2>4 DEF First
  <2>6. QED
    BY <2>2, <2>3, <2>5
<1>7. ASSUME NEW h, Absent(list, hash, h)
      PROVE  Absent(t, hash, h)
  BY <1>3, <1>7 DEF Absent
<1>8. ASSUME First(list, hash, hash[list[p]], p)
      PROVE  IF p < Len(list) /\ hash[list[p + 1]] = hash[list[p]]
             THEN First(t, hash, hash[list[p]], p) /\ t[p] = list[p + 1]
             ELSE Absent(t, hash, hash[list[p]])
  <2>1. \A i \in 1 .. Len(list) : hash[list[i]] = hash[list[p]] => p <= i
    BY <1>8 DEF First
  <2>2. CASE p < Len(list) /\ hash[list[p + 1]] = hash[list[p]]
    <3>1. p \in 1 .. Len(t) /\ t[p] = list[p + 1]
      BY <1>2, <2>2
    <3>2. ASSUME NEW i \in 1 .. Len(t), hash[t[i]] = hash[list[p]]
          PROVE  p <= i
      <4>1. p <= old(i)
        BY <1>3, <2>1, <3>2
      <4>2. QED
        BY <1>2, <4>1
    <3>3. First(t, hash, hash[list[p]], p)
      BY <2>2, <3>1, <3>2 DEF First
    <3>4. QED
      BY <2>2, <3>1, <3>3
  <2>3. CASE ~(p < Len(list) /\ hash[list[p + 1]] = hash[list[p]])
    <3> SUFFICES ASSUME NEW i \in 1 .. Len(t), hash[t[i]] = hash[list[p]]
                 PROVE  FALSE
      BY <2>3 DEF Absent
    <3>1. p <= old(i) /\ old(i) # p
      BY <1>3, <2>1
    <3>2. p < Len(list) /\ p + 1 \in 1 .. Len(list) /\ p + 1 <= old(i) /\ p <= p + 1
      BY <1>2, <1>3, <3>1
    <3>3. old(i) \in 1 .. Len(list) /\ hash[list[old(i)]] = hash[list[p]]
      BY <1>3
    <3> HIDE DEF old
    <3>4. hash[list[p + 1]] = hash[list[p]]
      BY <3>2, <3>3 DEF Together
    <3>5. QED
      BY <2>3, <3>2, <3>4
  <2>4. QED
    BY <2>2, <2>3
<1>9. QED
  BY <1>1, <1>5, <1>6, <1>7, <1>8

-----------------------------------------------------------------------------
(* The hashes of a table of some size. *)
Hashes(size) == [key \in Key |-> Hash[key] % size]

Entries == [node : Key \union {NULL}, n : Nat]

(* What the list and the array of a table are to each other. *)
Chained(list, size, array) ==
    /\ size \in Nat \ {0}
    /\ list \in Seq(Key) /\ IsInjective(list)
    /\ array \in [0 .. size - 1 -> Entries]
    /\ Together(list, Hashes(size))
    /\ \A h \in 0 .. size - 1 : Leads(list, Hashes(size), h, array[h].node)

Used(size, array) == {h \in 0 .. size - 1 : array[h].node # NULL}

(* A table whose counters are the true ones. *)
Table(list, size, array, factor, auto) ==
    [list |-> list, size |-> size, array |-> array, inserts |-> Len(list),
     buckets_used |-> Cardinality(Used(size, array)),
     collisions |-> Len(list) - Cardinality(Used(size, array)),
     load_factor |-> factor, automatic_resize |-> auto]

(* A table of that size and those settings that has the entries of a set, with
   buckets and counters as they should be. *)
Holds(t, keys, size, factor, auto) ==
    \E list, array : /\ Chained(list, size, array)
                     /\ ToSet(list) = keys
                     /\ t = Table(list, size, array, factor, auto)

(* A hash is the number of a bucket. *)
LEMMA HashesType ==
    ASSUME NEW size \in Nat \ {0}
    PROVE  Hashes(size) \in [Key -> 0 .. size - 1]
<1>1. \A key \in Key : Hash[key] \in Nat
  BY HashAssumption
<1>2. \A n \in Nat : n % size \in 0 .. size - 1
  OBVIOUS
<1>3. QED
  BY <1>1, <1>2 DEF Hashes

(* The used buckets can be counted. *)
LEMMA UsedFinite ==
    ASSUME NEW size \in Nat \ {0}, NEW array
    PROVE  IsFiniteSet(Used(size, array)) /\ Cardinality(Used(size, array)) \in Nat
<1>1. IsFiniteSet(0 .. size - 1)
  BY FS_Interval
<1>2. Used(size, array) \subseteq 0 .. size - 1
  BY DEF Used
<1>3. QED
  BY <1>1, <1>2, FS_Subset, FS_CardinalityType

(* There are no more used buckets than nodes. *)
LEMMA UsedBounded ==
    ASSUME NEW list, NEW size, NEW array, Chained(list, size, array)
    PROVE  Cardinality(Used(size, array)) <= Len(list) /\ Len(list) \in Nat
<1>1. list \in Seq(Key) /\ size \in Nat \ {0}
  BY DEF Chained
<1>2. PICK g : g = [h \in Used(size, array) |-> CHOOSE p \in 1 .. Len(list) : array[h].node = list[p]]
  OBVIOUS
<1>3. ASSUME NEW h \in Used(size, array)
      PROVE  g[h] \in 1 .. Len(list) /\ Hashes(size)[list[g[h]]] = h
  <2>1. h \in 0 .. size - 1 /\ array[h].node # NULL
    BY DEF Used
  <2>2. PICK p \in 1 .. Len(list) : array[h].node = list[p] /\ First(list, Hashes(size), h, p)
    BY <2>1 DEF Chained, Leads
  <2>3. g[h] \in 1 .. Len(list) /\ array[h].node = list[g[h]]
    BY <1>2, <2>2
  <2>4. Hashes(size)[list[p]] = h
    BY <2>2 DEF First
  <2>5. QED
    BY <2>2, <2>3, <2>4
<1>4. g \in Injection(Used(size, array), 1 .. Len(list))
  <2>1. g \in [Used(size, array) -> 1 .. Len(list)]
    BY <1>2, <1>3
  <2>2. \A h, k \in Used(size, array) : g[h] = g[k] => h = k
    BY <1>3
  <2>3. QED
    BY <2>1, <2>2 DEF Injection, IsInjective
<1>5. IsFiniteSet(1 .. Len(list)) /\ Cardinality(1 .. Len(list)) = Len(list)
  <2>1. Len(list) \in Nat /\ 1 \in Int /\ Len(list) \in Int /\ 1 <= Len(list) + 1
    BY <1>1
  <2>2. IsFiniteSet(1 .. Len(list)) /\ Cardinality(1 .. Len(list)) = Len(list) - 1 + 1
    BY <2>1, IntervalCount
  <2>3. QED
    BY <2>1, <2>2
<1>6. Cardinality(Used(size, array)) <= Cardinality(1 .. Len(list))
  BY <1>4, <1>5, FS_Injection DEF ExistsInjection
<1>7. QED
  BY <1>1, <1>5, <1>6

(* The fields of a table. *)
Fields(list, size, array, inserts, used, collisions, factor, auto) ==
    [list |-> list, size |-> size, array |-> array, inserts |-> inserts,
     buckets_used |-> used, collisions |-> collisions,
     load_factor |-> factor, automatic_resize |-> auto]

(* What an insertion assigns. *)
InsertedIs(l, s, a, u, c, f, r, key, h) ==
    hashtab_insert_impl(Fields(l, s, a, Len(l), u, c, f, r), key) =
       IF a[h].node = NULL
       THEN Fields(Append(l, key), s, [a EXCEPT ![h].node = key], Len(l) + 1, u + 1, c, f, r)
       ELSE Fields(dl_list_insert_after(l, a[h].node, key), s, a, Len(l) + 1, u, c + 1, f, r)

(* hashtab_insert_impl assigns that (hashtab.c:115-134). *)
LEMMA InsertResult ==
    ASSUME UseN = FALSE, NEW l, NEW s, NEW a, Chained(l, s, a), NEW f, NEW r, NEW key \in Key,
           NEW h, h = Hashes(s)[key], NEW u \in Nat, NEW c \in Int
    PROVE  InsertedIs(l, s, a, u, c, f, r, key, h)
<1>1. PICK t : t = Fields(l, s, a, Len(l), u, c, f, r)
  OBVIOUS
<1>2. /\ l \in Seq(Key) /\ s \in Nat \ {0} /\ a \in [0 .. s - 1 -> Entries]
      /\ h \in 0 .. s - 1
  BY HashesType DEF Chained
<1>3. Bucket(t, key) = h /\ t.array = a /\ t.list = l
  BY <1>1 DEF Bucket, Hashes, Fields
<1>4. PICK counted : counted = [t EXCEPT !.inserts = @ + 1, !.array[h].n = IF UseN THEN @ + 1 ELSE @]
  OBVIOUS
<1>5. counted = Fields(l, s, a, Len(l) + 1, u, c, f, r)
  <2>1. PICK m : m = [t EXCEPT !.inserts = t.inserts + 1]
    OBVIOUS
  <2>2. m = Fields(l, s, a, Len(l) + 1, u, c, f, r)
    BY <1>1, <2>1 DEF Fields
  <2>3. counted = [m EXCEPT !.array[h].n = a[h].n]
    BY <1>3, <1>4, <2>1
  <2>4. [m EXCEPT !.array[h].n = a[h].n] = [m EXCEPT !.array = [a EXCEPT ![h].n = a[h].n]]
    BY <2>2 DEF Fields
  <2>5. [a EXCEPT ![h].n = a[h].n] = a
    <3>1. PICK e : e = a[h]
      OBVIOUS
    <3>2. e \in Entries
      BY <1>2, <3>1
    <3>3. [e EXCEPT !.n = e.n] = e
      BY <3>2 DEF Entries
    <3>4. [a EXCEPT ![h] = e] = a
      BY <1>2, <3>1
    <3>5. QED
      BY <3>1, <3>3, <3>4
  <2>6. QED
    BY <2>2, <2>3, <2>4, <2>5 DEF Fields
<1>6. CASE a[h].node = NULL
  <2>1. hashtab_insert_impl(t, key) = [counted EXCEPT !.list = Append(@, key), !.array[h].node = key,
                                                      !.buckets_used = @ + 1]
    BY <1>3, <1>4, <1>6 DEF hashtab_insert_impl
  <2>2. counted.list = l /\ counted.array = a /\ counted.buckets_used = u
    BY <1>5 DEF Fields
  <2>3. PICK m1 : m1 = [counted EXCEPT !.list = Append(l, key)]
    OBVIOUS
  <2>4. m1 = Fields(Append(l, key), s, a, Len(l) + 1, u, c, f, r)
    BY <1>5, <2>3 DEF Fields
  <2>5. PICK m2 : m2 = [m1 EXCEPT !.array[h].node = key]
    OBVIOUS
  <2>6. m2 = [m1 EXCEPT !.array = [a EXCEPT ![h].node = key]]
    BY <2>4, <2>5 DEF Fields
  <2>7. m2 = Fields(Append(l, key), s, [a EXCEPT ![h].node = key], Len(l) + 1, u, c, f, r)
    BY <2>4, <2>6 DEF Fields
  <2>8. hashtab_insert_impl(t, key) = [m2 EXCEPT !.buckets_used = u + 1]
    BY <2>1, <2>2, <2>3, <2>5
  <2>9. [m2 EXCEPT !.buckets_used = u + 1]
           = Fields(Append(l, key), s, [a EXCEPT ![h].node = key], Len(l) + 1, u + 1, c, f, r)
    <3>1. PICK b, n, m : b = [a EXCEPT ![h].node = key] /\ n = Append(l, key) /\ m = Len(l) + 1
      OBVIOUS
    <3>2. m2 = Fields(n, s, b, m, u, c, f, r)
      BY <2>7, <3>1
    <3>3. [m2 EXCEPT !.buckets_used = u + 1] = Fields(n, s, b, m, u + 1, c, f, r)
      BY <3>2 DEF Fields
    <3>4. QED
      BY <3>1, <3>3
  <2>10. QED
    BY <1>1, <1>6, <2>8, <2>9 DEF InsertedIs
<1>7. CASE a[h].node # NULL
  <2>1. hashtab_insert_impl(t, key) =
           [counted EXCEPT !.list = dl_list_insert_after(@, a[h].node, key), !.collisions = @ + 1]
    BY <1>3, <1>4, <1>7 DEF hashtab_insert_impl
  <2>2. counted.list = l /\ counted.collisions = c
    BY <1>5 DEF Fields
  <2>3. PICK m1 : m1 = [counted EXCEPT !.list = dl_list_insert_after(l, a[h].node, key)]
    OBVIOUS
  <2>4. m1 = Fields(dl_list_insert_after(l, a[h].node, key), s, a, Len(l) + 1, u, c, f, r)
    BY <1>5, <2>3 DEF Fields
  <2>5. hashtab_insert_impl(t, key) = [m1 EXCEPT !.collisions = c + 1]
    BY <2>1, <2>2, <2>3
  <2>6. [m1 EXCEPT !.collisions = c + 1]
           = Fields(dl_list_insert_after(l, a[h].node, key), s, a, Len(l) + 1, u, c + 1, f, r)
    BY <2>4 DEF Fields
  <2>7. QED
    BY <1>1, <1>7, <2>5, <2>6 DEF InsertedIs
<1>8. QED
  BY <1>6, <1>7 DEF InsertedIs

(* An insertion keeps buckets and counters right. *)
LEMMA InsertStep ==
    ASSUME UseN = FALSE, NEW l, NEW s, NEW a, Chained(l, s, a), NEW f, NEW r,
           NEW key \in Key, key \notin ToSet(l)
    PROVE  Holds(hashtab_insert_impl(Table(l, s, a, f, r), key), ToSet(l) \union {key}, s, f, r)
<1>1. PICK h, hash : hash = Hashes(s) /\ h = hash[key]
  OBVIOUS
<1>2. /\ l \in Seq(Key) /\ IsInjective(l) /\ s \in Nat \ {0} /\ a \in [0 .. s - 1 -> Entries]
      /\ h \in 0 .. s - 1
      /\ Together(l, hash) /\ \A k \in 0 .. s - 1 : Leads(l, hash, k, a[k].node)
  BY <1>1, HashesType DEF Chained
<1>3. PICK u, c : u = Cardinality(Used(s, a)) /\ c = Len(l) - u
  OBVIOUS
<1>4. IsFiniteSet(Used(s, a)) /\ u \in Nat /\ c \in Int /\ Len(l) \in Nat
  BY <1>2, <1>3, UsedFinite
<1>5. Table(l, s, a, f, r) = Fields(l, s, a, Len(l), u, c, f, r)
  BY <1>3 DEF Table, Fields
<1>6. hashtab_insert_impl(Fields(l, s, a, Len(l), u, c, f, r), key) =
         IF a[h].node = NULL
         THEN Fields(Append(l, key), s, [a EXCEPT ![h].node = key], Len(l) + 1, u + 1, c, f, r)
         ELSE Fields(dl_list_insert_after(l, a[h].node, key), s, a, Len(l) + 1, u, c + 1, f, r)
  <2>1. h = Hashes(s)[key]
    BY <1>1
  <2>2. u \in Nat /\ c \in Int
    BY <1>4
  <2>3. InsertedIs(l, s, a, u, c, f, r, key, h)
    BY <2>1, <2>2, InsertResult
  <2>4. QED
    BY <2>3 DEF InsertedIs
<1>7. CASE a[h].node = NULL
  <2>1. PICK m, b : m = Append(l, key) /\ b = [a EXCEPT ![h].node = key]
    OBVIOUS
  <2>2. hashtab_insert_impl(Fields(l, s, a, Len(l), u, c, f, r), key)
           = Fields(m, s, b, Len(l) + 1, u + 1, c, f, r)
    BY <1>7, <1>6, <2>1
  <2>3. /\ b \in [0 .. s - 1 -> Entries]
        /\ b[h].node = key
        /\ \A k \in 0 .. s - 1 : k # h => b[k] = a[k]
    BY <1>2, <2>1 DEF Entries
  <2>4. /\ m \in Seq(Key) /\ Len(m) = Len(l) + 1
        /\ \A i \in 1 .. Len(l) : m[i] = l[i]
        /\ m[Len(l) + 1] = key
    BY <1>2, <2>1
  <2>5. ToSet(m) = ToSet(l) \union {key}
    <3>1. \A i \in 1 .. Len(m) : i \in 1 .. Len(l) \/ i = Len(l) + 1
      BY <1>4, <2>4
    <3>2. \A i \in 1 .. Len(l) : i \in 1 .. Len(m)
      BY <1>4, <2>4
    <3>3. Len(l) + 1 \in 1 .. Len(m)
      BY <1>4, <2>4
    <3>4. DOMAIN m = 1 .. Len(m) /\ DOMAIN l = 1 .. Len(l)
      BY <1>2, <2>4
    <3>5. ToSet(m) \subseteq ToSet(l) \union {key}
      BY <2>4, <3>1, <3>4 DEF ToSet
    <3>6. \A i \in 1 .. Len(l) : l[i] \in ToSet(m)
      BY <2>4, <3>2, <3>4 DEF ToSet
    <3>7. key \in ToSet(m)
      BY <2>4, <3>3, <3>4 DEF ToSet
    <3>8. ToSet(l) \subseteq ToSet(m)
      BY <3>4, <3>6 DEF ToSet
    <3>9. QED
      BY <3>5, <3>7, <3>8
  <2>6. IsInjective(m)
    <3> SUFFICES ASSUME NEW i \in 1 .. Len(m), NEW j \in 1 .. Len(m), m[i] = m[j]
                 PROVE  i = j
      BY <2>4 DEF IsInjective
    <3>1. \A k \in 1 .. Len(l) : l[k] # key
      BY <1>2, ElementIn
    <3>2. /\ i \in 1 .. Len(l) \/ i = Len(l) + 1
          /\ j \in 1 .. Len(l) \/ j = Len(l) + 1
      BY <1>4, <2>4
    <3>3. CASE i \in 1 .. Len(l) /\ j \in 1 .. Len(l)
      BY <1>2, <2>4, <3>3 DEF IsInjective
    <3>4. QED
      BY <2>4, <3>1, <3>2, <3>3
  <2>7. Absent(l, hash, h)
    BY <1>2, <1>7 DEF Leads
  <2>8. /\ Together(m, hash)
        /\ First(m, hash, h, Len(l) + 1)
        /\ \A k, p : First(l, hash, k, p) => First(m, hash, k, p)
        /\ \A k : k # h /\ Absent(l, hash, k) => Absent(m, hash, k)
    BY <1>1, <1>2, <2>1, <2>7, AppendFirst
  <2>9. ASSUME NEW k \in 0 .. s - 1
        PROVE  Leads(m, hash, k, b[k].node)
    <3>1. CASE k = h
      <4>1. key # NULL /\ Len(l) + 1 \in 1 .. Len(m) /\ key = m[Len(l) + 1]
        BY <1>4, <2>4, KeyAssumption
      <4>2. QED
        BY <2>3, <2>8, <3>1, <4>1 DEF Leads
    <3>2. CASE k # h /\ a[k].node = NULL
      BY <1>2, <2>3, <2>8, <3>2 DEF Leads
    <3>3. CASE k # h /\ a[k].node # NULL
      <4>1. PICK p \in 1 .. Len(l) : a[k].node = l[p] /\ First(l, hash, k, p)
        BY <1>2, <3>3 DEF Leads
      <4>2. p \in 1 .. Len(m) /\ m[p] = l[p] /\ First(m, hash, k, p)
        BY <1>4, <2>4, <2>8, <4>1
      <4>3. b[k].node = m[p] /\ b[k].node # NULL
        BY <2>3, <3>3, <4>1, <4>2
      <4>4. QED
        BY <4>2, <4>3 DEF Leads
    <3>4. QED
      BY <3>1, <3>2, <3>3
  <2>10. Cardinality(Used(s, b)) = u + 1
    <3>1. Used(s, b) = Used(s, a) \union {h} /\ h \notin Used(s, a)
      BY <1>2, <1>7, <2>3, KeyAssumption DEF Used
    <3>2. QED
      BY <1>3, <1>4, <3>1, FS_AddElement
  <2>11. Fields(m, s, b, Len(l) + 1, u + 1, c, f, r) = Table(m, s, b, f, r)
    <3>1. Len(m) - Cardinality(Used(s, b)) = c
      BY <1>3, <1>4, <2>4, <2>10
    <3>2. QED
      BY <2>4, <2>10, <3>1 DEF Fields, Table
  <2>12. Chained(m, s, b)
    BY <1>1, <1>2, <2>3, <2>4, <2>6, <2>8, <2>9 DEF Chained
  <2>13. QED
    BY <1>5, <2>2, <2>5, <2>11, <2>12 DEF Holds
<1>8. CASE a[h].node # NULL
  <2>1. PICK q \in 1 .. Len(l) : a[h].node = l[q] /\ First(l, hash, h, q)
    BY <1>2, <1>8 DEF Leads
  <2>2. PICK m : m = dl_list_insert_after(l, a[h].node, key)
    OBVIOUS
  <2>3. m = InsertAt(l, q + 1, key)
    BY <1>2, <2>1, <2>2, PositionOnly DEF dl_list_insert_after
  <2>4. hashtab_insert_impl(Fields(l, s, a, Len(l), u, c, f, r), key)
           = Fields(m, s, a, Len(l) + 1, u, c + 1, f, r)
    BY <1>8, <1>6, <2>2
  <2>5. m \in Seq(Key) /\ Len(m) = Len(l) + 1 /\ ToSet(m) = ToSet(l) \union {key} /\ IsInjective(m)
    <3>1. PICK p \in 1 .. Len(l) + 1 : p = q + 1
      BY <1>4
    <3>2. InsertAt(l, p, key) \in Seq(Key) /\ WithInserted(InsertAt(l, p, key), l, p, key)
      BY <1>2, InsertAtIs
    <3>3. ToSet(InsertAt(l, p, key)) = ToSet(l) \union {key} /\ IsInjective(InsertAt(l, p, key))
      BY <1>2, InsertAtSet
    <3>4. QED
      BY <2>3, <3>1, <3>2, <3>3 DEF WithInserted
  <2>6. First(l, hash, hash[key], q)
    BY <1>1, <2>1
  <2>7. /\ Together(m, hash)
        /\ First(m, hash, h, q) /\ m[q] = l[q]
        /\ \A k, p : k # h /\ First(l, hash, k, p) =>
              LET place == IF p <= q THEN p ELSE p + 1
              IN  First(m, hash, k, place) /\ m[place] = l[p]
        /\ \A k : k # h /\ Absent(l, hash, k) => Absent(m, hash, k)
    BY <1>1, <1>2, <2>3, <2>6, InsertBehindFirst
  <2>8. ASSUME NEW k \in 0 .. s - 1
        PROVE  Leads(m, hash, k, a[k].node)
    <3>1. CASE k = h
      <4>1. q \in 1 .. Len(m)
        BY <1>4, <2>5
      <4>2. QED
        BY <1>8, <2>1, <2>7, <3>1, <4>1 DEF Leads
    <3>2. CASE k # h /\ a[k].node = NULL
      BY <1>2, <2>7, <3>2 DEF Leads
    <3>3. CASE k # h /\ a[k].node # NULL
      <4>1. PICK p \in 1 .. Len(l) : a[k].node = l[p] /\ First(l, hash, k, p)
        BY <1>2, <3>3 DEF Leads
      <4>2. PICK place : place = IF p <= q THEN p ELSE p + 1
        OBVIOUS
      <4>3. First(m, hash, k, place) /\ m[place] = l[p]
        BY <2>7, <3>3, <4>1, <4>2
      <4>4. place \in 1 .. Len(m)
        BY <4>3 DEF First
      <4>5. QED
        BY <3>3, <4>1, <4>3, <4>4 DEF Leads
    <3>4. QED
      BY <3>1, <3>2, <3>3
  <2>9. Fields(m, s, a, Len(l) + 1, u, c + 1, f, r) = Table(m, s, a, f, r)
    <3>1. Len(m) - Cardinality(Used(s, a)) = c + 1
      BY <1>3, <1>4, <2>5
    <3>2. QED
      BY <1>3, <2>5, <3>1 DEF Fields, Table
  <2>10. Chained(m, s, a)
    BY <1>1, <1>2, <2>5, <2>7, <2>8 DEF Chained
  <2>11. QED
    BY <1>5, <2>4, <2>5, <2>9, <2>10 DEF Holds
<1>9. QED
  BY <1>7, <1>8

(* The same for a table known by its entries. *)
LEMMA InsertHolds ==
    ASSUME UseN = FALSE, NEW t, NEW keys, NEW s, NEW f, NEW r, Holds(t, keys, s, f, r),
           NEW key \in Key, key \notin keys
    PROVE  Holds(hashtab_insert_impl(t, key), keys \union {key}, s, f, r)
<1>1. PICK l, a : Chained(l, s, a) /\ ToSet(l) = keys /\ t = Table(l, s, a, f, r)
  BY DEF Holds
<1>2. Holds(hashtab_insert_impl(Table(l, s, a, f, r), key), ToSet(l) \union {key}, s, f, r)
  BY <1>1, InsertStep
<1>3. QED
  BY <1>1, <1>2

-----------------------------------------------------------------------------
(* A new table is empty (hashtab.c:55-71). *)
LEMMA NewTable ==
    ASSUME NEW s \in Nat \ {0}
    PROVE  \E b : Chained(<<>>, s, b) /\ hashtab_init(s) = Table(<<>>, s, b, DEFAULT_LOAD_FACTOR, TRUE)
<1>1. PICK b : b = [k \in 0 .. s - 1 |-> [node |-> NULL, n |-> 0]]
  OBVIOUS
<1>2. b \in [0 .. s - 1 -> Entries] /\ \A k \in 0 .. s - 1 : b[k].node = NULL
  BY <1>1 DEF Entries
<1>3. Chained(<<>>, s, b)
  BY <1>2 DEF Chained, Together, Leads, Absent, IsInjective
<1>4. Cardinality(Used(s, b)) = 0
  <2>1. Used(s, b) = {}
    BY <1>2 DEF Used
  <2>2. QED
    BY <2>1, FS_EmptySet
<1>5. hashtab_init(s) = Table(<<>>, s, b, DEFAULT_LOAD_FACTOR, TRUE)
  <2>1. /\ Len(<<>>) = 0 /\ Len(<<>>) - Cardinality(Used(s, b)) = 0
    BY <1>4
  <2>2. Table(<<>>, s, b, DEFAULT_LOAD_FACTOR, TRUE) =
           [list |-> <<>>, size |-> s, array |-> b, inserts |-> 0, buckets_used |-> 0,
            collisions |-> 0, load_factor |-> DEFAULT_LOAD_FACTOR, automatic_resize |-> TRUE]
    BY <1>4, <2>1 DEF Table
  <2>3. QED
    BY <1>1, <2>2 DEF hashtab_init
<1>6. QED
  BY <1>3, <1>5

(* What a table is after each of the nodes. *)
Progress(g, t, nodes, n) ==
    g = [i \in 0 .. n |-> IF i = 0 THEN t ELSE hashtab_insert_impl(g[i - 1], nodes[i])]

(* There is one table after each node. *)
LEMMA ProgressExists ==
    ASSUME NEW t, NEW nodes, NEW N \in Nat
    PROVE  \E g : Progress(g, t, nodes, N)
<1> DEFINE T == {n \in 0 .. N : ~ \E g : Progress(g, t, nodes, n)}
<1>1. SUFFICES ASSUME T # {}
               PROVE  FALSE
  OBVIOUS
<1>2. T \subseteq Nat
  OBVIOUS
<1>3. PICK n \in T : \A k \in T : n <= k
  BY <1>1, <1>2, LeastNatural
<1>4. n \in 0 .. N /\ ~ \E g : Progress(g, t, nodes, n)
  BY <1>3
<1>5. CASE n = 0
  <2>1. PICK g : g = [i \in 0 .. 0 |-> t]
    OBVIOUS
  <2>2. \A i \in 0 .. 0 : (IF i = 0 THEN t ELSE hashtab_insert_impl(g[i - 1], nodes[i])) = t
    OBVIOUS
  <2>3. g = [i \in 0 .. 0 |-> IF i = 0 THEN t ELSE hashtab_insert_impl(g[i - 1], nodes[i])]
    BY <2>1, <2>2
  <2>4. QED
    BY <1>4, <1>5, <2>3 DEF Progress
<1>6. CASE n # 0
  <2>1. n - 1 \in 0 .. N /\ ~(n <= n - 1)
    BY <1>4, <1>6
  <2>2. n - 1 \notin T
    BY <1>3, <2>1
  <2>3. PICK g : Progress(g, t, nodes, n - 1)
    BY <2>1, <2>2
  <2>4. PICK e : e = [i \in 0 .. n |-> IF i = n THEN hashtab_insert_impl(g[n - 1], nodes[n]) ELSE g[i]]
    OBVIOUS
  <2>5. ASSUME NEW i \in 0 .. n
        PROVE  e[i] = IF i = 0 THEN t ELSE hashtab_insert_impl(e[i - 1], nodes[i])
    <3>1. CASE i = n
      <4>1. n - 1 \in 0 .. n /\ n - 1 # n
        BY <2>1, <1>4
      <4>2. e[n - 1] = g[n - 1]
        BY <2>4, <4>1
      <4>3. QED
        BY <1>6, <2>4, <3>1, <4>2
    <3>2. CASE i # n
      <4>1. i \in 0 .. n - 1 /\ e[i] = g[i]
        BY <1>4, <2>4, <3>2
      <4>2. g[i] = IF i = 0 THEN t ELSE hashtab_insert_impl(g[i - 1], nodes[i])
        BY <2>3, <4>1 DEF Progress
      <4>3. CASE i = 0
        BY <4>1, <4>2, <4>3
      <4>4. CASE i # 0
        <5>1. i - 1 \in 0 .. n /\ i - 1 # n
          BY <1>4, <4>1, <4>4
        <5>2. e[i - 1] = g[i - 1]
          BY <2>4, <5>1
        <5>3. QED
          BY <4>1, <4>2, <4>4, <5>2
      <4>5. QED
        BY <4>3, <4>4
    <3>3. QED
      BY <3>1, <3>2
  <2>6. e = [i \in 0 .. n |-> IF i = 0 THEN t ELSE hashtab_insert_impl(e[i - 1], nodes[i])]
    BY <2>4, <2>5
  <2>7. QED
    BY <1>4, <2>6 DEF Progress
<1>7. QED
  BY <1>5, <1>6

(* Nodes that are new to a table all go in (hashtab.c:323-340). *)
LEMMA AllInserted ==
    ASSUME UseN = FALSE, NEW t, NEW keys, NEW s, NEW f, NEW r, Holds(t, keys, s, f, r),
           NEW nodes \in Seq(Key), IsInjective(nodes), ToSet(nodes) \intersect keys = {}
    PROVE  Holds(InsertedAll(t, nodes), keys \union ToSet(nodes), s, f, r)
<1>1. PICK N \in Nat : N = Len(nodes)
  OBVIOUS
<1>2. PICK g : Progress(g, t, nodes, N)
  BY ProgressExists
<1>3. \E after : Progress(after, t, nodes, N) /\ InsertedAll(t, nodes) = after[N]
  BY <1>1, <1>2 DEF Progress, InsertedAll
<1>4. PICK after : Progress(after, t, nodes, N) /\ InsertedAll(t, nodes) = after[N]
  BY <1>3
<1>5. \A i \in 0 .. N : after[i] = IF i = 0 THEN t ELSE hashtab_insert_impl(after[i - 1], nodes[i])
  BY <1>4 DEF Progress
<1> DEFINE In(i) == {nodes[j] : j \in 1 .. i}
           Right(i) == Holds(after[i], keys \union In(i), s, f, r)
           T == {i \in 0 .. N : ~Right(i)}
<1>6. T = {}
  <2>1. SUFFICES ASSUME T # {}
                 PROVE  FALSE
    OBVIOUS
  <2>2. T \subseteq Nat
    OBVIOUS
  <2> HIDE DEF In, Right
  <2>3. PICK i \in T : \A k \in T : i <= k
    BY <2>1, <2>2, LeastNatural
  <2>4. i \in 0 .. N /\ ~Right(i)
    BY <2>3
  <2>5. CASE i = 0
    <3>1. after[0] = t
      BY <1>5
    <3>2. In(0) = {}
      BY DEF In
    <3>3. keys \union In(0) = keys
      BY <3>2
    <3>4. Right(0)
      BY <3>1, <3>3 DEF Right
    <3>5. QED
      BY <2>4, <2>5, <3>4
  <2>6. CASE i # 0
    <3>1. PICK k \in 0 .. N : k = i - 1
      BY <2>4, <2>6
    <3>2. Right(k)
      BY <2>3, <2>4, <3>1
    <3>3. PICK key : key = nodes[i]
      OBVIOUS
    <3>4. i \in 1 .. N /\ key \in Key /\ key \in ToSet(nodes)
      BY <1>1, <2>4, <2>6, <3>3, ElementIn
    <3>5. \A j \in 1 .. k : j \in 1 .. N /\ j # i
      BY <2>4, <3>1
    <3>6. key \notin In(k)
      BY <1>1, <3>3, <3>4, <3>5 DEF In, IsInjective
    <3>7. key \notin keys \union In(k)
      BY <3>4, <3>6
    <3>8. Holds(hashtab_insert_impl(after[k], key), (keys \union In(k)) \union {key}, s, f, r)
      BY <3>2, <3>4, <3>7, InsertHolds DEF Right
    <3>9. after[i] = hashtab_insert_impl(after[k], key)
      BY <1>5, <2>4, <2>6, <3>1, <3>3
    <3>10. In(i) = In(k) \union {key}
      <4>1. \A j : j \in 1 .. i <=> j \in 1 .. k \/ j = i
        BY <2>4, <2>6, <3>1
      <4>2. QED
        BY <3>3, <4>1 DEF In
    <3>11. (keys \union In(k)) \union {key} = keys \union In(i)
      BY <3>10
    <3>12. Right(i)
      BY <3>8, <3>9, <3>11 DEF Right
    <3>13. QED
      BY <2>4, <3>12
  <2>7. QED
    BY <2>5, <2>6
<1>7. Right(N)
  <2>1. N \in 0 .. N
    OBVIOUS
  <2>2. QED
    BY <1>6, <2>1
<1>8. In(N) = ToSet(nodes)
  BY <1>1 DEF ToSet
<1> HIDE DEF In
<1>9. QED
  BY <1>4, <1>7, <1>8

(* A resize keeps the entries, and forgets what a user has set (hashtab.c:323-341). *)
LEMMA ResizedHolds ==
    ASSUME UseN = FALSE, NEW t, NEW keys, NEW s, NEW f, NEW r, Holds(t, keys, s, f, r),
           NEW newsize \in Nat \ {0}
    PROVE  Holds(Resized(t, newsize), keys, newsize, DEFAULT_LOAD_FACTOR, TRUE)
<1>1. PICK l, a : Chained(l, s, a) /\ ToSet(l) = keys /\ t = Table(l, s, a, f, r)
  BY DEF Holds
<1>2. l \in Seq(Key) /\ IsInjective(l) /\ t.list = l
  BY <1>1 DEF Chained, Table
<1>3. Holds(hashtab_init(newsize), {}, newsize, DEFAULT_LOAD_FACTOR, TRUE)
  <2>1. PICK b : /\ Chained(<<>>, newsize, b)
                 /\ hashtab_init(newsize) = Table(<<>>, newsize, b, DEFAULT_LOAD_FACTOR, TRUE)
    BY NewTable
  <2>2. ToSet(<<>>) = {}
    BY DEF ToSet
  <2>3. QED
    BY <2>1, <2>2 DEF Holds
<1>4. PICK e : e = hashtab_init(newsize)
  OBVIOUS
<1>5. Holds(InsertedAll(e, l), {} \union ToSet(l), newsize, DEFAULT_LOAD_FACTOR, TRUE)
  BY <1>2, <1>3, <1>4, AllInserted
<1>6. {} \union ToSet(l) = keys
  BY <1>1
<1>7. QED
  BY <1>2, <1>4, <1>5, <1>6 DEF Resized

-----------------------------------------------------------------------------
(* The table after hashtab_remove, and what it assigns. *)
Removed(t, key) == [RemoveNoN(t, key) EXCEPT !.inserts = @ - 1, !.list = dl_list_remove(@, key)]

RemovedIs(l, s, a, u, c, f, r, key, h, p) ==
    Removed(Fields(l, s, a, Len(l), u, c, f, r), key) =
       IF a[h].node # key
       THEN Fields(RemoveAt(l, p), s, a, Len(l) - 1, u, c - 1, f, r)
       ELSE IF p < Len(l) /\ Hashes(s)[l[p + 1]] = h
       THEN Fields(RemoveAt(l, p), s, [a EXCEPT ![h].node = l[p + 1]], Len(l) - 1, u, c - 1, f, r)
       ELSE Fields(RemoveAt(l, p), s, [a EXCEPT ![h].node = NULL], Len(l) - 1, u - 1, c, f, r)

(* hashtab_remove_impl_no_n_impl assigns that (hashtab.c:244-307). *)
LEMMA RemoveResult ==
    ASSUME NEW l, NEW s, NEW a, Chained(l, s, a), NEW f, NEW r, NEW key,
           NEW p \in 1 .. Len(l), key = l[p],
           NEW h, h = Hashes(s)[key], NEW u \in Nat, NEW c \in Int
    PROVE  RemovedIs(l, s, a, u, c, f, r, key, h, p)
<1>1. PICK t : t = Fields(l, s, a, Len(l), u, c, f, r)
  OBVIOUS
<1>2. /\ l \in Seq(Key) /\ IsInjective(l) /\ s \in Nat \ {0} /\ a \in [0 .. s - 1 -> Entries]
      /\ key \in Key /\ h \in 0 .. s - 1
  <2>1. l \in Seq(Key) /\ IsInjective(l) /\ s \in Nat \ {0} /\ a \in [0 .. s - 1 -> Entries]
    BY DEF Chained
  <2>2. key \in Key
    BY <2>1
  <2>3. Hashes(s) \in [Key -> 0 .. s - 1]
    BY <2>1, HashesType
  <2>4. QED
    BY <2>1, <2>2, <2>3
<1>3. /\ t.array = a /\ t.list = l /\ t.collisions = c /\ t.buckets_used = u
      /\ \A k \in Key : Bucket(t, k) = Hashes(s)[k]
  BY <1>1 DEF Bucket, Hashes, Fields
<1>4. Bucket(t, key) = h
  BY <1>2, <1>3
<1>5. Position(t.list, key) = p /\ Position(l, key) = p
  BY <1>2, <1>3, PositionOnly
<1>6. ASSUME NEW b, NEW v, NEW d, RemoveNoN(t, key) = Fields(l, s, b, Len(l), v, d, f, r)
      PROVE  Removed(t, key) = Fields(RemoveAt(l, p), s, b, Len(l) - 1, v, d, f, r)
  <2>1. PICK m : m = Fields(l, s, b, Len(l), v, d, f, r)
    OBVIOUS
  <2>2. m.inserts = Len(l) /\ m.list = l
    BY <2>1 DEF Fields
  <2>3. PICK n : n = [m EXCEPT !.inserts = Len(l) - 1]
    OBVIOUS
  <2>4. n = Fields(l, s, b, Len(l) - 1, v, d, f, r)
    BY <2>1, <2>3 DEF Fields
  <2>5. Removed(t, key) = [n EXCEPT !.list = dl_list_remove(l, key)]
    BY <1>6, <2>1, <2>2, <2>3 DEF Removed
  <2>6. dl_list_remove(l, key) = RemoveAt(l, p)
    BY <1>5 DEF dl_list_remove
  <2>7. [n EXCEPT !.list = RemoveAt(l, p)] = Fields(RemoveAt(l, p), s, b, Len(l) - 1, v, d, f, r)
    BY <2>4 DEF Fields
  <2>8. QED
    BY <2>5, <2>6, <2>7
<1>7. CASE a[h].node # key
  <2>1. RemoveNoN(t, key) = [t EXCEPT !.collisions = c - 1]
    BY <1>3, <1>4, <1>7 DEF RemoveNoN
  <2>2. RemoveNoN(t, key) = Fields(l, s, a, Len(l), u, c - 1, f, r)
    BY <1>1, <2>1 DEF Fields
  <2>3. QED
    BY <1>1, <1>6, <1>7, <2>2 DEF RemovedIs
<1>8. ASSUME NEW node
      PROVE  [t EXCEPT !.array[h].node = node]
                = Fields(l, s, [a EXCEPT ![h].node = node], Len(l), u, c, f, r)
  <2>1. [t EXCEPT !.array[h].node = node] = [t EXCEPT !.array = [a EXCEPT ![h].node = node]]
    BY <1>3
  <2>2. QED
    BY <1>1, <2>1 DEF Fields
<1>9. CASE a[h].node = key /\ p < Len(l) /\ Hashes(s)[l[p + 1]] = h
  <2>1. PICK q \in 1 .. Len(l) : q = p + 1
    BY <1>2, <1>9
  <2>2. PICK node, b : node = l[q] /\ b = [a EXCEPT ![h].node = node]
    OBVIOUS
  <2>3. node \in Key /\ Bucket(t, node) = h
    BY <1>2, <1>3, <1>9, <2>1, <2>2
  <2>4. RemoveNoN(t, key) = [t EXCEPT !.array[h].node = node, !.collisions = @ - 1]
    BY <1>3, <1>4, <1>5, <1>9, <2>1, <2>2, <2>3 DEF RemoveNoN
  <2>5. PICK m : m = [t EXCEPT !.array[h].node = node]
    OBVIOUS
  <2>6. m = Fields(l, s, b, Len(l), u, c, f, r)
    BY <1>8, <2>2, <2>5
  <2>7. RemoveNoN(t, key) = [m EXCEPT !.collisions = c - 1]
    BY <1>3, <2>4, <2>5
  <2>8. RemoveNoN(t, key) = Fields(l, s, b, Len(l), u, c - 1, f, r)
    BY <2>6, <2>7 DEF Fields
  <2>9. Removed(t, key) = Fields(RemoveAt(l, p), s, b, Len(l) - 1, u, c - 1, f, r)
    BY <1>6, <2>8
  <2>10. QED
    BY <1>1, <1>9, <2>1, <2>2, <2>9 DEF RemovedIs
<1>10. CASE a[h].node = key /\ ~(p < Len(l) /\ Hashes(s)[l[p + 1]] = h)
  <2>1. ~(p < Len(l) /\ Bucket(t, l[p + 1]) = h)
    <3>1. SUFFICES ASSUME p < Len(l), Bucket(t, l[p + 1]) = h
                   PROVE  FALSE
      OBVIOUS
    <3>2. PICK q \in 1 .. Len(l) : q = p + 1
      BY <1>2, <3>1
    <3>3. l[q] \in Key
      BY <1>2
    <3>4. QED
      BY <1>3, <1>10, <3>1, <3>2, <3>3
  <2>2. PICK b : b = [a EXCEPT ![h].node = NULL]
    OBVIOUS
  <2>3. RemoveNoN(t, key) = [t EXCEPT !.array[h].node = NULL, !.buckets_used = @ - 1]
    BY <1>3, <1>4, <1>5, <1>10, <2>1 DEF RemoveNoN
  <2>4. PICK m : m = [t EXCEPT !.array[h].node = NULL]
    OBVIOUS
  <2>5. m = Fields(l, s, b, Len(l), u, c, f, r)
    BY <1>8, <2>2, <2>4
  <2>6. RemoveNoN(t, key) = [m EXCEPT !.buckets_used = u - 1]
    BY <1>3, <2>3, <2>4
  <2>7. RemoveNoN(t, key) = Fields(l, s, b, Len(l), u - 1, c, f, r)
    BY <2>5, <2>6 DEF Fields
  <2>8. Removed(t, key) = Fields(RemoveAt(l, p), s, b, Len(l) - 1, u - 1, c, f, r)
    BY <1>6, <2>7
  <2>9. QED
    BY <1>1, <1>10, <2>2, <2>8 DEF RemovedIs
<1>11. QED
  BY <1>7, <1>9, <1>10

(* A removal keeps buckets and counters right. *)
LEMMA RemoveStep ==
    ASSUME NEW l, NEW s, NEW a, Chained(l, s, a), NEW f, NEW r, NEW key \in ToSet(l)
    PROVE  Holds(Removed(Table(l, s, a, f, r), key), ToSet(l) \ {key}, s, f, r)
<1>1. PICK p \in 1 .. Len(l) : key = l[p]
  BY DEF ToSet, Chained
<1>2. PICK h, hash : hash = Hashes(s) /\ h = hash[key]
  OBVIOUS
<1>3. /\ l \in Seq(Key) /\ IsInjective(l) /\ s \in Nat \ {0} /\ a \in [0 .. s - 1 -> Entries]
      /\ key \in Key /\ h \in 0 .. s - 1 /\ h = hash[l[p]]
      /\ Together(l, hash) /\ \A k \in 0 .. s - 1 : Leads(l, hash, k, a[k].node)
  <2>1. /\ l \in Seq(Key) /\ IsInjective(l) /\ s \in Nat \ {0} /\ a \in [0 .. s - 1 -> Entries]
        /\ Together(l, hash) /\ \A k \in 0 .. s - 1 : Leads(l, hash, k, a[k].node)
    BY <1>2 DEF Chained
  <2>2. key \in Key
    BY <1>1, <2>1
  <2>3. hash \in [Key -> 0 .. s - 1]
    BY <1>2, <2>1, HashesType
  <2>4. QED
    BY <1>1, <1>2, <2>1, <2>2, <2>3
<1>4. PICK u, c : u = Cardinality(Used(s, a)) /\ c = Len(l) - u
  OBVIOUS
<1>5. IsFiniteSet(Used(s, a)) /\ u \in Nat /\ c \in Int /\ Len(l) \in Nat
  BY <1>3, <1>4, UsedFinite
<1>6. Table(l, s, a, f, r) = Fields(l, s, a, Len(l), u, c, f, r)
  BY <1>4 DEF Table, Fields
<1>7. PICK t, m : t = Table(l, s, a, f, r) /\ m = RemoveAt(l, p)
  OBVIOUS
<1>8. Removed(t, key) =
       IF a[h].node # key
       THEN Fields(m, s, a, Len(l) - 1, u, c - 1, f, r)
       ELSE IF p < Len(l) /\ hash[l[p + 1]] = h
       THEN Fields(m, s, [a EXCEPT ![h].node = l[p + 1]], Len(l) - 1, u, c - 1, f, r)
       ELSE Fields(m, s, [a EXCEPT ![h].node = NULL], Len(l) - 1, u - 1, c, f, r)
  <2>1. h = Hashes(s)[key]
    BY <1>2
  <2>2. u \in Nat /\ c \in Int
    BY <1>5
  <2>3. RemovedIs(l, s, a, u, c, f, r, key, h, p)
    BY <1>1, <2>1, <2>2, RemoveResult
  <2>4. QED
    BY <1>2, <1>6, <1>7, <2>3 DEF RemovedIs
<1>9. m \in Seq(Key) /\ Len(m) = Len(l) - 1 /\ ToSet(m) = ToSet(l) \ {key} /\ IsInjective(m)
  <2>1. m \in Seq(Key) /\ WithRemoved(m, l, p)
    BY <1>1, <1>3, <1>7, RemoveAtIs
  <2>2. ToSet(m) = ToSet(l) \ {l[p]} /\ IsInjective(m)
    BY <1>1, <1>3, <1>7, RemoveAtSet
  <2>3. QED
    BY <1>1, <1>3, <2>1, <2>2 DEF WithRemoved
<1>10. /\ Together(m, hash)
       /\ \A k, q : q # p /\ First(l, hash, k, q) =>
             LET place == IF q < p THEN q ELSE q - 1
             IN  First(m, hash, k, place) /\ m[place] = l[q]
       /\ \A k : Absent(l, hash, k) => Absent(m, hash, k)
       /\ First(l, hash, h, p) =>
             IF p < Len(l) /\ hash[l[p + 1]] = h
             THEN First(m, hash, h, p) /\ m[p] = l[p + 1]
             ELSE Absent(m, hash, h)
  BY <1>3, <1>7, RemovePlaces
(* A bucket that leads to another node leads to it still. *)
<1>11. ASSUME NEW k \in 0 .. s - 1, a[k].node # key
       PROVE  Leads(m, hash, k, a[k].node)
  <2>1. CASE a[k].node = NULL
    BY <1>3, <1>10, <2>1 DEF Leads
  <2>2. CASE a[k].node # NULL
    <3>1. PICK q \in 1 .. Len(l) : a[k].node = l[q] /\ First(l, hash, k, q)
      BY <1>3, <2>2 DEF Leads
    <3>2. q # p
      BY <1>1, <1>11, <3>1
    <3>3. PICK place : place = IF q < p THEN q ELSE q - 1
      OBVIOUS
    <3>4. First(m, hash, k, place) /\ m[place] = l[q]
      BY <1>10, <3>1, <3>2, <3>3
    <3>5. place \in 1 .. Len(m)
      BY <3>4 DEF First
    <3>6. QED
      BY <2>2, <3>1, <3>4, <3>5 DEF Leads
  <2>3. QED
    BY <2>1, <2>2
(* No other bucket leads to the node. *)
<1>12. ASSUME NEW k \in 0 .. s - 1, a[k].node = key
       PROVE  k = h /\ First(l, hash, h, p)
  <2>1. key # NULL
    BY <1>3, KeyAssumption
  <2>2. PICK q \in 1 .. Len(l) : key = l[q] /\ First(l, hash, k, q)
    BY <1>3, <1>12, <2>1 DEF Leads
  <2>3. \A i, j \in 1 .. Len(l) : l[i] = l[j] => i = j
    BY <1>3 DEF IsInjective
  <2>4. q = p
    BY <1>1, <2>2, <2>3
  <2>5. QED
    BY <1>3, <2>2, <2>4 DEF First
<1>13. ASSUME NEW b, NEW v, NEW d,
              b \in [0 .. s - 1 -> Entries], \A k \in 0 .. s - 1 : Leads(m, hash, k, b[k].node),
              v = Cardinality(Used(s, b)), d = Len(m) - v,
              Removed(t, key) = Fields(m, s, b, Len(l) - 1, v, d, f, r)
       PROVE  Holds(Removed(t, key), ToSet(l) \ {key}, s, f, r)
  <2>1. Chained(m, s, b)
    BY <1>2, <1>3, <1>9, <1>10, <1>13 DEF Chained
  <2>2. Fields(m, s, b, Len(l) - 1, v, d, f, r) = Table(m, s, b, f, r)
    BY <1>9, <1>13 DEF Fields, Table
  <2>3. QED
    BY <1>9, <1>13, <2>1, <2>2 DEF Holds
<1>14. CASE a[h].node # key
  <2>1. Removed(t, key) = Fields(m, s, a, Len(l) - 1, u, c - 1, f, r)
    BY <1>8, <1>14
  <2>2. \A k \in 0 .. s - 1 : Leads(m, hash, k, a[k].node)
    BY <1>11, <1>12, <1>14
  <2>3. c - 1 = Len(m) - u
    BY <1>4, <1>5, <1>9
  <2>4. QED
    BY <1>3, <1>4, <1>7, <1>13, <2>1, <2>2, <2>3
<1>15. ASSUME NEW node \in Key \union {NULL}, NEW b, a[h].node = key,
              b = [a EXCEPT ![h].node = node], Leads(m, hash, h, node)
       PROVE  /\ b \in [0 .. s - 1 -> Entries]
              /\ \A k \in 0 .. s - 1 : Leads(m, hash, k, b[k].node)
              /\ Used(s, b) = IF node = NULL THEN Used(s, a) \ {h} ELSE Used(s, a)
  <2>1. /\ b \in [0 .. s - 1 -> Entries]
        /\ b[h].node = node
        /\ \A k \in 0 .. s - 1 : k # h => b[k] = a[k]
    BY <1>3, <1>15 DEF Entries
  <2>2. \A k \in 0 .. s - 1 : k # h => Leads(m, hash, k, a[k].node)
    BY <1>11, <1>12
  <2>3. \A k \in 0 .. s - 1 : Leads(m, hash, k, b[k].node)
    BY <1>15, <2>1, <2>2
  <2>4. key # NULL
    BY <1>3, KeyAssumption
  <2>5. QED
    BY <1>3, <1>15, <2>1, <2>3, <2>4 DEF Used
<1>16. CASE a[h].node = key /\ p < Len(l) /\ hash[l[p + 1]] = h
  <2>1. PICK node, b : node = l[p + 1] /\ b = [a EXCEPT ![h].node = node]
    OBVIOUS
  <2>2. Removed(t, key) = Fields(m, s, b, Len(l) - 1, u, c - 1, f, r)
    BY <1>8, <1>16, <2>1
  <2>3. node \in Key /\ node # NULL
    <3>1. PICK q \in 1 .. Len(l) : q = p + 1
      BY <1>5, <1>16
    <3>2. QED
      BY <1>3, <2>1, <3>1, KeyAssumption
  <2>4. Leads(m, hash, h, node)
    <3>1. First(m, hash, h, p) /\ m[p] = node
      BY <1>3, <1>10, <1>12, <1>16, <2>1
    <3>2. p \in 1 .. Len(m)
      BY <3>1 DEF First
    <3>3. QED
      BY <2>3, <3>1, <3>2 DEF Leads
  <2>5. /\ b \in [0 .. s - 1 -> Entries]
        /\ \A k \in 0 .. s - 1 : Leads(m, hash, k, b[k].node)
        /\ Used(s, b) = Used(s, a)
    BY <1>15, <1>16, <2>1, <2>3, <2>4
  <2>6. u = Cardinality(Used(s, b)) /\ c - 1 = Len(m) - u
    BY <1>4, <1>5, <1>9, <2>5
  <2>7. QED
    BY <1>7, <1>13, <2>2, <2>5, <2>6
<1>17. CASE a[h].node = key /\ ~(p < Len(l) /\ hash[l[p + 1]] = h)
  <2>1. PICK b : b = [a EXCEPT ![h].node = NULL]
    OBVIOUS
  <2>2. Removed(t, key) = Fields(m, s, b, Len(l) - 1, u - 1, c, f, r)
    BY <1>8, <1>17, <2>1
  <2>3. Absent(m, hash, h)
    BY <1>3, <1>10, <1>12, <1>17
  <2>4. /\ b \in [0 .. s - 1 -> Entries]
        /\ \A k \in 0 .. s - 1 : Leads(m, hash, k, b[k].node)
        /\ Used(s, b) = Used(s, a) \ {h}
    <3>1. Leads(m, hash, h, NULL)
      BY <2>3 DEF Leads
    <3>2. NULL \in Key \union {NULL}
      OBVIOUS
    <3>3. QED
      BY <1>15, <1>17, <2>1, <3>1, <3>2
  <2>5. Cardinality(Used(s, b)) = u - 1
    <3>1. h \in Used(s, a)
      BY <1>3, <1>17, KeyAssumption DEF Used
    <3>2. QED
      BY <1>4, <1>5, <2>4, <3>1, FS_RemoveElement
  <2>6. c = Len(m) - (u - 1)
    BY <1>4, <1>5, <1>9
  <2>7. QED
    BY <1>7, <1>13, <2>2, <2>4, <2>5, <2>6
<1>18. QED
  BY <1>7, <1>14, <1>16, <1>17

(* The same for a table known by its entries. *)
LEMMA RemoveHolds ==
    ASSUME NEW t, NEW keys, NEW s, NEW f, NEW r, Holds(t, keys, s, f, r), NEW key \in keys
    PROVE  Holds(Removed(t, key), keys \ {key}, s, f, r)
<1>1. PICK l, a : Chained(l, s, a) /\ ToSet(l) = keys /\ t = Table(l, s, a, f, r)
  BY DEF Holds
<1>2. Holds(Removed(Table(l, s, a, f, r), key), ToSet(l) \ {key}, s, f, r)
  BY <1>1, RemoveStep
<1>3. QED
  BY <1>1, <1>2

-----------------------------------------------------------------------------
(* The fields of a right table, and the number of its entries. *)
LEMMA HoldsFields ==
    ASSUME NEW t, NEW keys, NEW s, NEW f, NEW r, Holds(t, keys, s, f, r)
    PROVE  /\ s \in Nat \ {0} /\ t.size = s /\ t.load_factor = f /\ t.automatic_resize = r
           /\ t.list \in Seq(Key) /\ IsInjective(t.list)
           /\ ToSet(t.list) = keys /\ keys \subseteq Key
           /\ t.inserts = Len(t.list)
           /\ IsFiniteSet(keys) /\ t.inserts = Cardinality(keys)
<1>1. PICK l, a : Chained(l, s, a) /\ ToSet(l) = keys /\ t = Table(l, s, a, f, r)
  BY DEF Holds
<1>2. s \in Nat \ {0} /\ l \in Seq(Key) /\ IsInjective(l) /\ Len(l) \in Nat
  BY <1>1 DEF Chained
<1>3. t.size = s /\ t.load_factor = f /\ t.automatic_resize = r /\ t.list = l /\ t.inserts = Len(l)
  BY <1>1 DEF Table
<1>4. keys \subseteq Key
  BY <1>1, <1>2 DEF ToSet
<1>5. IsFiniteSet(1 .. Len(l)) /\ Cardinality(1 .. Len(l)) = Len(l)
  <2>1. 1 \in Int /\ Len(l) \in Int /\ 1 <= Len(l) + 1
    BY <1>2
  <2>2. IsFiniteSet(1 .. Len(l)) /\ Cardinality(1 .. Len(l)) = Len(l) - 1 + 1
    BY <2>1, IntervalCount
  <2>3. QED
    BY <1>2, <2>2
<1>6. l \in Injection(1 .. Len(l), keys) /\ l \in Surjection(1 .. Len(l), keys)
  <2>1. l \in [1 .. Len(l) -> keys]
    BY <1>1, <1>2 DEF ToSet
  <2>2. \A x \in keys : \E i \in 1 .. Len(l) : l[i] = x
    BY <1>1, <1>2 DEF ToSet
  <2>3. QED
    BY <1>2, <2>1, <2>2 DEF Injection, Surjection
<1>7. IsFiniteSet(keys) /\ Cardinality(keys) = Len(l)
  BY <1>5, <1>6, FS_Surjection
<1>8. QED
  BY <1>1, <1>2, <1>3, <1>4, <1>7

(* A lookup finds the entries of a right table, and no other (hashtab.c:160-205):
   the entries from the first of the bucket to the one looked for have its hash. *)
LEMMA LookupRight ==
    ASSUME UseN = FALSE, NEW t, NEW keys, NEW s, NEW f, NEW r, Holds(t, keys, s, f, r),
           NEW key \in Key
    PROVE  hashtab_lookup(t, key) # NULL <=> key \in keys
<1>1. PICK l, a : Chained(l, s, a) /\ ToSet(l) = keys /\ t = Table(l, s, a, f, r)
  BY DEF Holds
<1>2. PICK h, hash : hash = Hashes(s) /\ h = hash[key]
  OBVIOUS
<1>3. /\ s \in Nat \ {0} /\ l \in Seq(Key) /\ IsInjective(l) /\ Len(l) \in Nat /\ DOMAIN l = 1 .. Len(l)
      /\ Together(l, hash) /\ \A k \in 0 .. s - 1 : Leads(l, hash, k, a[k].node)
  BY <1>1, <1>2 DEF Chained
<1>4. h \in 0 .. s - 1
  BY <1>2, <1>3, HashesType
<1>5. t.list = l /\ t.array = a /\ t.size = s
  BY <1>1 DEF Table
<1>6. \A k \in Key : Bucket(t, k) = hash[k]
  BY <1>2, <1>5 DEF Bucket, Hashes
<1>7. key # NULL
  BY KeyAssumption
<1>8. PICK from : from = Position(l, a[h].node)
  OBVIOUS
<1>9. Chain(t, h) = IF a[h].node \notin ToSet(l) THEN {}
                    ELSE {l[i] : i \in {j \in from .. Len(l) :
                                           \A k \in from .. j : Bucket(t, l[k]) = h}}
  BY <1>5, <1>8 DEF Chain
<1>10. hashtab_lookup(t, key) = IF key \in Chain(t, h) THEN key ELSE NULL
  BY <1>2, <1>6 DEF hashtab_lookup
<1>11. CASE key \in keys
  <2>1. PICK p \in 1 .. Len(l) : l[p] = key
    BY <1>1, <1>3, <1>11 DEF ToSet
  <2>2. a[h].node # NULL
    BY <1>2, <1>3, <1>4, <2>1 DEF Leads, Absent
  <2>3. PICK q \in 1 .. Len(l) : a[h].node = l[q] /\ First(l, hash, h, q)
    BY <1>3, <1>4, <2>2 DEF Leads
  <2>4. from = q /\ a[h].node \in ToSet(l)
    BY <1>3, <1>8, <2>3, PositionOnly, ElementIn
  <2>5. q <= p /\ hash[l[q]] = h /\ hash[l[p]] = h
    BY <1>2, <2>1, <2>3 DEF First
  <2>6. ASSUME NEW k \in from .. p
        PROVE  Bucket(t, l[k]) = h
    <3>1. k \in 1 .. Len(l) /\ q <= k /\ k <= p
      BY <1>3, <2>4
    <3>2. hash[l[k]] = h
      BY <1>3, <2>5, <3>1 DEF Together
    <3>3. l[k] \in Key
      BY <1>3, <3>1
    <3>4. QED
      BY <1>6, <3>2, <3>3
  <2>7. p \in from .. Len(l)
    BY <1>3, <2>4, <2>5
  <2>8. key \in Chain(t, h)
    BY <1>9, <2>1, <2>4, <2>6, <2>7
  <2>9. QED
    BY <1>7, <1>10, <1>11, <2>8
<1>12. CASE key \notin keys
  <2>1. key \notin Chain(t, h)
    <3>1. SUFFICES ASSUME key \in Chain(t, h)
                   PROVE  FALSE
      OBVIOUS
    <3>2. PICK i \in from .. Len(l) : a[h].node \in ToSet(l) /\ key = l[i]
      BY <1>9, <3>1
    <3>3. from \in 1 .. Len(l)
      BY <1>3, <1>8, <3>2, PositionOf
    <3>4. i \in 1 .. Len(l)
      BY <1>3, <3>2, <3>3
    <3>5. QED
      BY <1>1, <1>3, <1>12, <3>2, <3>4, ElementIn
  <2>2. QED
    BY <1>10, <1>12, <2>1
<1>13. QED
  BY <1>11, <1>12

(* The places of a hash in a right table, and what its bucket leads to. *)
Places(l, s, h) == {i \in 1 .. Len(l) : Hashes(s)[l[i]] = h}

LeadsToAll(l, places, node) ==
    IF places = {} THEN node = NULL
    ELSE \E p \in places : node = l[p] /\ places = p .. p + Cardinality(places) - 1

(* A bucket of a right table leads to all places of its hash. *)
LEMMA BucketRight ==
    ASSUME NEW l, NEW s, NEW a, Chained(l, s, a), NEW h \in 0 .. s - 1
    PROVE  LeadsToAll(l, Places(l, s, h), a[h].node)
<1>1. PICK hash, places : hash = Hashes(s) /\ places = Places(l, s, h)
  OBVIOUS
<1>2. /\ l \in Seq(Key) /\ Len(l) \in Nat /\ Together(l, hash) /\ Leads(l, hash, h, a[h].node)
      /\ \A i : i \in places <=> i \in 1 .. Len(l) /\ hash[l[i]] = h
  BY <1>1 DEF Chained, Places
<1>3. CASE places = {}
  <2>1. ~ \E p \in 1 .. Len(l) : First(l, hash, h, p)
    BY <1>2, <1>3 DEF First
  <2>2. QED
    BY <1>1, <1>2, <1>3, <2>1 DEF Leads, LeadsToAll
<1>4. CASE places # {}
  <2>1. a[h].node # NULL
    BY <1>2, <1>4 DEF Leads, Absent
  <2>2. PICK p \in 1 .. Len(l) : a[h].node = l[p] /\ First(l, hash, h, p)
    BY <1>2, <2>1 DEF Leads
  <2>3. p \in places /\ \A i \in places : p <= i
    BY <1>2, <2>2 DEF First
  <2> DEFINE T == {n \in 0 .. Len(l) : Len(l) - n \in places}
  <2>4. T \subseteq Nat /\ T # {}
    <3>1. PICK n \in 0 .. Len(l) : Len(l) - n = p
      <4>1. Len(l) - p \in 0 .. Len(l) /\ Len(l) - (Len(l) - p) = p
        BY <1>2
      <4>2. QED
        BY <4>1
    <3>2. Len(l) - n \in places
      BY <2>3, <3>1
    <3>3. T \subseteq Nat
      OBVIOUS
    <3>4. n \in T
      BY <3>2
    <3>5. QED
      BY <3>3, <3>4
  <2>5. PICK n \in T : \A k \in T : n <= k
    BY <2>4, LeastNatural
  <2>6. PICK last : last = Len(l) - n
    OBVIOUS
  <2>7. last \in places /\ n \in 0 .. Len(l)
    BY <2>5, <2>6
  <2>8. ASSUME NEW i \in places
        PROVE  i <= last
    <3>1. i \in 1 .. Len(l) /\ Len(l) - i \in 0 .. Len(l) /\ Len(l) - (Len(l) - i) = i
      BY <1>2
    <3>2. Len(l) - i \in T
      BY <3>1
    <3>3. n <= Len(l) - i
      BY <2>5, <3>2
    <3>4. QED
      BY <1>2, <2>6, <2>7, <3>1, <3>3
  <2>9. places = p .. last
    <3>1. ASSUME NEW i \in p .. last
          PROVE  i \in places
      <4>1. p \in 1 .. Len(l) /\ last \in 1 .. Len(l) /\ hash[l[p]] = h /\ hash[l[last]] = h
        BY <1>2, <2>3, <2>7
      <4>2. i \in 1 .. Len(l) /\ p <= i /\ i <= last
        BY <1>2, <4>1
      <4>3. hash[l[i]] = h
        BY <1>2, <4>1, <4>2 DEF Together
      <4>4. QED
        BY <1>2, <4>2, <4>3
    <3>2. ASSUME NEW i \in places
          PROVE  i \in p .. last
      <4>1. i \in 1 .. Len(l) /\ p <= i /\ i <= last /\ last \in 1 .. Len(l)
        BY <1>2, <2>3, <2>7, <2>8
      <4>2. QED
        BY <4>1
    <3>3. QED
      BY <3>1, <3>2
  <2>10. p \in Int /\ last \in Int /\ p <= last
    BY <1>2, <2>3, <2>7
  <2>11. Cardinality(places) = last - p + 1
    <3>1. p <= last + 1
      BY <2>10
    <3>2. Cardinality(p .. last) = last - p + 1
      BY <2>10, <3>1, IntervalCount
    <3>3. QED
      BY <2>9, <3>2
  <2>12. p + Cardinality(places) - 1 = last
    BY <2>10, <2>11
  <2>13. QED
    BY <1>1, <1>4, <2>2, <2>3, <2>9, <2>12 DEF LeadsToAll
<1>5. QED
  BY <1>3, <1>4

-----------------------------------------------------------------------------
(* The invariant: a right table, with what a user can have set, of a size the
   exploration allows. *)
Is(t, keys, s, f, r) ==
    Holds(t, keys, s, f, r) /\ s <= MaxSize /\ f \in 0 .. 10 /\ r \in BOOLEAN

IInv == \E keys, s, f, r : Is(table, keys, s, f, r)

(* A new table, of a size a user asks for (hashtab.c:55-71). *)
LEMMA NewIs ==
    ASSUME NEW s \in Sizes
    PROVE  Is(hashtab_init(s), {}, s, DEFAULT_LOAD_FACTOR, TRUE)
<1>1. s \in Nat \ {0} /\ s <= MaxSize
  BY SizesAssumption
<1>2. PICK b : /\ Chained(<<>>, s, b)
               /\ hashtab_init(s) = Table(<<>>, s, b, DEFAULT_LOAD_FACTOR, TRUE)
  BY <1>1, NewTable
<1>3. ToSet(<<>>) = {}
  BY DEF ToSet
<1>4. Holds(hashtab_init(s), {}, s, DEFAULT_LOAD_FACTOR, TRUE)
  BY <1>2, <1>3 DEF Holds
<1>5. DEFAULT_LOAD_FACTOR \in 0 .. 10
  BY DEF DEFAULT_LOAD_FACTOR
<1>6. QED
  BY <1>1, <1>4, <1>5 DEF Is

(* What an insertion makes of a right table: the resize comes first, and goes
   to more buckets than there were, two at least. *)
LEMMA InsertIs ==
    ASSUME UseN = FALSE, NEW keys, NEW s, NEW f, NEW r, Is(table, keys, s, f, r),
           NEW key \in Key, hashtab_insert(key)
    PROVE  /\ key \notin keys
           /\ IF NeedsResize(table)
              THEN Is(table', keys \union {key}, NewSize(table), DEFAULT_LOAD_FACTOR, TRUE)
              ELSE Is(table', keys \union {key}, s, f, r)
<1>1. Holds(table, keys, s, f, r) /\ s <= MaxSize /\ f \in 0 .. 10 /\ r \in BOOLEAN
  BY DEF Is
<1>2. s \in Nat \ {0} /\ table.size = s /\ ToSet(table.list) = keys
  BY <1>1, HoldsFields
<1>3. key \notin keys
  BY <1>2 DEF hashtab_insert
<1>4. CASE NeedsResize(table)
  <2>1. PICK n, t : n = NewSize(table) /\ t = Resized(table, n)
    OBVIOUS
  <2>2. n \in Nat \ {0}
    BY <1>2, <2>1 DEF NewSize, ENCR_MULTIPLIER
  <2>3. n <= MaxSize /\ table' = hashtab_insert_impl(t, key)
    BY <1>4, <2>1 DEF hashtab_insert
  <2>4. Holds(t, keys, n, DEFAULT_LOAD_FACTOR, TRUE)
    BY <1>1, <2>1, <2>2, ResizedHolds
  <2>5. Holds(table', keys \union {key}, n, DEFAULT_LOAD_FACTOR, TRUE)
    BY <1>3, <2>3, <2>4, InsertHolds
  <2>6. DEFAULT_LOAD_FACTOR \in 0 .. 10
    BY DEF DEFAULT_LOAD_FACTOR
  <2>7. QED
    BY <1>3, <1>4, <2>1, <2>3, <2>5, <2>6 DEF Is
<1>5. CASE ~NeedsResize(table)
  <2>1. table' = hashtab_insert_impl(table, key)
    BY <1>5 DEF hashtab_insert
  <2>2. Holds(table', keys \union {key}, s, f, r)
    BY <1>1, <1>3, <2>1, InsertHolds
  <2>3. QED
    BY <1>1, <1>3, <1>5, <2>2 DEF Is
<1>6. QED
  BY <1>4, <1>5

(* A removal finds the entry and takes it out, and only that. *)
LEMMA RemoveIs ==
    ASSUME UseN = FALSE, NEW keys, NEW s, NEW f, NEW r, Is(table, keys, s, f, r),
           NEW key \in Key, hashtab_remove(key)
    PROVE  key \in keys /\ Is(table', keys \ {key}, s, f, r)
<1>1. Holds(table, keys, s, f, r) /\ s <= MaxSize /\ f \in 0 .. 10 /\ r \in BOOLEAN
  BY DEF Is
<1>2. key \in keys
  BY <1>1, LookupRight DEF hashtab_remove
<1>3. table' = Removed(table, key)
  BY DEF hashtab_remove, Removed
<1>4. Holds(table', keys \ {key}, s, f, r)
  BY <1>1, <1>2, <1>3, RemoveHolds
<1>5. QED
  BY <1>1, <1>2, <1>4 DEF Is

(* A resize moves every entry and forgets the settings. *)
LEMMA ResizeIs ==
    ASSUME UseN = FALSE, NEW keys, NEW s, NEW f, NEW r, Is(table, keys, s, f, r),
           NEW newsize \in Sizes, hashtab_resize(newsize)
    PROVE  Is(table', keys, newsize, DEFAULT_LOAD_FACTOR, TRUE)
<1>1. Holds(table, keys, s, f, r)
  BY DEF Is
<1>2. newsize \in Nat \ {0} /\ newsize <= MaxSize
  BY SizesAssumption
<1>3. table' = Resized(table, newsize)
  BY DEF hashtab_resize
<1>4. Holds(table', keys, newsize, DEFAULT_LOAD_FACTOR, TRUE)
  BY <1>1, <1>2, <1>3, ResizedHolds
<1>5. DEFAULT_LOAD_FACTOR \in 0 .. 10
  BY DEF DEFAULT_LOAD_FACTOR
<1>6. QED
  BY <1>2, <1>4, <1>5 DEF Is

(* Changing a setting changes nothing else (hashtab.c:75-88). *)
LEMMA SettingsIs ==
    ASSUME NEW keys, NEW s, NEW f, NEW r, Is(table, keys, s, f, r)
    PROVE  /\ \A g \in LoadFactors : hashtab_set_load_factor(g) => Is(table', keys, s, g, r)
           /\ \A e \in BOOLEAN : hashtab_set_enabled_resize(e) => Is(table', keys, s, f, e)
           /\ \A g \in LoadFactors : hashtab_set_load_factor(g) => table'.list = table.list
           /\ \A e \in BOOLEAN : hashtab_set_enabled_resize(e) => table'.list = table.list
<1>1. Holds(table, keys, s, f, r) /\ s <= MaxSize /\ f \in 0 .. 10 /\ r \in BOOLEAN
  BY DEF Is
<1>2. PICK l, a : Chained(l, s, a) /\ ToSet(l) = keys /\ table = Table(l, s, a, f, r)
  BY <1>1 DEF Holds
<1>3. ASSUME NEW g \in LoadFactors, hashtab_set_load_factor(g)
      PROVE  Is(table', keys, s, g, r) /\ table'.list = table.list
  <2>1. table' = Table(l, s, a, g, r)
    BY <1>2, <1>3 DEF hashtab_set_load_factor, Table
  <2>2. Holds(table', keys, s, g, r)
    BY <1>2, <2>1 DEF Holds
  <2>3. g \in 0 .. 10
    BY LoadFactorsAssumption
  <2>4. table'.list = table.list
    BY <1>2, <2>1 DEF Table
  <2>5. QED
    BY <1>1, <2>2, <2>3, <2>4 DEF Is
<1>4. ASSUME NEW e \in BOOLEAN, hashtab_set_enabled_resize(e)
      PROVE  Is(table', keys, s, f, e) /\ table'.list = table.list
  <2>1. table' = Table(l, s, a, f, e)
    BY <1>2, <1>4 DEF hashtab_set_enabled_resize, Table
  <2>2. Holds(table', keys, s, f, e)
    BY <1>2, <2>1 DEF Holds
  <2>3. table'.list = table.list
    BY <1>2, <2>1 DEF Table
  <2>4. QED
    BY <1>1, <2>2, <2>3 DEF Is
<1>5. QED
  BY <1>3, <1>4

(* A freed table is followed by a new one. *)
LEMMA FreeIs ==
    ASSUME hashtab_free
    PROVE  \E s \in Sizes : Is(table', {}, s, DEFAULT_LOAD_FACTOR, TRUE)
  BY NewIs DEF hashtab_free

(* The invariant is inductive. *)
LEMMA Inductive ==
    ASSUME UseN = FALSE
    PROVE  /\ Init => IInv
           /\ IInv /\ [Next]_table => IInv'
<1>1. Init => IInv
  BY NewIs DEF Init, IInv
<1>2. ASSUME IInv, [Next]_table
      PROVE  IInv'
  <2>1. PICK keys, s, f, r : Is(table, keys, s, f, r)
    BY <1>2 DEF IInv
  <2>2. ASSUME NEW k, NEW n, NEW g, NEW e, Is(table', k, n, g, e)
        PROVE  IInv'
    BY <2>2 DEF IInv
  <2>3. CASE hashtab_free
    BY <2>2, <2>3, FreeIs
  <2>4. ASSUME NEW key \in Key, hashtab_insert(key)
        PROVE  IInv'
    BY <2>1, <2>2, <2>4, InsertIs
  <2>5. ASSUME NEW key \in Key, hashtab_remove(key)
        PROVE  IInv'
    BY <2>1, <2>2, <2>5, RemoveIs
  <2>6. ASSUME NEW newsize \in Sizes, hashtab_resize(newsize)
        PROVE  IInv'
    BY <2>1, <2>2, <2>6, ResizeIs
  <2>7. ASSUME NEW g \in LoadFactors, hashtab_set_load_factor(g)
        PROVE  IInv'
    BY <2>1, <2>2, <2>7, SettingsIs
  <2>8. ASSUME NEW e \in BOOLEAN, hashtab_set_enabled_resize(e)
        PROVE  IInv'
    BY <2>1, <2>2, <2>8, SettingsIs
  <2>9. CASE UNCHANGED table
    BY <1>2, <2>9 DEF IInv
  <2>10. QED
    BY <1>2, <2>3, <2>4, <2>5, <2>6, <2>7, <2>8, <2>9 DEF Next
<1>3. QED
  BY <1>1, <1>2

(* The invariant holds in every reachable state. *)
LEMMA Invariance ==
    ASSUME UseN = FALSE
    PROVE  Spec => []IInv
<1>1. Init => IInv
  BY Inductive
<1>2. IInv /\ [Next]_table => IInv'
  BY Inductive
<1>3. QED
  BY <1>1, <1>2, PTL DEF Spec

(* Every state is of the declared types; the number of collisions, which no
   entry left over would make negative, too (hashtab.c:115-134, 244-307). *)
THEOREM TypesHold ==
    ASSUME UseN = FALSE
    PROVE  Spec => []TypeOK
<1>1. IInv => TypeOK
  <2> SUFFICES ASSUME IInv
               PROVE  TypeOK
    OBVIOUS
  <2>1. PICK keys, s, f, r : Is(table, keys, s, f, r)
    BY DEF IInv
  <2>2. PICK l, a : Chained(l, s, a) /\ table = Table(l, s, a, f, r)
    BY <2>1 DEF Is, Holds
  <2>3. l \in Seq(Key) /\ s \in Nat \ {0} /\ a \in [0 .. s - 1 -> Entries]
    BY <2>2 DEF Chained
  <2>4. s \in 1 .. MaxSize /\ f \in 0 .. 10 /\ r \in BOOLEAN
    BY <2>1, <2>3, SizesAssumption DEF Is
  <2>5. PICK u : u = Cardinality(Used(s, a))
    OBVIOUS
  <2>6. u \in Nat /\ u <= Len(l) /\ Len(l) \in Nat
    BY <2>2, <2>3, <2>5, UsedFinite, UsedBounded
  <2>7. Len(l) - u \in Nat
    BY <2>6
  <2>8. /\ table.size = s /\ table.list = l /\ table.array = a
        /\ table.inserts = Len(l) /\ table.buckets_used = u /\ table.collisions = Len(l) - u
        /\ table.load_factor = f /\ table.automatic_resize = r
    BY <2>2, <2>5 DEF Table
  <2>9. table.array \in [0 .. table.size - 1 -> [node : Key \union {NULL}, n : Nat]]
    BY <2>3, <2>8 DEF Entries
  <2>10. QED
    BY <2>3, <2>4, <2>6, <2>7, <2>8, <2>9 DEF TypeOK
<1>2. QED
  BY <1>1, Invariance, PTL

(* A search that starts where the bucket points to and stops at the first other
   hash misses no entry (hashtab.c:47, 188), for any hash function. *)
THEOREM BucketsLeadToTheirNodes ==
    ASSUME UseN = FALSE
    PROVE  Spec => []BucketsIndexList
<1>1. IInv => BucketsIndexList
  <2> SUFFICES ASSUME IInv
               PROVE  BucketsIndexList
    OBVIOUS
  <2>1. PICK keys, s, f, r : Is(table, keys, s, f, r)
    BY DEF IInv
  <2>2. PICK l, a : Chained(l, s, a) /\ table = Table(l, s, a, f, r)
    BY <2>1 DEF Is, Holds
  <2>3. l \in Seq(Key) /\ s \in Nat \ {0} /\ a \in [0 .. s - 1 -> Entries] /\ DOMAIN l = 1 .. Len(l)
    BY <2>2 DEF Chained
  <2>4. table.size = s /\ table.list = l /\ table.array = a
    BY <2>2 DEF Table
  <2>5. ASSUME NEW h \in DOMAIN table.array
        PROVE  LET places == InBucket(h)
                   node == table.array[h].node
               IN  IF places = {} THEN node = NULL
                   ELSE \E first \in places :
                           /\ node = table.list[first]
                           /\ places = first .. first + Cardinality(places) - 1
    <3>1. h \in 0 .. s - 1
      BY <2>3, <2>4, <2>5
    <3>2. PICK places : places = Places(l, s, h)
      OBVIOUS
    <3>3. InBucket(h) = places
      <4>1. \A i \in 1 .. Len(l) : Bucket(table, l[i]) = Hashes(s)[l[i]]
        BY <2>3, <2>4 DEF Bucket, Hashes
      <4>2. QED
        BY <2>3, <2>4, <3>2, <4>1 DEF InBucket, Places
    <3>4. LeadsToAll(l, places, a[h].node)
      BY <2>2, <3>1, <3>2, BucketRight
    <3>5. QED
      BY <2>4, <3>3, <3>4 DEF LeadsToAll
  <2>6. QED
    BY <2>5 DEF BucketsIndexList
<1>2. QED
  BY <1>1, Invariance, PTL

(* What hashtab_get_stat returns is true (hashtab.h:29-37). *)
THEOREM CountersAreTrue ==
    ASSUME UseN = FALSE
    PROVE  Spec => []StatsAgree
<1>1. IInv => StatsAgree
  <2> SUFFICES ASSUME IInv
               PROVE  StatsAgree
    OBVIOUS
  <2>1. PICK keys, s, f, r : Is(table, keys, s, f, r)
    BY DEF IInv
  <2>2. PICK l, a : Chained(l, s, a) /\ table = Table(l, s, a, f, r)
    BY <2>1 DEF Is, Holds
  <2>3. l \in Seq(Key) /\ s \in Nat \ {0} /\ a \in [0 .. s - 1 -> Entries] /\ DOMAIN l = 1 .. Len(l)
    BY <2>2 DEF Chained
  <2>4. PICK u : u = Cardinality(Used(s, a))
    OBVIOUS
  <2>5. /\ table.size = s /\ table.list = l /\ table.array = a /\ table.inserts = Len(l)
        /\ table.buckets_used = u /\ table.collisions = Len(l) - u
    BY <2>2, <2>4 DEF Table
  <2>6. Cardinality(DOMAIN table.array) = s
    <3>1. 0 \in Int /\ s - 1 \in Int /\ 0 <= s - 1 + 1 /\ s - 1 - 0 + 1 = s
      BY <2>3
    <3>2. Cardinality(0 .. s - 1) = s - 1 - 0 + 1
      BY <3>1, IntervalCount
    <3>3. QED
      BY <2>3, <2>5, <3>1, <3>2
  <2>7. {h \in DOMAIN table.array : InBucket(h) # {}} = Used(s, a)
    <3>1. \A i \in 1 .. Len(l) : Bucket(table, l[i]) = Hashes(s)[l[i]]
      BY <2>3, <2>5 DEF Bucket, Hashes
    <3>2. ASSUME NEW h \in 0 .. s - 1
          PROVE  InBucket(h) = {} <=> a[h].node = NULL
      <4>1. InBucket(h) = {} <=> Absent(l, Hashes(s), h)
        BY <2>3, <2>5, <3>1 DEF InBucket, Absent
      <4>2. Leads(l, Hashes(s), h, a[h].node)
        BY <2>2 DEF Chained
      <4>3. QED
        BY <4>1, <4>2 DEF Leads, Absent, First
    <3>3. QED
      BY <2>3, <2>5, <3>2 DEF Used
  <2>8. hashtab_get_stat(table) = [size |-> s, inserts |-> Len(l), used |-> u, collisions |-> Len(l) - u]
    BY <2>5 DEF hashtab_get_stat
  <2>9. PICK stat : stat = hashtab_get_stat(table)
    OBVIOUS
  <2>10. stat.size = s /\ stat.inserts = Len(l) /\ stat.used = u /\ stat.collisions = Len(l) - u
    BY <2>8, <2>9
  <2>11. stat.used = Cardinality({h \in DOMAIN table.array : InBucket(h) # {}})
    BY <2>4, <2>7, <2>10
  <2>12. QED
    BY <2>5, <2>6, <2>9, <2>10, <2>11 DEF StatsAgree
<1>2. QED
  BY <1>1, Invariance, PTL

(* A lookup finds exactly the entries of the table (hashtab.h:46-48). *)
THEOREM EntriesAreFound ==
    ASSUME UseN = FALSE
    PROVE  Spec => []LookupsFind
<1>1. IInv => LookupsFind
  <2> SUFFICES ASSUME IInv
               PROVE  LookupsFind
    OBVIOUS
  <2>1. PICK keys, s, f, r : Is(table, keys, s, f, r)
    BY DEF IInv
  <2>2. Holds(table, keys, s, f, r)
    BY <2>1 DEF Is
  <2>3. ToSet(table.list) = keys
    BY <2>2, HoldsFields
  <2>4. QED
    BY <2>2, <2>3, LookupRight DEF LookupsFind
<1>2. QED
  BY <1>1, Invariance, PTL

(* A hash table is the set of the entries inserted and not removed: what it does
   with them is a step of EntrySet, or leaves them alone (hashtab.h:39-54). *)
THEOREM ImplementsEntrySet ==
    ASSUME UseN = FALSE
    PROVE  Spec => FollowsEntrySet
<1>1. Init => Set!Init
  <2> SUFFICES ASSUME Init
               PROVE  ToSet(table.list) = {}
    BY DEF Set!Init
  <2>1. PICK s \in Sizes : table = hashtab_init(s)
    BY DEF Init
  <2>2. Holds(table, {}, s, DEFAULT_LOAD_FACTOR, TRUE)
    BY <2>1, NewIs DEF Is
  <2>3. QED
    BY <2>2, HoldsFields
<1>2. ASSUME IInv, [Next]_table
      PROVE  [Set!Next]_(ToSet(table.list))
  <2>1. PICK keys, s, f, r : Is(table, keys, s, f, r)
    BY <1>2 DEF IInv
  <2>2. ToSet(table.list) = keys
    BY <2>1, HoldsFields DEF Is
  <2>3. ASSUME NEW k, NEW n, NEW g, NEW e, Is(table', k, n, g, e)
        PROVE  ToSet(table'.list) = k
    BY <2>3, HoldsFields DEF Is
  <2>4. CASE hashtab_free
    <3>1. ToSet(table'.list) = {}
      BY <2>3, <2>4, FreeIs
    <3>2. QED
      BY <3>1 DEF Set!Next, Set!Clear
  <2>5. ASSUME NEW key \in Key, hashtab_insert(key)
        PROVE  [Set!Next]_(ToSet(table.list))
    <3>1. ToSet(table'.list) = keys \union {key}
      BY <2>1, <2>3, <2>5, InsertIs
    <3>2. QED
      BY <2>2, <3>1 DEF Set!Next, Set!Insert
  <2>6. ASSUME NEW key \in Key, hashtab_remove(key)
        PROVE  [Set!Next]_(ToSet(table.list))
    <3>1. ToSet(table'.list) = keys \ {key}
      BY <2>1, <2>3, <2>6, RemoveIs
    <3>2. QED
      BY <2>2, <3>1 DEF Set!Next, Set!Remove
  <2>7. ASSUME NEW newsize \in Sizes, hashtab_resize(newsize)
        PROVE  [Set!Next]_(ToSet(table.list))
    <3>1. ToSet(table'.list) = keys
      BY <2>1, <2>3, <2>7, ResizeIs
    <3>2. QED
      BY <2>2, <3>1
  <2>8. ASSUME NEW g \in LoadFactors, hashtab_set_load_factor(g)
        PROVE  [Set!Next]_(ToSet(table.list))
    <3>1. table'.list = table.list
      BY <2>1, <2>8, SettingsIs
    <3>2. QED
      BY <3>1
  <2>9. ASSUME NEW e \in BOOLEAN, hashtab_set_enabled_resize(e)
        PROVE  [Set!Next]_(ToSet(table.list))
    <3>1. table'.list = table.list
      BY <2>1, <2>9, SettingsIs
    <3>2. QED
      BY <3>1
  <2>10. CASE UNCHANGED table
    BY <2>10
  <2>11. QED
    BY <1>2, <2>4, <2>5, <2>6, <2>7, <2>8, <2>9, <2>10 DEF Next
<1>3. Spec => []IInv
  BY Invariance
<1>4. QED
  BY <1>1, <1>2, <1>3, PTL DEF Spec, FollowsEntrySet, Set!Spec

(* Automatic resizing keeps up: at the default load factor or a lower one, a
   table with no more entries than buckets has no more after any call that
   changes its entries (hashtab.c:147-151). *)
THEOREM ResizingKeepsUp ==
    ASSUME UseN = FALSE
    PROVE  Spec => NeverCrowded
<1> DEFINE Calm == /\ table.automatic_resize /\ table.load_factor <= DEFAULT_LOAD_FACTOR
                   /\ table.inserts <= table.size
                   /\ ToSet(table.list) # ToSet(table'.list)
                   => table'.inserts <= table'.size
<1>1. ASSUME IInv, Next
      PROVE  Calm
  <2> SUFFICES ASSUME table.automatic_resize, table.load_factor <= DEFAULT_LOAD_FACTOR,
                      table.inserts <= table.size, ToSet(table.list) # ToSet(table'.list)
               PROVE  table'.inserts <= table'.size
    OBVIOUS
  <2>1. PICK keys, s, f, r : Is(table, keys, s, f, r)
    BY <1>1 DEF IInv
  <2>2. /\ s \in Nat \ {0} /\ table.size = s /\ table.load_factor = f
        /\ ToSet(table.list) = keys /\ IsFiniteSet(keys) /\ table.inserts = Cardinality(keys)
        /\ f \in 0 .. 10
    BY <2>1, HoldsFields DEF Is
  <2>3. PICK n \in Nat : n = Cardinality(keys)
    BY <2>2, FS_CardinalityType
  <2>4. n <= s /\ f \in 0 .. 7
    BY <2>2, <2>3 DEF DEFAULT_LOAD_FACTOR
  <2>5. ASSUME NEW k, NEW m, NEW g, NEW e, Is(table', k, m, g, e)
        PROVE  ToSet(table'.list) = k /\ table'.inserts = Cardinality(k) /\ table'.size = m
    BY <2>5, HoldsFields DEF Is
  <2>6. CASE hashtab_free
    <3>1. PICK m \in Sizes : Is(table', {}, m, DEFAULT_LOAD_FACTOR, TRUE)
      BY <2>6, FreeIs
    <3>2. table'.inserts = 0 /\ table'.size = m
      BY <2>5, <3>1, FS_EmptySet
    <3>3. QED
      BY <3>2, SizesAssumption
  <2>7. ASSUME NEW key \in Key, hashtab_insert(key)
        PROVE  table'.inserts <= table'.size
    <3>1. /\ key \notin keys
          /\ IF NeedsResize(table)
             THEN Is(table', keys \union {key}, NewSize(table), DEFAULT_LOAD_FACTOR, TRUE)
             ELSE Is(table', keys \union {key}, s, f, r)
      BY <2>1, <2>7, InsertIs
    <3>2. Cardinality(keys \union {key}) = n + 1
      BY <2>2, <2>3, <3>1, FS_AddElement
    <3>3. CASE NeedsResize(table)
      <4>1. table'.inserts = n + 1 /\ table'.size = NewSize(table)
        BY <2>5, <3>1, <3>2, <3>3
      <4>2. NewSize(table) \in Nat /\ s + 1 <= NewSize(table)
        BY <2>2 DEF NewSize, ENCR_MULTIPLIER
      <4>3. QED
        BY <2>2, <2>3, <2>4, <4>1, <4>2
    <3>4. CASE ~NeedsResize(table)
      <4>1. table'.inserts = n + 1 /\ table'.size = s
        BY <2>5, <3>1, <3>2, <3>4
      <4>2. ~(n * 10 > f * s)
        BY <2>2, <2>3, <3>4 DEF NeedsResize
      <4>3. f * s <= 7 * s
        <5>1. \/ f = 0 \/ f = 1 \/ f = 2 \/ f = 3 \/ f = 4 \/ f = 5 \/ f = 6 \/ f = 7
          BY <2>4
        <5>2. QED
          BY <2>2, <5>1
      <4>4. n * 10 <= 7 * s
        <5>1. f * s \in Nat
          <6>1. \A x, y \in Nat : x * y \in Nat
            OBVIOUS
          <6>2. QED
            BY <2>2, <6>1
        <5>2. QED
          BY <2>2, <4>2, <4>3, <5>1
      <4>5. n + 1 <= s
        BY <2>2, <4>4
      <4>6. QED
        BY <4>1, <4>5
    <3>5. QED
      BY <3>3, <3>4
  <2>8. ASSUME NEW key \in Key, hashtab_remove(key)
        PROVE  table'.inserts <= table'.size
    <3>1. key \in keys /\ Is(table', keys \ {key}, s, f, r)
      BY <2>1, <2>8, RemoveIs
    <3>2. Cardinality(keys \ {key}) = n - 1
      BY <2>2, <2>3, <3>1, FS_RemoveElement
    <3>3. table'.inserts = n - 1 /\ table'.size = s
      BY <2>5, <3>1, <3>2
    <3>4. QED
      BY <2>2, <2>4, <3>3
  <2>9. ASSUME NEW newsize \in Sizes, hashtab_resize(newsize)
        PROVE  FALSE
    <3>1. ToSet(table'.list) = keys
      BY <2>1, <2>5, <2>9, ResizeIs
    <3>2. QED
      BY <2>2, <3>1
  <2>10. ASSUME NEW g \in LoadFactors, hashtab_set_load_factor(g)
         PROVE  FALSE
    <3>1. table'.list = table.list
      BY <2>1, <2>10, SettingsIs
    <3>2. QED
      BY <3>1
  <2>11. ASSUME NEW e \in BOOLEAN, hashtab_set_enabled_resize(e)
         PROVE  FALSE
    <3>1. table'.list = table.list
      BY <2>1, <2>11, SettingsIs
    <3>2. QED
      BY <3>1
  <2>12. QED
    BY <1>1, <2>6, <2>7, <2>8, <2>9, <2>10, <2>11 DEF Next
<1>2. IInv /\ [Next]_table => [Calm]_table
  BY <1>1
<1>3. QED
  BY <1>2, Invariance, PTL DEF Spec, NeverCrowded
=============================================================================
