---- MODULE BreakpointTableProofs ----
(***************************************************************************)
(* The hash table implements Breakpoints for every hash function, number   *)
(* of buckets, list of symbols and depth of the call stacks.               *)
(***************************************************************************)
EXTENDS BreakpointTable, SequenceTheorems, FiniteSetTheorems, FunctionTheorems, TLAPS

----
(* The inductive invariant.                                                *)

Chains == buckets \in [0..(TableSize - 1) -> Seq(Entry)]

\* An entry is in the bucket of its key, under its hash, and the only one.
Filed ==
  \A h \in 0..(TableSize - 1) : \A i \in 1..Len(buckets[h]) :
    /\ buckets[h][i].hash = Hash[buckets[h][i].key]
    /\ Bucket(buckets[h][i].key) = h
    /\ \A j \in 1..Len(buckets[h]) : buckets[h][j].key = buckets[h][i].key => j = i

\* How many of the first n symbols of s are wanted at an address.
Users(s, n, a) == {i \in 1..n : s[i].addr = a /\ Wanted(s[i])}
Uses(s, n, a) == Cardinality(Users(s, n, a))

\* The list never loses a wanted symbol, and has no others where it has been
\* filtered.
ListOK ==
  /\ pos <= Len(list_of_symbols) + 1
  /\ \A a \in Addr :
       Uses(list_of_symbols, Len(list_of_symbols), a) = Uses(read, Len(read), a)
  /\ \A i \in 1..Len(list_of_symbols) :
       phase # "filter" \/ i < pos => Wanted(list_of_symbols[i])

\* The symbols that are counted already.
Inserting ==
  IF phase = "filter" THEN 0 ELSE IF phase = "insert" THEN pos - 1 ELSE Len(list_of_symbols)

CountsOK ==
  /\ phase # "trace" => breakpoints_enabled = -1 /\ \A a \in Addr : held[a] = 0
  /\ \A a \in Addr : Count(a) = held[a] + Uses(list_of_symbols, Inserting, a)

TableInv == TypeOK /\ Filed /\ ListOK /\ CountsOK

----
(* What a search finds.                                                    *)

LEMMA BucketType ==
  ASSUME NEW a \in Addr
  PROVE  Bucket(a) \in 0..(TableSize - 1) /\ Hash[a] \in Nat
<1>1. Hash[a] \in Nat /\ TableSize \in Nat /\ TableSize > 0
  BY HashAssumption
<1> QED
  BY <1>1 DEF Bucket

\* The chains are sequences of entries.
LEMMA ChainTypes ==
  Chains =>
    \A h \in 0..(TableSize - 1) :
      /\ buckets[h] \in Seq(Entry) /\ Len(buckets[h]) \in Nat
      /\ \A i \in 1..Len(buckets[h]) : buckets[h][i] \in Entry
BY LenProperties, ElementOfSeq DEF Chains

\* The entry of a key, wherever it is in the chain, is the one that is found.
LEMMA Searching ==
  Chains /\ Filed =>
    \A a \in Addr : \A i \in 1..Len(buckets[Bucket(a)]) :
      buckets[Bucket(a)][i].key = a =>
        /\ Found(a) /\ Place(a) = i
        /\ Count(a) = buckets[Bucket(a)][i].enabled
        /\ Saved(a) = buckets[Bucket(a)][i].orig_value
<1> SUFFICES ASSUME Chains, Filed, NEW a \in Addr, NEW i \in 1..Len(buckets[Bucket(a)]),
                    buckets[Bucket(a)][i].key = a
             PROVE  /\ Found(a) /\ Place(a) = i
                    /\ Count(a) = buckets[Bucket(a)][i].enabled
                    /\ Saved(a) = buckets[Bucket(a)][i].orig_value
  OBVIOUS
<1>1. Bucket(a) \in 0..(TableSize - 1)
  BY BucketType
<1>2. i \in Matching(a) /\ \A j \in Matching(a) : j = i
  BY <1>1 DEF Filed, Matching, Matches
<1>3. Place(a) = i
  <2>1. i <= i
    BY <1>1, ChainTypes
  <2> QED
    BY <1>2, <2>1 DEF Place
<1> QED
  BY <1>2, <1>3 DEF Found, Find, Count, Saved

\* The same after a step.
LEMMA SearchingNext ==
  ASSUME Chains', Filed', NEW b \in Addr, NEW j \in 1..Len(buckets'[Bucket(b)]),
         buckets'[Bucket(b)][j].key = b
  PROVE  /\ Count(b)' = buckets'[Bucket(b)][j].enabled
         /\ Saved(b)' = buckets'[Bucket(b)][j].orig_value
<1>1. (Chains /\ Filed =>
         \A a \in Addr : \A i \in 1..Len(buckets[Bucket(a)]) :
           buckets[Bucket(a)][i].key = a =>
             /\ Found(a) /\ Place(a) = i
             /\ Count(a) = buckets[Bucket(a)][i].enabled
             /\ Saved(a) = buckets[Bucket(a)][i].orig_value)'
  BY Searching, PTL
<1> QED
  BY <1>1 DEF Bucket

\* What is found is an entry of the key; of a key that is not found there is
\* none.
LEMMA Finding ==
  Chains /\ Filed =>
    \A a \in Addr :
      /\ Found(a) => /\ Place(a) \in 1..Len(buckets[Bucket(a)])
                     /\ buckets[Bucket(a)][Place(a)].key = a
                     /\ Find(a) = buckets[Bucket(a)][Place(a)]
                     /\ Find(a) \in Entry
                     /\ Count(a) = Find(a).enabled /\ Saved(a) = Find(a).orig_value
      /\ ~Found(a) => /\ Count(a) = 0 /\ Saved(a) = "unset"
                      /\ \A i \in 1..Len(buckets[Bucket(a)]) : buckets[Bucket(a)][i].key # a
<1> SUFFICES ASSUME Chains, Filed, NEW a \in Addr
             PROVE  /\ Found(a) => /\ Place(a) \in 1..Len(buckets[Bucket(a)])
                                   /\ buckets[Bucket(a)][Place(a)].key = a
                                   /\ Find(a) = buckets[Bucket(a)][Place(a)]
                                   /\ Find(a) \in Entry
                                   /\ Count(a) = Find(a).enabled
                                   /\ Saved(a) = Find(a).orig_value
                    /\ ~Found(a) => /\ Count(a) = 0 /\ Saved(a) = "unset"
                                    /\ \A i \in 1..Len(buckets[Bucket(a)]) :
                                         buckets[Bucket(a)][i].key # a
  OBVIOUS
<1>1. Bucket(a) \in 0..(TableSize - 1)
  BY BucketType
<1>2. CASE Found(a)
  <2>1. PICK i \in 1..Len(buckets[Bucket(a)]) : buckets[Bucket(a)][i].key = a
    BY <1>2 DEF Found, Matching, Matches
  <2>2. Place(a) = i
    BY <2>1, Searching
  <2>3. buckets[Bucket(a)][i] \in Entry
    BY <1>1, ChainTypes
  <2> QED
    BY <1>2, <2>1, <2>2, <2>3 DEF Find, Count, Saved
<1>3. CASE ~Found(a)
  BY <1>3, Searching DEF Count, Saved
<1> QED
  BY <1>2, <1>3

\* The counts and bytes are of the right type.
LEMMA FoundTypes ==
  Chains /\ Filed => \A a \in Addr : Count(a) \in Nat /\ Saved(a) \in Byte
<1> SUFFICES ASSUME Chains, Filed, NEW a \in Addr
             PROVE  Count(a) \in Nat /\ Saved(a) \in Byte
  OBVIOUS
<1>1. CASE Found(a)
  BY <1>1, Finding DEF Entry
<1>2. CASE ~Found(a)
  BY <1>2, Finding DEF Byte
<1> QED
  BY <1>1, <1>2

----
(* What a step does to the table.                                          *)

\* A step that only changes counts and bytes leaves every entry in its place.
LEMMA Keeping ==
  ASSUME Chains, Filed, Chains',
         \A h \in 0..(TableSize - 1) :
           /\ Len(buckets'[h]) = Len(buckets[h])
           /\ \A i \in 1..Len(buckets[h]) : /\ buckets'[h][i].key = buckets[h][i].key
                                            /\ buckets'[h][i].hash = buckets[h][i].hash
  PROVE  /\ Filed'
         /\ \A a \in Addr :
              IF Found(a)
              THEN /\ Count(a)' = buckets'[Bucket(a)][Place(a)].enabled
                   /\ Saved(a)' = buckets'[Bucket(a)][Place(a)].orig_value
              ELSE Count(a)' = 0 /\ Saved(a)' = "unset"
<1>1. Filed'
  BY DEF Filed, Bucket
<1>2. ASSUME NEW a \in Addr
      PROVE  IF Found(a)
             THEN /\ Count(a)' = buckets'[Bucket(a)][Place(a)].enabled
                  /\ Saved(a)' = buckets'[Bucket(a)][Place(a)].orig_value
             ELSE Count(a)' = 0 /\ Saved(a)' = "unset"
  <2>1. Bucket(a) \in 0..(TableSize - 1)
    BY BucketType
  <2>2. CASE Found(a)
    <3>1. Place(a) \in 1..Len(buckets[Bucket(a)]) /\ buckets[Bucket(a)][Place(a)].key = a
      BY <2>2, Finding
    <3>2. Place(a) \in 1..Len(buckets'[Bucket(a)]) /\ buckets'[Bucket(a)][Place(a)].key = a
      BY <2>1, <3>1
    <3> QED
      BY <1>1, <2>2, <3>2, SearchingNext
  <2>3. CASE ~Found(a)
    <3>1. \A i \in 1..Len(buckets'[Bucket(a)]) : buckets'[Bucket(a)][i].key # a
      BY <2>1, <2>3, Finding
    <3>2. ~Found(a)'
      BY <3>1 DEF Found, Matching, Matches, Bucket
    <3> QED
      BY <2>3, <3>2 DEF Count, Saved
  <2> QED
    BY <2>2, <2>3
<1> QED
  BY <1>1, <1>2

\* Changing the entry of a key that is found.
LEMMA Changing ==
  ASSUME Chains, Filed, NEW a \in Addr, Found(a), NEW n \in Nat, NEW byte \in Byte,
         buckets' = Changed(a, n, byte)
  PROVE  /\ Chains' /\ Filed'
         /\ \A b \in Addr : /\ Count(b)' = IF b = a THEN n ELSE Count(b)
                            /\ Saved(b)' = IF b = a THEN byte ELSE Saved(b)
<1> DEFINE h == Bucket(a)
           i == Place(a)
           e == [buckets[h][i] EXCEPT !.enabled = n, !.orig_value = byte]
<1>1. h \in 0..(TableSize - 1) /\ i \in 1..Len(buckets[h]) /\ buckets[h][i].key = a
  BY BucketType, Finding
<1>2. buckets[h][i] \in Entry
  BY <1>1, ChainTypes
<1>3. e \in Entry /\ e.key = a /\ e.hash = buckets[h][i].hash /\ e.enabled = n
        /\ e.orig_value = byte
  BY <1>1, <1>2 DEF Entry
<1>4. buckets' = [buckets EXCEPT ![h] = [@ EXCEPT ![i] = e]]
  BY DEF Changed
<1> HIDE DEF e
<1>5. [buckets[h] EXCEPT ![i] = e] \in Seq(Entry)
       /\ Len([buckets[h] EXCEPT ![i] = e]) = Len(buckets[h])
  BY <1>1, <1>3, ChainTypes, ExceptSeq
<1>6. Chains'
  BY <1>4, <1>5 DEF Chains
<1>7. ASSUME NEW g \in 0..(TableSize - 1)
      PROVE  /\ Len(buckets'[g]) = Len(buckets[g])
             /\ \A j \in 1..Len(buckets[g]) :
                  buckets'[g][j] = IF g = h /\ j = i THEN e ELSE buckets[g][j]
  <2>1. CASE g = h
    <3>1. buckets'[g] = [buckets[h] EXCEPT ![i] = e]
      BY <1>1, <1>4, <2>1 DEF Chains
    <3>2. DOMAIN buckets[h] = 1..Len(buckets[h])
      BY <1>1, ChainTypes, LenProperties
    <3> QED
      BY <1>5, <2>1, <3>1, <3>2
  <2>2. CASE g # h
    BY <1>4, <2>2 DEF Chains
  <2> QED
    BY <2>1, <2>2
<1>8. \A g \in 0..(TableSize - 1) :
        /\ Len(buckets'[g]) = Len(buckets[g])
        /\ \A j \in 1..Len(buckets[g]) : /\ buckets'[g][j].key = buckets[g][j].key
                                         /\ buckets'[g][j].hash = buckets[g][j].hash
  BY <1>1, <1>3, <1>7
<1>9. /\ Filed'
      /\ \A b \in Addr :
           IF Found(b)
           THEN /\ Count(b)' = buckets'[Bucket(b)][Place(b)].enabled
                /\ Saved(b)' = buckets'[Bucket(b)][Place(b)].orig_value
           ELSE Count(b)' = 0 /\ Saved(b)' = "unset"
  BY <1>6, <1>8, Keeping
<1>10. ASSUME NEW b \in Addr
       PROVE  /\ Count(b)' = IF b = a THEN n ELSE Count(b)
              /\ Saved(b)' = IF b = a THEN byte ELSE Saved(b)
  <2>1. Bucket(b) \in 0..(TableSize - 1)
    BY BucketType
  <2>2. CASE b = a
    BY <1>1, <1>3, <1>7, <1>9, <2>2
  <2>3. CASE b # a /\ Found(b)
    <3>1. /\ Place(b) \in 1..Len(buckets[Bucket(b)]) /\ buckets[Bucket(b)][Place(b)].key = b
          /\ Count(b) = buckets[Bucket(b)][Place(b)].enabled
          /\ Saved(b) = buckets[Bucket(b)][Place(b)].orig_value
      BY <2>3, Finding
    <3>2. buckets'[Bucket(b)][Place(b)] = buckets[Bucket(b)][Place(b)]
      BY <1>1, <1>7, <2>1, <2>3, <3>1
    <3> QED
      BY <1>9, <2>3, <3>1, <3>2
  <2>4. CASE b # a /\ ~Found(b)
    BY <1>9, <2>4, Finding
  <2> QED
    BY <2>2, <2>3, <2>4
<1> QED
  BY <1>6, <1>9, <1>10

\* Entering a key that is not found.
LEMMA Entering ==
  ASSUME Chains, Filed, NEW a \in Addr, ~Found(a), NEW byte \in Byte,
         buckets' = Entered(a, byte)
  PROVE  /\ Chains' /\ Filed'
         /\ \A b \in Addr : /\ Count(b)' = IF b = a THEN 1 ELSE Count(b)
                            /\ Saved(b)' = IF b = a THEN byte ELSE Saved(b)
<1> DEFINE h == Bucket(a)
           e == NewEntry(a, byte)
<1>1. h \in 0..(TableSize - 1) /\ Hash[a] \in Nat
  BY BucketType
<1>2. e \in Entry /\ e.key = a /\ e.hash = Hash[a] /\ e.enabled = 1 /\ e.orig_value = byte
  BY <1>1 DEF NewEntry, Entry
<1>3. buckets' = [buckets EXCEPT ![h] = Append(buckets[h], e)]
  BY DEF Entered
<1> HIDE DEF e
<1>4. buckets[h] \in Seq(Entry) /\ Len(buckets[h]) \in Nat
  BY <1>1, ChainTypes
<1>5. /\ Append(buckets[h], e) \in Seq(Entry)
      /\ Len(Append(buckets[h], e)) = Len(buckets[h]) + 1
      /\ Append(buckets[h], e)[Len(buckets[h]) + 1] = e
      /\ \A j \in 1..Len(buckets[h]) : Append(buckets[h], e)[j] = buckets[h][j]
  BY <1>2, <1>4, AppendProperties
<1>6. Chains'
  BY <1>3, <1>5 DEF Chains
<1>7. buckets'[h] = Append(buckets[h], e)
       /\ \A g \in 0..(TableSize - 1) : g # h => buckets'[g] = buckets[g]
  BY <1>1, <1>3 DEF Chains
<1>8. \A i \in 1..Len(buckets[h]) : buckets[h][i].key # a
  BY Finding
<1>9. \A j \in 1..Len(buckets'[h]) :
        \/ j \in 1..Len(buckets[h]) /\ buckets'[h][j] = buckets[h][j]
        \/ j = Len(buckets[h]) + 1 /\ buckets'[h][j] = e
  <2>1. \A j \in 1..(Len(buckets[h]) + 1) : j \in 1..Len(buckets[h]) \/ j = Len(buckets[h]) + 1
    BY <1>4
  <2> QED
    BY <1>5, <1>7, <2>1
<1>10. Filed'
  <2>1. SUFFICES ASSUME NEW g \in 0..(TableSize - 1), NEW i \in 1..Len(buckets'[g])
                 PROVE  /\ buckets'[g][i].hash = Hash[buckets'[g][i].key]
                        /\ Bucket(buckets'[g][i].key) = g
                        /\ \A j \in 1..Len(buckets'[g]) :
                             buckets'[g][j].key = buckets'[g][i].key => j = i
    BY DEF Filed, Bucket
  <2>2. CASE g # h
    BY <1>7, <2>2 DEF Filed
  <2>3. CASE g = h /\ i = Len(buckets[h]) + 1
    <3>1. buckets'[g][i] = e
      BY <1>5, <1>7, <2>3
    <3>2. \A j \in 1..Len(buckets'[g]) : j # i => buckets'[g][j].key # a
      BY <1>8, <1>9, <2>3
    <3> QED
      BY <1>2, <2>3, <3>1, <3>2
  <2>4. CASE g = h /\ i \in 1..Len(buckets[h])
    <3>1. buckets'[g][i] = buckets[h][i] /\ buckets[h][i].key # a
      BY <1>5, <1>7, <1>8, <2>4
    <3>2. \A j \in 1..Len(buckets'[g]) :
            \/ j \in 1..Len(buckets[h]) /\ buckets'[g][j] = buckets[h][j]
            \/ buckets'[g][j].key = a
      BY <1>2, <1>9, <2>4
    <3>3. /\ buckets[h][i].hash = Hash[buckets[h][i].key]
          /\ Bucket(buckets[h][i].key) = h
          /\ \A j \in 1..Len(buckets[h]) : buckets[h][j].key = buckets[h][i].key => j = i
      BY <1>1, <2>4 DEF Filed
    <3> QED
      BY <2>4, <3>1, <3>2, <3>3
  <2> QED
    BY <1>9, <2>2, <2>3, <2>4
<1>11. ASSUME NEW b \in Addr
       PROVE  /\ Count(b)' = IF b = a THEN 1 ELSE Count(b)
              /\ Saved(b)' = IF b = a THEN byte ELSE Saved(b)
  <2>1. Bucket(b) \in 0..(TableSize - 1) /\ Bucket(b)' = Bucket(b)
    BY BucketType DEF Bucket
  <2>2. CASE b = a
    <3>1. Len(buckets[h]) + 1 \in 1..Len(buckets'[h]) /\ buckets'[h][Len(buckets[h]) + 1] = e
      BY <1>4, <1>5, <1>7
    <3> QED
      BY <1>2, <1>6, <1>10, <2>1, <2>2, <3>1, SearchingNext
  <2>3. CASE b # a /\ Found(b)
    <3>1. /\ Place(b) \in 1..Len(buckets[Bucket(b)]) /\ buckets[Bucket(b)][Place(b)].key = b
          /\ Count(b) = buckets[Bucket(b)][Place(b)].enabled
          /\ Saved(b) = buckets[Bucket(b)][Place(b)].orig_value
      BY <2>3, Finding
    <3>2. /\ Place(b) \in 1..Len(buckets'[Bucket(b)])
          /\ buckets'[Bucket(b)][Place(b)] = buckets[Bucket(b)][Place(b)]
      BY <1>4, <1>5, <1>7, <2>1, <3>1
    <3> QED
      BY <1>6, <1>10, <2>1, <2>3, <3>1, <3>2, SearchingNext
  <2>4. CASE b # a /\ ~Found(b)
    <3>1. \A i \in 1..Len(buckets[Bucket(b)]) : buckets[Bucket(b)][i].key # b
      BY <2>4, Finding
    <3>2. \A i \in 1..Len(buckets'[Bucket(b)]) : buckets'[Bucket(b)][i].key # b
      <4>1. CASE Bucket(b) = h
        BY <1>2, <1>9, <2>4, <3>1, <4>1
      <4>2. CASE Bucket(b) # h
        BY <1>7, <2>1, <3>1, <4>2
      <4> QED
        BY <4>1, <4>2
    <3>3. ~Found(b)'
      BY <2>1, <3>2 DEF Found, Matching, Matches
    <3> QED
      BY <2>4, <3>3 DEF Count, Saved
  <2> QED
    BY <2>2, <2>3, <2>4
<1> QED
  BY <1>6, <1>10, <1>11

----
(* What the operations of breakpoints.c do.                                *)

LEMMA InsertStep ==
  ASSUME Chains, Filed, text \in [Addr -> Byte], NEW a \in Addr, NEW live \in BOOLEAN,
         InsertBreakpoint(a, live)
  PROVE  /\ Chains' /\ Filed'
         /\ \A b \in Addr :
              /\ Count(b)' = IF b = a THEN Count(a) + 1 ELSE Count(b)
              /\ Saved(b)' = IF b = a /\ Count(a) = 0 /\ live THEN text[a] ELSE Saved(b)
         /\ text' = IF Count(a) = 0 /\ live THEN [text EXCEPT ![a] = "int3"] ELSE text
<1> DEFINE byte == IF Count(a) = 0 /\ live THEN text[a] ELSE Saved(a)
<1>1. Count(a) \in Nat /\ Saved(a) \in Byte /\ byte \in Byte
  BY FoundTypes
<1>2. /\ buckets' = IF Found(a) THEN Changed(a, Count(a) + 1, byte) ELSE Entered(a, byte)
      /\ text' = IF Count(a) = 0 /\ live THEN [text EXCEPT ![a] = "int3"] ELSE text
  BY DEF InsertBreakpoint, Count, Saved
<1>3. CASE Found(a)
  <2>1. Count(a) + 1 \in Nat /\ buckets' = Changed(a, Count(a) + 1, byte)
    BY <1>1, <1>2, <1>3
  <2> HIDE DEF byte
  <2>2. /\ Chains' /\ Filed'
        /\ \A b \in Addr : /\ Count(b)' = IF b = a THEN Count(a) + 1 ELSE Count(b)
                           /\ Saved(b)' = IF b = a THEN byte ELSE Saved(b)
    BY <1>1, <1>3, <2>1, Changing
  <2> QED
    BY <1>2, <2>2 DEF byte
<1>4. CASE ~Found(a)
  <2>1. Count(a) = 0 /\ buckets' = Entered(a, byte)
    BY <1>2, <1>4, Finding
  <2> HIDE DEF byte
  <2>2. /\ Chains' /\ Filed'
        /\ \A b \in Addr : /\ Count(b)' = IF b = a THEN 1 ELSE Count(b)
                           /\ Saved(b)' = IF b = a THEN byte ELSE Saved(b)
    BY <1>1, <1>4, <2>1, Entering
  <2> QED
    BY <1>2, <2>1, <2>2 DEF byte
<1> QED
  BY <1>3, <1>4

LEMMA DeleteStep ==
  ASSUME Chains, Filed, text \in [Addr -> Byte], NEW a \in Addr, Count(a) > 0,
         DeleteBreakpoint(a)
  PROVE  /\ Chains' /\ Filed'
         /\ \A b \in Addr : /\ Count(b)' = IF b = a THEN Count(a) - 1 ELSE Count(b)
                            /\ Saved(b)' = Saved(b)
         /\ text' = IF Count(a) = 1 THEN [text EXCEPT ![a] = Saved(a)] ELSE text
<1>1. Found(a) /\ Count(a) = Find(a).enabled /\ Saved(a) = Find(a).orig_value
  BY Finding DEF DeleteBreakpoint
<1>2. Count(a) - 1 \in Nat /\ Saved(a) \in Byte
  BY FoundTypes
<1>3. buckets' = Changed(a, Count(a) - 1, Saved(a))
  BY <1>1 DEF DeleteBreakpoint
<1>4. /\ Chains' /\ Filed'
      /\ \A b \in Addr : /\ Count(b)' = IF b = a THEN Count(a) - 1 ELSE Count(b)
                         /\ Saved(b)' = IF b = a THEN Saved(a) ELSE Saved(b)
  BY <1>1, <1>2, <1>3, Changing
<1>5. text' = IF Count(a) = 1 THEN [text EXCEPT ![a] = Saved(a)] ELSE text
  BY <1>1 DEF DeleteBreakpoint
<1> QED
  BY <1>4, <1>5

\* The entries that the callbacks act on are those of the counted addresses.
LEMMA UsedEntries ==
  ASSUME Chains, Filed, NEW a \in Addr
  PROVE  /\ Used(a) # {} <=> Count(a) > 0
         /\ \A e \in Used(a) : e.orig_value = Saved(a)
<1>1. \A e \in Used(a) : Count(a) = e.enabled /\ e.enabled # 0 /\ e.orig_value = Saved(a)
  BY Searching DEF Used
<1>2. Count(a) \in Nat
  BY FoundTypes
<1>3. ASSUME Count(a) > 0
      PROVE  Used(a) # {}
  <2>1. Found(a)
    BY <1>3, Finding
  <2>2. /\ Place(a) \in 1..Len(buckets[Bucket(a)]) /\ buckets[Bucket(a)][Place(a)].key = a
        /\ Count(a) = buckets[Bucket(a)][Place(a)].enabled
    BY <2>1, Finding
  <2>3. buckets[Bucket(a)][Place(a)] \in Used(a)
    BY <1>3, <2>2 DEF Used
  <2> QED
    BY <2>3
<1> QED
  BY <1>1, <1>2, <1>3

LEMMA EnableStep ==
  ASSUME Chains, Filed, text \in [Addr -> Byte], EnableAll
  PROVE  /\ Chains' /\ Filed'
         /\ \A a \in Addr : /\ Count(a)' = Count(a)
                            /\ Saved(a)' = IF Count(a) > 0 THEN text[a] ELSE Saved(a)
         /\ text' = [a \in Addr |-> IF Count(a) > 0 THEN "int3" ELSE text[a]]
<1> DEFINE saved(e) == IF e.enabled # 0 THEN [e EXCEPT !.orig_value = text[e.key]] ELSE e
<1>1. \A e \in Entry : /\ saved(e) \in Entry /\ saved(e).key = e.key /\ saved(e).hash = e.hash
                       /\ saved(e).enabled = e.enabled
                       /\ saved(e).orig_value = IF e.enabled # 0 THEN text[e.key]
                                                ELSE e.orig_value
  BY DEF Entry
<1>2. buckets' = [h \in 0..(TableSize - 1) |-> [i \in 1..Len(buckets[h]) |-> saved(buckets[h][i])]]
  BY DEF EnableAll
<1> HIDE DEF saved
<1>3. ASSUME NEW h \in 0..(TableSize - 1)
      PROVE  /\ buckets'[h] \in Seq(Entry) /\ Len(buckets'[h]) = Len(buckets[h])
             /\ \A i \in 1..Len(buckets[h]) :
                  buckets[h][i] \in Entry /\ buckets'[h][i] = saved(buckets[h][i])
  <2>1. Len(buckets[h]) \in Nat /\ \A i \in 1..Len(buckets[h]) : buckets[h][i] \in Entry
    BY ChainTypes
  <2>2. buckets'[h] = [i \in 1..Len(buckets[h]) |-> saved(buckets[h][i])]
    BY <1>2
  <2>3. \A i \in 1..Len(buckets[h]) : saved(buckets[h][i]) \in Entry
    BY <1>1, <2>1
  <2>4. buckets'[h] \in [1..Len(buckets[h]) -> Entry]
    BY <2>2, <2>3
  <2> QED
    BY <2>1, <2>2, <2>4, SeqDef, LenProperties
<1>4. Chains'
  <2>1. DOMAIN buckets' = 0..(TableSize - 1)
    BY <1>2
  <2> QED
    BY <1>2, <1>3 DEF Chains
<1>5. \A h \in 0..(TableSize - 1) :
        /\ Len(buckets'[h]) = Len(buckets[h])
        /\ \A i \in 1..Len(buckets[h]) : /\ buckets'[h][i].key = buckets[h][i].key
                                         /\ buckets'[h][i].hash = buckets[h][i].hash
  BY <1>1, <1>3
<1>6. /\ Filed'
      /\ \A a \in Addr :
           IF Found(a)
           THEN /\ Count(a)' = buckets'[Bucket(a)][Place(a)].enabled
                /\ Saved(a)' = buckets'[Bucket(a)][Place(a)].orig_value
           ELSE Count(a)' = 0 /\ Saved(a)' = "unset"
  BY <1>4, <1>5, Keeping
<1>7. ASSUME NEW a \in Addr
      PROVE  /\ Count(a)' = Count(a)
             /\ Saved(a)' = IF Count(a) > 0 THEN text[a] ELSE Saved(a)
  <2>1. CASE Found(a)
    <3>1. /\ Place(a) \in 1..Len(buckets[Bucket(a)]) /\ buckets[Bucket(a)][Place(a)].key = a
          /\ Count(a) = buckets[Bucket(a)][Place(a)].enabled
          /\ Saved(a) = buckets[Bucket(a)][Place(a)].orig_value
      BY <2>1, Finding
    <3>2. /\ buckets[Bucket(a)][Place(a)] \in Entry
          /\ buckets'[Bucket(a)][Place(a)] = saved(buckets[Bucket(a)][Place(a)])
      BY <1>3, <3>1, BucketType
    <3>3. Count(a) \in Nat
      BY FoundTypes
    <3> QED
      BY <1>1, <1>6, <2>1, <3>1, <3>2, <3>3
  <2>2. CASE ~Found(a)
    BY <1>6, <2>2, Finding
  <2> QED
    BY <2>1, <2>2
<1>8. text' = [a \in Addr |-> IF Count(a) > 0 THEN "int3" ELSE text[a]]
  BY UsedEntries DEF EnableAll
<1> QED
  BY <1>4, <1>6, <1>7, <1>8

LEMMA DisableStep ==
  ASSUME Chains, Filed, text \in [Addr -> Byte], DisableAll
  PROVE  text' = [a \in Addr |-> IF Count(a) > 0 THEN Saved(a) ELSE text[a]]
<1>1. ASSUME NEW a \in Addr
      PROVE  (IF Used(a) # {} THEN (CHOOSE e \in Used(a) : TRUE).orig_value ELSE text[a])
               = IF Count(a) > 0 THEN Saved(a) ELSE text[a]
  BY UsedEntries
<1> QED
  BY <1>1 DEF DisableAll

----
(* What the list counts.                                                   *)

LEMMA UsesType ==
  ASSUME NEW s, NEW n \in Nat, NEW a
  PROVE  IsFiniteSet(Users(s, n, a)) /\ Uses(s, n, a) \in Nat
<1>1. IsFiniteSet(1..n)
  BY FS_Interval
<1>2. Users(s, n, a) \in SUBSET (1..n)
  BY DEF Users
<1>3. IsFiniteSet(Users(s, n, a))
  BY <1>1, <1>2, FS_Subset
<1> QED
  BY <1>3, FS_CardinalityType DEF Uses

LEMMA UsesNone ==
  ASSUME NEW s, NEW a
  PROVE  Uses(s, 0, a) = 0
<1>1. Users(s, 0, a) = {}
  BY DEF Users
<1> QED
  BY <1>1, FS_EmptySet DEF Uses

\* One more symbol, which is wanted.
LEMMA UsesOneMore ==
  ASSUME NEW s, NEW n \in Nat \ {0}, NEW a, Wanted(s[n])
  PROVE  Uses(s, n, a) = Uses(s, n - 1, a) + (IF s[n].addr = a THEN 1 ELSE 0)
<1>1. IsFiniteSet(Users(s, n - 1, a)) /\ Uses(s, n - 1, a) \in Nat /\ n \notin Users(s, n - 1, a)
  <2>1. n - 1 \in Nat /\ n \notin 1..(n - 1)
    OBVIOUS
  <2> QED
    BY <2>1, UsesType DEF Users
<1>2. 1..n = (1..(n - 1)) \cup {n}
  OBVIOUS
<1>3. CASE s[n].addr = a
  <2>1. Users(s, n, a) = Users(s, n - 1, a) \cup {n}
    BY <1>2, <1>3 DEF Users
  <2>2. Cardinality(Users(s, n - 1, a) \cup {n}) = Cardinality(Users(s, n - 1, a)) + 1
    BY <1>1, FS_AddElement
  <2> QED
    BY <1>3, <2>1, <2>2 DEF Uses
<1>4. CASE s[n].addr # a
  <2>1. Users(s, n, a) = Users(s, n - 1, a)
    BY <1>2, <1>4 DEF Users
  <2> QED
    BY <1>1, <1>4, <2>1 DEF Uses
<1> QED
  BY <1>3, <1>4

\* Dropping a symbol that is not wanted loses no other.
LEMMA Dropping ==
  ASSUME NEW s \in Seq(Symbol), NEW p \in 1..Len(s), ~Wanted(s[p]), NEW d,
         d = SubSeq(s, 1, p - 1) \o SubSeq(s, p + 1, Len(s))
  PROVE  /\ d \in Seq(Symbol) /\ Len(d) = Len(s) - 1
         /\ \A i \in 1..Len(d) : d[i] = IF i < p THEN s[i] ELSE s[i + 1]
         /\ \A a : Uses(d, Len(d), a) = Uses(s, Len(s), a)
<1>1. PICK n \in Nat : n = Len(s)
  BY LenProperties
<1>2. p \in Nat /\ 1 <= p /\ p <= n
  BY <1>1
<1>3. \A i \in 1..n : s[i] \in Symbol
  BY <1>1, ElementOfSeq
<1> DEFINE s1 == SubSeq(s, 1, p - 1)
           s2 == SubSeq(s, p + 1, n)
<1>4. /\ s1 \in Seq(Symbol) /\ Len(s1) = p - 1
      /\ \A i \in 1..(p - 1) : s1[i] = s[i]
  <2>1. p - 1 \in Int /\ \A i \in 1..(p - 1) : s[i] \in Symbol
    BY <1>2, <1>3
  <2>2. /\ s1 \in Seq(Symbol)
        /\ Len(s1) = IF 1 <= p - 1 THEN (p - 1) - 1 + 1 ELSE 0
        /\ \A i \in 1..((p - 1) - 1 + 1) : s1[i] = s[1 + i - 1]
    BY <2>1, SubSeqProperties
  <2> QED
    BY <1>2, <2>2
<1>5. /\ s2 \in Seq(Symbol) /\ Len(s2) = n - p
      /\ \A i \in 1..(n - p) : s2[i] = s[p + i]
  <2>1. p + 1 \in Int /\ \A i \in (p + 1)..n : s[i] \in Symbol
    BY <1>2, <1>3
  <2>2. /\ s2 \in Seq(Symbol)
        /\ Len(s2) = IF p + 1 <= n THEN n - (p + 1) + 1 ELSE 0
        /\ \A i \in 1..(n - (p + 1) + 1) : s2[i] = s[(p + 1) + i - 1]
    BY <2>1, SubSeqProperties
  <2>3. /\ n - (p + 1) + 1 = n - p
        /\ Len(s2) = n - p
        /\ \A i \in 1..(n - p) : (p + 1) + i - 1 = p + i
    BY <1>2, <2>2
  <2> QED
    BY <2>2, <2>3
<1>6. d = s1 \o s2
  BY <1>1
<1> HIDE DEF s1, s2
<1>7. /\ d \in Seq(Symbol) /\ Len(d) = n - 1
      /\ \A i \in 1..(n - 1) : d[i] = IF i < p THEN s[i] ELSE s[i + 1]
  <2>1. /\ s1 \o s2 \in Seq(Symbol) /\ Len(s1 \o s2) = Len(s1) + Len(s2)
        /\ \A i \in 1..(Len(s1) + Len(s2)) :
             (s1 \o s2)[i] = IF i <= Len(s1) THEN s1[i] ELSE s2[i - Len(s1)]
    BY <1>4, <1>5, ConcatProperties
  <2>2. Len(s1) + Len(s2) = n - 1
    BY <1>2, <1>4, <1>5
  <2>3. ASSUME NEW i \in 1..(n - 1)
        PROVE  d[i] = IF i < p THEN s[i] ELSE s[i + 1]
    <3>1. d[i] = IF i <= p - 1 THEN s1[i] ELSE s2[i - (p - 1)]
      BY <1>4, <1>6, <2>1, <2>2
    <3>2. CASE i < p
      <4>1. i \in 1..(p - 1) /\ i <= p - 1
        BY <1>2, <3>2
      <4> QED
        BY <1>4, <3>1, <3>2, <4>1
    <3>3. CASE ~(i < p)
      <4>1. i - (p - 1) \in 1..(n - p) /\ p + (i - (p - 1)) = i + 1 /\ ~(i <= p - 1)
        BY <1>2, <3>3
      <4> QED
        BY <1>5, <3>1, <3>3, <4>1
    <3> QED
      BY <3>2, <3>3
  <2> QED
    BY <1>6, <2>1, <2>2, <2>3
<1>8. ASSUME NEW a
      PROVE  Uses(d, n - 1, a) = Uses(s, n, a)
  <2> DEFINE D == Users(d, n - 1, a)
             S == Users(s, n, a)
             f == [i \in D |-> IF i < p THEN i ELSE i + 1]
  <2>1. \A i \in D : i \in 1..(n - 1) /\ d[i].addr = a /\ Wanted(d[i])
    BY DEF Users
  <2>2. \A i \in S : i \in 1..n /\ s[i].addr = a /\ Wanted(s[i]) /\ i # p
    BY DEF Users
  <2>3. ASSUME NEW i \in D
        PROVE  f[i] \in S
    <3>1. i \in 1..(n - 1) /\ f[i] = IF i < p THEN i ELSE i + 1
      BY <2>1
    <3>2. d[i] = s[f[i]]
      BY <1>7, <3>1
    <3>3. f[i] \in 1..n
      BY <1>2, <3>1
    <3>4. s[f[i]].addr = a /\ Wanted(s[f[i]])
      BY <2>1, <3>2
    <3> HIDE DEF f
    <3> QED
      BY <3>3, <3>4 DEF Users
  <2>4. \A i, j \in D : f[i] = f[j] => i = j
    <3>1. \A i \in 1..(n - 1) : i \in Nat
      OBVIOUS
    <3>2. \A i \in D : i \in Nat
      BY <2>1, <3>1
    <3>3. \A i \in D : f[i] = IF i < p THEN i ELSE i + 1
      OBVIOUS
    <3> HIDE DEF D, f
    <3> QED
      BY <1>2, <3>2, <3>3
  <2>5. ASSUME NEW k \in S
        PROVE  \E i \in D : f[i] = k
    <3>1. CASE k < p
      <4>1. k \in 1..(n - 1)
        BY <1>2, <2>2, <3>1
      <4>2. d[k] = s[k]
        BY <1>7, <3>1, <4>1
      <4>3. k \in D
        BY <2>2, <4>1, <4>2 DEF Users
      <4> QED
        BY <3>1, <4>3
    <3>2. CASE k > p
      <4>1. k - 1 \in 1..(n - 1) /\ ~(k - 1 < p) /\ (k - 1) + 1 = k
        BY <1>2, <2>2, <3>2
      <4>2. d[k - 1] = s[k]
        BY <1>7, <4>1
      <4>3. k - 1 \in D
        BY <2>2, <4>1, <4>2 DEF Users
      <4> QED
        BY <4>1, <4>3
    <3> QED
      BY <1>2, <2>2, <3>1, <3>2
  <2>6. f \in [D -> S]
    BY <2>3
  <2> HIDE DEF f
  <2>7. f \in Bijection(D, S)
    BY <2>4, <2>5, <2>6, Fun_IsBij
  <2>8. IsFiniteSet(D)
    <3>1. n - 1 \in Nat
      BY <1>2
    <3> QED
      BY <3>1, UsesType
  <2>9. Cardinality(S) = Cardinality(D)
    BY <2>7, <2>8, FS_Bijection DEF ExistsBijection
  <2> QED
    BY <2>9 DEF Uses
<1> QED
  BY <1>1, <1>7, <1>8

----
(* Every step keeps the invariant and is one of Breakpoints.               *)

\* The primed conditions, in terms of the new list.
LEMMA AfterStep ==
  ASSUME UNCHANGED <<opt_e, opt_e_enable, read>>
  PROVE  /\ /\ pos' <= Len(list_of_symbols') + 1
            /\ \A a \in Addr : Uses(list_of_symbols', Len(list_of_symbols'), a)
                               = Uses(read, Len(read), a)
            /\ \A i \in 1..Len(list_of_symbols') :
                 phase' # "filter" \/ i < pos' => Wanted(list_of_symbols'[i])
            => ListOK'
         /\ /\ phase' # "trace" =>
                 breakpoints_enabled' = -1 /\ \A a \in Addr : held'[a] = 0
            /\ \A a \in Addr : Count(a)' = held'[a] + Uses(list_of_symbols', Inserting', a)
            => CountsOK'
<1>1. \A s : Wanted(s)' = Wanted(s)
  BY DEF Wanted
<1>2. ASSUME NEW a \in Addr
      PROVE  /\ Uses(list_of_symbols, Len(list_of_symbols), a)'
                  = Uses(list_of_symbols', Len(list_of_symbols'), a)
             /\ Uses(read, Len(read), a)' = Uses(read, Len(read), a)
             /\ Uses(list_of_symbols, Inserting, a)' = Uses(list_of_symbols', Inserting', a)
  BY DEF Uses, Users, Wanted
<1>3. \A i : Wanted(list_of_symbols[i])' = Wanted(list_of_symbols'[i])
  BY DEF Wanted
<1> QED
  BY <1>2, <1>3 DEF ListOK, CountsOK

\* A step that leaves the list where it is.
LEMMA ListKept ==
  ASSUME ListOK, UNCHANGED listVars
  PROVE  ListOK' /\ Inserting' = Inserting
BY AfterStep DEF ListOK, listVars, Inserting

LEMMA BucketsKept ==
  ASSUME UNCHANGED buckets
  PROVE  /\ Filed => Filed'
         /\ \A a \in Addr : Count(a)' = Count(a) /\ Saved(a)' = Saved(a)
BY DEF Filed, Bucket, Count, Saved, Found, Find, Place, Matching, Matches

LEMMA TypesUsed ==
  ASSUME TypeOK
  PROVE  /\ Chains /\ text \in [Addr -> Byte] /\ held \in [Addr -> Nat]
         /\ Len(list_of_symbols) \in Nat /\ pos \in Nat \ {0}
         /\ \A i \in 1..Len(list_of_symbols) : list_of_symbols[i] \in Symbol
BY LenProperties, ElementOfSeq DEF TypeOK, Chains

LEMMA FilterStep ==
  ASSUME TableInv, Filter
  PROVE  TableInv' /\ UNCHANGED Table!vars
<1> DEFINE l == list_of_symbols
<1>1. TypeOK /\ Filed /\ ListOK /\ CountsOK
  BY DEF TableInv
<1>2. /\ phase = "filter" /\ pos <= Len(l)
      /\ UNCHANGED <<opt_e, opt_e_enable, read, phase, buckets, breakpoints_enabled, held, text>>
  BY DEF Filter
<1>3. pos \in 1..Len(l) /\ l \in Seq(Symbol)
  BY <1>1, <1>2, TypesUsed DEF TypeOK
<1>4. opt_e = {} \/ Keep(l[pos]) <=> Wanted(l[pos])
  BY <1>1 DEF TypeOK, Keep, Wanted
<1>5. /\ l' \in Seq(Symbol) /\ pos' \in Nat \ {0} /\ pos' <= Len(l') + 1
      /\ \A a \in Addr : Uses(l', Len(l'), a) = Uses(read, Len(read), a)
      /\ \A i \in 1..Len(l') : i < pos' => Wanted(l'[i])
  <2>1. CASE Wanted(l[pos])
    <3>1. l' = l /\ pos' = pos + 1
      BY <1>4, <2>1 DEF Filter
    <3>2. \A i \in 1..Len(l) : i < pos + 1 => i < pos \/ i = pos
      BY <1>1, TypesUsed
    <3>3. \A i \in 1..Len(l) : i < pos => Wanted(l[i])
      BY <1>1 DEF ListOK
    <3>4. pos + 1 \in Nat \ {0} /\ pos + 1 <= Len(l) + 1
      BY <1>1, <1>2, TypesUsed
    <3>5. \A i \in 1..Len(l') : i < pos' => Wanted(l'[i])
      BY <2>1, <3>1, <3>2, <3>3
    <3>6. \A a \in Addr : Uses(l', Len(l'), a) = Uses(read, Len(read), a)
      BY <1>1, <3>1 DEF ListOK
    <3>7. l' \in Seq(Symbol) /\ pos' \in Nat \ {0} /\ pos' <= Len(l') + 1
      BY <1>3, <3>1, <3>4
    <3> QED
      BY <3>5, <3>6, <3>7
  <2>2. CASE ~Wanted(l[pos])
    <3>1. l' = SubSeq(l, 1, pos - 1) \o SubSeq(l, pos + 1, Len(l)) /\ pos' = pos
      BY <1>4, <2>2 DEF Filter
    <3>2. /\ l' \in Seq(Symbol) /\ Len(l') = Len(l) - 1
          /\ \A i \in 1..Len(l') : l'[i] = IF i < pos THEN l[i] ELSE l[i + 1]
          /\ \A a : Uses(l', Len(l'), a) = Uses(l, Len(l), a)
      BY <1>3, <2>2, <3>1, Dropping
    <3>3. pos <= Len(l') + 1 /\ \A i \in 1..Len(l') : i \in 1..Len(l)
      BY <1>1, <1>2, <3>2, TypesUsed
    <3>4. \A i \in 1..Len(l') : i < pos => Wanted(l'[i])
      BY <1>1, <3>2, <3>3 DEF ListOK
    <3> QED
      BY <1>1, <3>1, <3>2, <3>3, <3>4, TypesUsed DEF ListOK
  <2> QED
    BY <2>1, <2>2
<1>6. \A a \in Addr : Count(a)' = Count(a) /\ Saved(a)' = Saved(a)
  BY <1>2, BucketsKept
<1>7. TypeOK' /\ Filed'
  BY <1>1, <1>2, <1>5, BucketsKept DEF TypeOK
<1>8. ListOK'
  BY <1>2, <1>5, AfterStep
<1>9. CountsOK'
  <2>1. Inserting = 0 /\ Inserting' = 0
    BY <1>2 DEF Inserting
  <2>2. \A a \in Addr : Uses(l, 0, a) = 0 /\ Uses(l', 0, a) = 0
    BY UsesNone
  <2> QED
    BY <1>1, <1>2, <1>6, <2>1, <2>2, AfterStep DEF CountsOK
<1> QED
  BY <1>2, <1>6, <1>7, <1>8, <1>9 DEF TableInv, Table!vars

\* The ends of the two loops.
LEMMA LoopEnds ==
  ASSUME TableInv, Filtered \/ Inserted
  PROVE  TableInv' /\ UNCHANGED Table!vars
<1> DEFINE l == list_of_symbols
<1>1. TypeOK /\ Filed /\ ListOK /\ CountsOK
  BY DEF TableInv
<1>2. UNCHANGED <<opt_e, opt_e_enable, read, list_of_symbols, buckets, breakpoints_enabled,
                  held, text>>
  BY DEF Filtered, Inserted
<1>3. \A a \in Addr : Count(a)' = Count(a) /\ Saved(a)' = Saved(a)
  BY <1>2, BucketsKept
<1>4. TypeOK' /\ Filed'
  BY <1>1, <1>2, BucketsKept DEF TypeOK, Filtered, Inserted
<1>5. Len(l) \in Nat /\ pos \in Nat \ {0} /\ pos <= Len(l) + 1
  BY <1>1, TypesUsed DEF ListOK
<1>6. CASE Filtered
  <2>1. pos > Len(l) /\ phase = "filter" /\ phase' = "insert" /\ pos' = 1
    BY <1>6 DEF Filtered
  <2>2. \A i \in 1..Len(l) : Wanted(l[i])
    BY <1>1, <1>5, <2>1 DEF ListOK
  <2>3. ListOK'
    BY <1>1, <1>2, <1>5, <2>1, <2>2, AfterStep DEF ListOK
  <2>4. CountsOK'
    <3>1. Inserting = 0 /\ Inserting' = 0
      BY <2>1 DEF Inserting
    <3> QED
      BY <1>1, <1>2, <1>3, <2>1, <3>1, AfterStep DEF CountsOK
  <2> QED
    BY <1>2, <1>3, <1>4, <2>3, <2>4 DEF TableInv, Table!vars
<1>7. CASE Inserted
  <2>1. pos > Len(l) /\ phase = "insert" /\ phase' = "trace" /\ pos' = pos
    BY <1>7 DEF Inserted
  <2>2. ListOK'
    BY <1>1, <1>2, <2>1, AfterStep DEF ListOK
  <2>3. CountsOK'
    <3>1. Inserting = Len(l) /\ Inserting' = Len(l)
      BY <1>2, <1>5, <2>1 DEF Inserting
    <3> QED
      BY <1>1, <1>2, <1>3, <2>1, <3>1, AfterStep DEF CountsOK
  <2> QED
    BY <1>2, <1>3, <1>4, <2>2, <2>3 DEF TableInv, Table!vars
<1> QED
  BY <1>6, <1>7

LEMMA SymbolStep ==
  ASSUME TableInv, InsertSymbol
  PROVE  TableInv' /\ Table!Next
<1> DEFINE l == list_of_symbols
           a == l[pos].addr
<1>1. TypeOK /\ Filed /\ ListOK /\ CountsOK /\ Chains /\ text \in [Addr -> Byte]
  BY TypesUsed DEF TableInv
<1>2. /\ phase = "insert" /\ pos <= Len(l) /\ pos' = pos + 1
      /\ InsertBreakpoint(a, FALSE)
      /\ UNCHANGED <<opt_e, opt_e_enable, read, list_of_symbols, phase, breakpoints_enabled, held>>
  BY DEF InsertSymbol
<1>3. Len(l) \in Nat /\ pos \in Nat \ {0} /\ pos \in 1..Len(l)
  BY <1>1, <1>2, TypesUsed
<1>4. a \in Addr
  BY <1>1, <1>3, TypesUsed DEF Symbol
<1>5. /\ Chains' /\ Filed' /\ text' = text
      /\ \A b \in Addr : /\ Count(b)' = IF b = a THEN Count(a) + 1 ELSE Count(b)
                         /\ Saved(b)' = Saved(b)
  <2> HIDE DEF a
  <2> QED
    BY <1>1, <1>2, <1>4, InsertStep
<1>6. TypeOK'
  BY <1>1, <1>2, <1>3, <1>5 DEF TypeOK, Chains
<1>7. ListOK'
  <2>1. pos + 1 <= Len(l) + 1 /\ phase # "filter"
    BY <1>2, <1>3
  <2> QED
    BY <1>1, <1>2, <2>1, AfterStep DEF ListOK
<1>8. CountsOK'
  <2>1. Inserting = pos - 1 /\ Inserting' = pos
    BY <1>2, <1>3 DEF Inserting
  <2>2. Wanted(l[pos])
    BY <1>1, <1>2, <1>3 DEF ListOK
  <2>3. ASSUME NEW b \in Addr
        PROVE  Count(b)' = held'[b] + Uses(l', Inserting', b)
    <3>1. Uses(l, pos, b) = Uses(l, pos - 1, b) + (IF a = b THEN 1 ELSE 0)
      BY <1>3, <2>2, UsesOneMore
    <3>2. Uses(l, pos - 1, b) \in Nat /\ held[b] \in Nat
      BY <1>1, <1>3, UsesType, TypesUsed
    <3>3. Count(b) = held[b] + Uses(l, pos - 1, b)
      BY <1>1, <2>1 DEF CountsOK
    <3>4. Count(b)' = IF b = a THEN Count(b) + 1 ELSE Count(b)
      BY <1>5
    <3>5. held'[b] + Uses(l', Inserting', b) = held[b] + Uses(l, pos, b)
      BY <1>2, <2>1
    <3> HIDE DEF a
    <3> QED
      BY <3>1, <3>2, <3>3, <3>4, <3>5
  <2> QED
    BY <1>1, <1>2, <2>3, AfterStep DEF CountsOK
<1>9. Table!Count(a)
  <2>1. breakpoints_enabled = -1
    BY <1>1, <1>2 DEF CountsOK
  <2> HIDE DEF a
  <2>2. [b \in Addr |-> Count(b)'] = [[b \in Addr |-> Count(b)] EXCEPT ![a] = @ + 1]
    BY <1>4, <1>5
  <2>3. [b \in Addr |-> Saved(b)'] = [b \in Addr |-> Saved(b)]
    BY <1>5
  <2> QED
    BY <1>2, <1>5, <2>1, <2>2, <2>3 DEF Table!Count
<1> QED
  BY <1>4, <1>5, <1>6, <1>7, <1>8, <1>9 DEF TableInv, Table!Next

LEMMA PushStep ==
  ASSUME TableInv, NEW a \in Addr, Push(a)
  PROVE  TableInv' /\ Table!Next
<1>1. TypeOK /\ Filed /\ ListOK /\ CountsOK /\ Chains /\ text \in [Addr -> Byte]
        /\ held \in [Addr -> Nat]
  BY TypesUsed DEF TableInv
<1>2. /\ breakpoints_enabled = 1 /\ InsertBreakpoint(a, TRUE)
      /\ held' = [held EXCEPT ![a] = @ + 1]
      /\ UNCHANGED <<listVars, breakpoints_enabled>>
  BY DEF Push
<1>3. /\ Chains' /\ Filed'
      /\ \A b \in Addr :
           /\ Count(b)' = IF b = a THEN Count(a) + 1 ELSE Count(b)
           /\ Saved(b)' = IF b = a /\ Count(a) = 0 THEN text[a] ELSE Saved(b)
      /\ text' = IF Count(a) = 0 THEN [text EXCEPT ![a] = "int3"] ELSE text
  BY <1>1, <1>2, InsertStep
<1>4. TypeOK'
  BY <1>1, <1>2, <1>3 DEF TypeOK, Chains, listVars, Byte
<1>5. ListOK' /\ Inserting' = Inserting
  BY <1>1, <1>2, ListKept
<1>6. phase = "trace"
  BY <1>1, <1>2 DEF CountsOK
<1>7. CountsOK'
  <2>1. ASSUME NEW b \in Addr
        PROVE  Count(b)' = held'[b] + Uses(list_of_symbols', Inserting', b)
    <3>1. Inserting = Len(list_of_symbols) /\ Inserting \in Nat
      BY <1>1, <1>6, TypesUsed DEF Inserting
    <3>2. Uses(list_of_symbols, Inserting, b) \in Nat /\ held[b] \in Nat
      BY <1>1, <3>1, UsesType
    <3>3. held'[b] = IF b = a THEN held[b] + 1 ELSE held[b]
      BY <1>1, <1>2
    <3>4. Count(b) = held[b] + Uses(list_of_symbols, Inserting, b)
      BY <1>1 DEF CountsOK
    <3>5. Uses(list_of_symbols', Inserting', b) = Uses(list_of_symbols, Inserting, b)
      BY <1>2, <1>5 DEF listVars
    <3>6. Count(b)' = IF b = a THEN Count(b) + 1 ELSE Count(b)
      BY <1>3
    <3> QED
      BY <3>2, <3>3, <3>4, <3>5, <3>6
  <2> QED
    BY <1>2, <1>6, <2>1, AfterStep DEF listVars
<1>8. Table!Insert(a)
  <2>1. [b \in Addr |-> Count(b)'] = [[b \in Addr |-> Count(b)] EXCEPT ![a] = @ + 1]
    BY <1>3
  <2>2. Count(a) = 0 =>
          /\ [b \in Addr |-> Saved(b)']
               = [b \in Addr |-> IF b \in {a} THEN text[b] ELSE Saved(b)]
          /\ text' = [b \in Addr |-> IF b \in {a} THEN "int3" ELSE text[b]]
    BY <1>1, <1>3
  <2>3. Count(a) # 0 =>
          /\ [b \in Addr |-> Saved(b)']
               = [b \in Addr |-> IF b \in {} THEN text[b] ELSE Saved(b)]
          /\ text' = [b \in Addr |-> IF b \in {} THEN "int3" ELSE text[b]]
    BY <1>1, <1>3
  <2> QED
    BY <1>2, <2>1, <2>2, <2>3 DEF Table!Insert, Table!Plant
<1> QED
  BY <1>3, <1>4, <1>5, <1>7, <1>8 DEF TableInv, Table!Next

LEMMA PopStep ==
  ASSUME TableInv, NEW a \in Addr, Pop(a)
  PROVE  TableInv' /\ Table!Next
<1>1. TypeOK /\ Filed /\ ListOK /\ CountsOK /\ Chains /\ text \in [Addr -> Byte]
        /\ held \in [Addr -> Nat]
  BY TypesUsed DEF TableInv
<1>2. /\ breakpoints_enabled = 1 /\ held[a] > 0 /\ DeleteBreakpoint(a)
      /\ held' = [held EXCEPT ![a] = @ - 1]
      /\ UNCHANGED <<listVars, breakpoints_enabled>>
  BY DEF Pop
<1>3. phase = "trace"
  BY <1>1, <1>2 DEF CountsOK
<1>4. ASSUME NEW b \in Addr
      PROVE  /\ Uses(list_of_symbols, Inserting, b) \in Nat /\ held[b] \in Nat
             /\ Count(b) = held[b] + Uses(list_of_symbols, Inserting, b)
  <2>1. Inserting = Len(list_of_symbols) /\ Inserting \in Nat
    BY <1>1, <1>3, TypesUsed DEF Inserting
  <2> QED
    BY <1>1, <2>1, UsesType DEF CountsOK
<1>5. Count(a) > 0
  BY <1>2, <1>4
<1>6. /\ Chains' /\ Filed'
      /\ \A b \in Addr : /\ Count(b)' = IF b = a THEN Count(a) - 1 ELSE Count(b)
                         /\ Saved(b)' = Saved(b)
      /\ text' = IF Count(a) = 1 THEN [text EXCEPT ![a] = Saved(a)] ELSE text
  BY <1>1, <1>2, <1>5, DeleteStep
<1>7. TypeOK'
  <2>1. held' \in [Addr -> Nat]
    BY <1>1, <1>2
  <2>2. Saved(a) \in Byte
    BY <1>1, FoundTypes
  <2>3. text' \in [Addr -> Byte]
    BY <1>1, <1>6, <2>2
  <2> QED
    BY <1>1, <1>2, <1>6, <2>1, <2>3 DEF TypeOK, Chains, listVars
<1>8. ListOK' /\ Inserting' = Inserting
  BY <1>1, <1>2, ListKept
<1>9. CountsOK'
  <2>1. ASSUME NEW b \in Addr
        PROVE  Count(b)' = held'[b] + Uses(list_of_symbols', Inserting', b)
    <3>1. held'[b] = IF b = a THEN held[b] - 1 ELSE held[b]
      BY <1>1, <1>2
    <3>2. Uses(list_of_symbols', Inserting', b) = Uses(list_of_symbols, Inserting, b)
      BY <1>2, <1>8 DEF listVars
    <3>3. Count(b)' = IF b = a THEN Count(b) - 1 ELSE Count(b)
      BY <1>6
    <3> QED
      BY <1>4, <3>1, <3>2, <3>3
  <2> QED
    BY <1>2, <1>3, <2>1, AfterStep DEF listVars
<1>10. Table!Delete(a)
  <2>1. [b \in Addr |-> Count(b)'] = [[b \in Addr |-> Count(b)] EXCEPT ![a] = @ - 1]
    BY <1>6
  <2>2. [b \in Addr |-> Saved(b)'] = [b \in Addr |-> Saved(b)]
    BY <1>6
  <2>3. Count(a) = 1 => text' = [b \in Addr |-> IF b \in {a} THEN Saved(b) ELSE text[b]]
    BY <1>1, <1>6
  <2>4. Count(a) # 1 => text' = [b \in Addr |-> IF b \in {} THEN Saved(b) ELSE text[b]]
    BY <1>1, <1>6
  <2>5. /\ [b \in Addr |-> Count(b)][a] = Count(a)
        /\ \A b \in Addr : [c \in Addr |-> Saved(c)][b] = Saved(b)
    OBVIOUS
  <2> QED
    BY <1>2, <1>5, <2>1, <2>2, <2>3, <2>4, <2>5 DEF Table!Delete, Table!Restore
<1> QED
  BY <1>6, <1>7, <1>8, <1>9, <1>10 DEF TableInv, Table!Next

LEMMA EnableAllStep ==
  ASSUME TableInv, EnableAll
  PROVE  TableInv' /\ Table!Next
<1>1. TypeOK /\ Filed /\ ListOK /\ CountsOK /\ Chains /\ text \in [Addr -> Byte]
  BY TypesUsed DEF TableInv
<1>2. /\ phase = "trace" /\ breakpoints_enabled = -1 /\ breakpoints_enabled' = 1
      /\ UNCHANGED <<listVars, held>>
  BY DEF EnableAll
<1>3. /\ Chains' /\ Filed'
      /\ \A a \in Addr : /\ Count(a)' = Count(a)
                         /\ Saved(a)' = IF Count(a) > 0 THEN text[a] ELSE Saved(a)
      /\ text' = [a \in Addr |-> IF Count(a) > 0 THEN "int3" ELSE text[a]]
  BY <1>1, EnableStep
<1>4. TypeOK'
  <2>1. text' \in [Addr -> Byte]
    BY <1>1, <1>3 DEF Byte
  <2> QED
    BY <1>1, <1>2, <1>3, <2>1 DEF TypeOK, Chains, listVars
<1>5. ListOK' /\ Inserting' = Inserting
  BY <1>1, <1>2, ListKept
<1>6. CountsOK'
  BY <1>1, <1>2, <1>3, <1>5, AfterStep DEF CountsOK, listVars
<1>7. Table!EnableAll
  <2>1. [a \in Addr |-> Count(a)'] = [a \in Addr |-> Count(a)]
    BY <1>3
  <2>2. Table!Counted = {a \in Addr : Count(a) > 0}
    BY DEF Table!Counted
  <2>3. /\ [a \in Addr |-> Saved(a)']
            = [a \in Addr |-> IF a \in Table!Counted THEN text[a] ELSE Saved(a)]
        /\ text' = [a \in Addr |-> IF a \in Table!Counted THEN "int3" ELSE text[a]]
    BY <1>3, <2>2
  <2> QED
    BY <1>2, <2>1, <2>3 DEF Table!EnableAll, Table!Plant
<1> QED
  BY <1>3, <1>4, <1>5, <1>6, <1>7 DEF TableInv, Table!Next

LEMMA DisableAllStep ==
  ASSUME TableInv, DisableAll
  PROVE  TableInv' /\ Table!Next
<1>1. TypeOK /\ Filed /\ ListOK /\ CountsOK /\ Chains /\ text \in [Addr -> Byte]
  BY TypesUsed DEF TableInv
<1>2. /\ breakpoints_enabled = 1 /\ breakpoints_enabled' = 0
      /\ UNCHANGED <<listVars, buckets, held>>
  BY DEF DisableAll
<1>3. text' = [a \in Addr |-> IF Count(a) > 0 THEN Saved(a) ELSE text[a]]
  BY <1>1, DisableStep
<1>4. Filed' /\ \A a \in Addr : Count(a)' = Count(a) /\ Saved(a)' = Saved(a)
  BY <1>1, <1>2, BucketsKept
<1>5. TypeOK'
  <2>1. text' \in [Addr -> Byte]
    BY <1>1, <1>3, FoundTypes
  <2> QED
    BY <1>1, <1>2, <2>1 DEF TypeOK, listVars
<1>6. ListOK' /\ Inserting' = Inserting
  BY <1>1, <1>2, ListKept
<1>7. CountsOK'
  <2>1. phase = "trace"
    BY <1>1, <1>2 DEF CountsOK
  <2> QED
    BY <1>1, <1>2, <1>4, <1>6, <2>1, AfterStep DEF CountsOK, listVars
<1>8. Table!DisableAll
  <2>1. /\ [a \in Addr |-> Count(a)'] = [a \in Addr |-> Count(a)]
        /\ [a \in Addr |-> Saved(a)'] = [a \in Addr |-> Saved(a)]
    BY <1>4
  <2>2. Table!Counted = {a \in Addr : Count(a) > 0}
    BY DEF Table!Counted
  <2>3. text' = [a \in Addr |-> IF a \in Table!Counted THEN Saved(a) ELSE text[a]]
    BY <1>3, <2>2
  <2> QED
    BY <1>2, <2>1, <2>3 DEF Table!DisableAll, Table!Restore
<1> QED
  BY <1>4, <1>5, <1>6, <1>7, <1>8 DEF TableInv, Table!Next

----
(* The theorems.                                                           *)

LEMMA TableInit == Init => TableInv /\ Table!Init
<1> SUFFICES ASSUME Init
             PROVE  TableInv /\ Table!Init
  OBVIOUS
<1>1. /\ list_of_symbols = read /\ pos = 1 /\ phase = "filter"
      /\ buckets = [h \in 0..(TableSize - 1) |-> << >>]
      /\ breakpoints_enabled = -1
      /\ held = [a \in Addr |-> 0] /\ text = [a \in Addr |-> "code"]
  BY DEF Init
<1>2. PICK n \in 0..MaxSymbols : read \in [1..n -> Symbol]
  BY DEF Init
<1>3. n \in Nat
  BY <1>2, BoundAssumption
<1>4. read \in Seq(Symbol) /\ Len(read) \in Nat
  BY <1>2, <1>3, SeqDef, LenProperties
<1>5. << >> \in Seq(Entry) /\ Len(<< >>) = 0
  BY EmptySeq
<1>6. TypeOK
  BY <1>1, <1>4, <1>5 DEF Init, TypeOK, Byte
<1>7. Filed
  BY <1>1, <1>5 DEF Filed
<1>8. ASSUME NEW a \in Addr
      PROVE  Count(a) = 0 /\ Saved(a) = "unset"
  <2>1. Bucket(a) \in 0..(TableSize - 1)
    BY BucketType
  <2>2. Len(buckets[Bucket(a)]) = 0
    BY <1>1, <1>5, <2>1
  <2>3. ~Found(a)
    BY <2>2 DEF Found, Matching
  <2> QED
    BY <2>3 DEF Count, Saved
<1>9. ListOK
  BY <1>1, <1>4 DEF ListOK
<1>10. CountsOK
  <2>1. Inserting = 0
    BY <1>1 DEF Inserting
  <2> QED
    BY <1>1, <1>8, <2>1, UsesNone DEF CountsOK
<1>11. Table!Init
  BY <1>1, <1>8 DEF Table!Init
<1> QED
  BY <1>6, <1>7, <1>9, <1>10, <1>11 DEF TableInv

LEMMA TableStep ==
  TableInv /\ [Next]_vars => TableInv' /\ [Table!Next]_(Table!vars)
<1> SUFFICES ASSUME TableInv, [Next]_vars
             PROVE  TableInv' /\ [Table!Next]_(Table!vars)
  OBVIOUS
<1>1. CASE Filter
  BY <1>1, FilterStep
<1>2. CASE Filtered \/ Inserted
  BY <1>2, LoopEnds
<1>3. CASE InsertSymbol
  BY <1>3, SymbolStep
<1>4. CASE EnableAll
  BY <1>4, EnableAllStep
<1>5. CASE DisableAll
  BY <1>5, DisableAllStep
<1>6. ASSUME NEW a \in Addr, Push(a) \/ Pop(a)
      PROVE  TableInv' /\ Table!Next
  BY <1>6, PushStep, PopStep
<1>7. CASE UNCHANGED vars
  <2>1. UNCHANGED listVars /\ UNCHANGED <<buckets, breakpoints_enabled, held, text>>
    BY <1>7 DEF vars
  <2>2. TypeOK /\ Filed /\ ListOK /\ CountsOK
    BY DEF TableInv
  <2>3. Filed' /\ \A a \in Addr : Count(a)' = Count(a) /\ Saved(a)' = Saved(a)
    BY <2>1, <2>2, BucketsKept
  <2>4. TypeOK'
    BY <2>1, <2>2 DEF TypeOK, listVars
  <2>5. ListOK' /\ Inserting' = Inserting
    BY <2>1, <2>2, ListKept
  <2>6. CountsOK'
    BY <2>1, <2>2, <2>3, <2>5, AfterStep DEF CountsOK, listVars
  <2>7. UNCHANGED Table!vars
    BY <2>1, <2>3 DEF Table!vars
  <2> QED
    BY <2>3, <2>4, <2>5, <2>6, <2>7 DEF TableInv
<1> QED
  BY <1>1, <1>2, <1>3, <1>4, <1>5, <1>6, <1>7 DEF Next

\* The buckets hold chains of entries with counts that are never negative:
\* the second assertion of delete_breakpoint, at breakpoints.c:58.
THEOREM TableTypeCorrect == Spec => []TypeOK
<1>1. TableInv => TypeOK
  BY DEF TableInv
<1> QED
  BY <1>1, TableInit, TableStep, PTL DEF Spec

\* For every list of symbols and every -e, breakpoints_init counts each
\* wanted symbol once, and callstack_push_symfunc and callstack_pop keep the
\* count that of the symbols and the frames.
THEOREM CountsAlwaysWanted == Spec => []CountsWanted
<1>1. TableInv => CountsWanted
  <2> SUFFICES ASSUME TableInv, phase = "trace", NEW a \in Addr
               PROVE  Count(a) = held[a] + Cardinality({i \in 1..Len(read) :
                                             read[i].addr = a /\ Wanted(read[i])})
    BY DEF CountsWanted
  <2>1. Inserting = Len(list_of_symbols)
    BY DEF Inserting
  <2>2. Count(a) = held[a] + Uses(read, Len(read), a)
    BY <2>1 DEF TableInv, ListOK, CountsOK
  <2> QED
    BY <2>2 DEF Uses, Users
<1> QED
  BY <1>1, TableInit, TableStep, PTL DEF Spec

\* dict.c under breakpoints.c is a function from addresses to breakpoints:
\* every step of the hash table is a step of Breakpoints or changes nothing.
THEOREM TableRefinesBreakpoints == Spec => ImplementsBreakpoints
BY TableInit, TableStep, PTL DEF Spec, ImplementsBreakpoints, Table!Spec
====
