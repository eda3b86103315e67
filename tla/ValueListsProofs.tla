--------------------------- MODULE ValueListsProofs ---------------------------
(***************************************************************************)
(* Proofs about ValueLists, for lists of any length over any letters: the  *)
(* loop invariant of each loop, and what it gives when the loop is over.   *)
(***************************************************************************)
EXTENDS ValueLists, FiniteSetTheorems, TLAPS

USE MaxValuesAssumption

Visited == 1..it - 1

\* unique: the set holds what was visited, and the first of each was kept.
UniqueLoop ==
    operation = "unique" =>
        /\ seen = {Key(values[j]) : j \in Visited}
        /\ kept = {i \in Visited : \A j \in 1..i - 1 : ~Same(i, j)}

\* The visited positions whose key filter_out has left in its set.
Blocking == {j \in Visited : values[j] # Key(values[j])}

\* What filter_out has against the value at a position.
Stays(i) ==
    /\ Key(values[i]) \notin FilterSet
    /\ \A j \in 1..i - 1 : Same(i, j) => values[j] = Key(values[j])

\* filter_out: the set holds the filter and the keys that could not be erased,
\* since they are not the values they were made of.
FilterOutLoop ==
    operation = "filter_out" =>
        /\ seen = FilterSet \cup {Key(values[j]) : j \in Blocking}
        /\ kept = {i \in Visited : Stays(i)}
        /\ \A i \in Visited : Key(values[i]) \notin FilterSet => \E j \in kept : Same(i, j)

\* contains_duplicates: until the first duplicate, what was visited is distinct.
DuplicatesLoop ==
    operation = "contains_duplicates" =>
        /\ duplicates => \E i \in 1..Len(values) : \E j \in 1..i - 1 : Same(i, j)
        /\ ~duplicates =>
              /\ seen = {Key(values[j]) : j \in Visited}
              /\ \A i \in Visited : \A j \in 1..i - 1 : ~Same(i, j)

\* times_duplicated: the map holds how often a value was visited.
CountLoop ==
    operation = "times_duplicated" =>
        \A v \in Value : count[v] = Cardinality({i \in Visited : values[i] = v})

LoopInv ==
    /\ TypeOK
    /\ \A v \in Value : count[v] < it
    /\ kept \in SUBSET Visited
    /\ UniqueLoop
    /\ FilterOutLoop
    /\ DuplicatesLoop
    /\ CountLoop

-----------------------------------------------------------------------------

\* A list is a sequence of values.
LEMMA ListFacts ==
    ASSUME NEW s \in List
    PROVE  /\ Len(s) \in Nat /\ Len(s) <= MaxValues
           /\ DOMAIN s = 1..Len(s)
           /\ \A i \in 1..Len(s) : s[i] \in Value
<1>1. PICK n \in 0..MaxValues : s \in [1..n -> Value]
  BY DEF List
<1>2. Len(s) = n /\ n \in Nat /\ n <= MaxValues
  BY <1>1
<1>. QED BY <1>1, <1>2

\* to_lower and the key of a value are values.
LEMMA KeyType ==
    ASSUME NEW v \in Value
    PROVE  Key(v) \in Value /\ to_lower(v) \in Value /\ Key(Key(v)) = Key(v)
BY DEF Value, Key, to_lower

\* Facts a turn of any loop uses.
LEMMA TurnFacts ==
    ASSUME LoopInv, More
    PROVE  /\ it \in 1..Len(values) /\ Len(values) \in Nat
           /\ it + 1 \in 1..Len(values) + 1
           /\ Value_it \in Value /\ Key(Value_it) \in Value
           /\ \A j \in 1..Len(values) : values[j] \in Value
           /\ 1..(it + 1) - 1 = Visited \cup {it} /\ it \notin Visited
           /\ Visited \subseteq 1..Len(values)
<1>1. /\ Len(values) \in Nat /\ \A i \in 1..Len(values) : values[i] \in Value
      /\ it \in 1..Len(values) + 1
  BY ListFacts DEF LoopInv, TypeOK
<1>2. it \in 1..Len(values)
  BY <1>1 DEF More
<1>3. Value_it \in Value
  BY <1>1, <1>2 DEF Value_it
<1>4. 1..(it + 1) - 1 = Visited \cup {it} /\ it \notin Visited /\ Visited \subseteq 1..Len(values)
  BY <1>1, <1>2 DEF Visited
<1>5. it + 1 \in 1..Len(values) + 1
  BY <1>1, <1>2
<1>. QED BY <1>1, <1>2, <1>3, <1>4, <1>5, KeyType

\* A loop begins with nothing visited.
LEMMA LoopInit == Init => LoopInv
<1> SUFFICES ASSUME Init PROVE LoopInv
  OBVIOUS
<1> USE DEF Init
<1>1. Len(values) \in Nat
  BY ListFacts
<1>2. Visited = {}
  BY DEF Visited
<1>3. FilterSet \in SUBSET Value
  <2>1. filter_out \in SUBSET Value
    OBVIOUS
  <2>. QED BY <2>1, KeyType DEF FilterSet
<1>4. TypeOK
  <2>1. times \in 0..MaxValues /\ filter_out \in SUBSET Value
    OBVIOUS
  <2>2. it \in 1..Len(values) + 1 /\ count \in [Value -> 0..Len(values)]
    BY <1>1
  <2>3. seen \in SUBSET Value /\ kept \in SUBSET (1..Len(values)) /\ duplicates \in BOOLEAN
    BY <1>3
  <2>. QED BY <2>1, <2>2, <2>3 DEF TypeOK
<1>5. \A v \in Value : count[v] < it
  OBVIOUS
<1>6. UniqueLoop /\ DuplicatesLoop
  BY <1>2 DEF UniqueLoop, DuplicatesLoop
<1>7. FilterOutLoop
  BY <1>2 DEF FilterOutLoop, Blocking
<1>8. CountLoop
  BY <1>2, FS_EmptySet DEF CountLoop
<1>. QED BY <1>2, <1>4, <1>5, <1>6, <1>7, <1>8 DEF LoopInv

\* A turn of unique.
LEMMA UniqueTurn ==
    ASSUME LoopInv, UniqueStep
    PROVE  LoopInv'
<1> USE DEF UniqueStep, input
<1>1. More
  OBVIOUS
<1>2. it' = it + 1 /\ Visited' = Visited \cup {it}
  BY <1>1, TurnFacts DEF Visited
<1>3. TypeOK' /\ kept' \in SUBSET Visited'
  <2>1. seen' \in SUBSET Value /\ kept' \in SUBSET (Visited \cup {it})
    BY <1>1, TurnFacts DEF LoopInv, TypeOK, KeepNew
  <2>2. kept' \in SUBSET (1..Len(values))
    BY <1>1, <2>1, TurnFacts
  <2>. QED BY <1>1, <1>2, <2>1, <2>2, TurnFacts DEF LoopInv, TypeOK
<1>4. (\A v \in Value : count[v] < it)'
  <2>1. \A v \in Value : count[v] \in Int /\ count[v] < it
    BY DEF LoopInv, TypeOK
  <2>. QED BY <1>1, <1>2, <2>1, TurnFacts
<1>5. UniqueLoop'
  <2>1. \A i, j : Same(i, j)' <=> Same(i, j)
    BY DEF Same, Key
  <2>2. \A j : Key(values[j])' = Key(values[j])
    BY DEF Key
  <2>3. seen = {Key(values[j]) : j \in Visited}
        /\ kept = {i \in Visited : \A j \in 1..i - 1 : ~Same(i, j)}
    BY DEF LoopInv, UniqueLoop
  <2>4. IsNew(Value_it) <=> \A j \in 1..it - 1 : ~Same(it, j)
    BY <2>3 DEF IsNew, Same, Value_it, Visited
  <2>5. seen' = {Key(values[j]) : j \in Visited \cup {it}}
    BY <2>3, <2>4 DEF KeepNew, IsNew, Value_it
  <2>6. kept' = {i \in Visited \cup {it} : \A j \in 1..i - 1 : ~Same(i, j)}
    BY <1>1, <2>3, <2>4, TurnFacts DEF KeepNew
  <2>7. UniqueLoop' <=>
          /\ seen' = {Key(values[j]) : j \in Visited \cup {it}}
          /\ kept' = {i \in Visited \cup {it} : \A j \in 1..i - 1 : ~Same(i, j)}
    BY <1>2, <2>1, <2>2 DEF UniqueLoop
  <2>. QED BY <2>5, <2>6, <2>7
<1>6. FilterOutLoop' /\ DuplicatesLoop' /\ CountLoop'
  BY DEF FilterOutLoop, DuplicatesLoop, CountLoop
<1>. QED BY <1>3, <1>4, <1>5, <1>6 DEF LoopInv

\* A turn of filter_out.
LEMMA FilterOutTurn ==
    ASSUME LoopInv, FilterOutStep
    PROVE  LoopInv'
<1> USE DEF FilterOutStep, input
<1>1. More
  OBVIOUS
<1>2. it' = it + 1 /\ Visited' = Visited \cup {it}
  BY <1>1, TurnFacts DEF Visited
<1>3. TypeOK' /\ kept' \in SUBSET Visited'
  <2>1. seen' \in SUBSET Value /\ kept' \in SUBSET (Visited \cup {it})
    BY <1>1, TurnFacts DEF LoopInv, TypeOK, KeepAndErase
  <2>2. kept' \in SUBSET (1..Len(values))
    BY <1>1, <2>1, TurnFacts
  <2>. QED BY <1>1, <1>2, <2>1, <2>2, TurnFacts DEF LoopInv, TypeOK
<1>4. (\A v \in Value : count[v] < it)'
  <2>1. \A v \in Value : count[v] \in Int /\ count[v] < it
    BY DEF LoopInv, TypeOK
  <2>. QED BY <1>1, <1>2, <2>1, TurnFacts
<1>5. FilterOutLoop'
  <2>1. /\ seen = FilterSet \cup {Key(values[j]) : j \in Blocking}
        /\ kept = {i \in Visited : Stays(i)}
        /\ \A i \in Visited : Key(values[i]) \notin FilterSet => \E j \in kept : Same(i, j)
    BY DEF LoopInv, FilterOutLoop
  <2>2. Value_it \in Value /\ it \in 1..Len(values)
        /\ \A j \in Visited : values[j] \in Value
    BY <1>1, TurnFacts
  <2>3. Key(Key(Value_it)) = Key(Value_it) /\ \A v \in Value : Key(Key(v)) = Key(v)
    BY <2>2, KeyType
  <2>4. IsNew(Value_it) <=> Stays(it)
    BY <2>1, <2>2 DEF IsNew, Stays, Same, Blocking, Value_it, Visited
  \* All in the set are keys, so that erasing a value which is not one does nothing.
  <2>5. \A k \in seen : Key(k) = k
    <3>1. \A k \in FilterSet : Key(k) = k
      BY <2>3 DEF FilterSet, LoopInv, TypeOK
    <3>2. \A j \in Blocking : Key(Key(values[j])) = Key(values[j])
      BY <2>2, <2>3 DEF Blocking
    <3>. QED BY <2>1, <3>1, <3>2
  <2>6. seen' = IF values[it] = Key(values[it]) THEN seen ELSE seen \cup {Key(values[it])}
    <3>1. CASE ~IsNew(Value_it)
      BY <3>1 DEF IsNew, Value_it
    <3>2. CASE IsNew(Value_it) /\ Value_it = Key(Value_it)
      BY <3>2 DEF KeepAndErase, IsNew, Value_it
    <3>3. CASE IsNew(Value_it) /\ Value_it # Key(Value_it)
      BY <2>3, <2>5, <3>3 DEF KeepAndErase, Value_it
    <3>. QED BY <3>1, <3>2, <3>3
  <2>7. {j \in Visited \cup {it} : values[j] # Key(values[j])}
            = IF values[it] = Key(values[it]) THEN Blocking ELSE Blocking \cup {it}
    BY DEF Blocking
  <2>8. seen' = FilterSet \cup
            {Key(values[j]) : j \in {k \in Visited \cup {it} : values[k] # Key(values[k])}}
    BY <2>1, <2>6, <2>7
  <2>9. kept' = {i \in Visited \cup {it} : Stays(i)}
    BY <2>1, <2>4 DEF KeepAndErase
  \* A value that is kept out by an earlier one is the same as that one.
  <2>10. ASSUME NEW i \in Visited \cup {it}, Key(values[i]) \notin FilterSet
         PROVE  \E j \in kept' : Same(i, j)
    <3>1. kept \subseteq kept'
      BY DEF KeepAndErase
    <3>2. CASE i \in Visited
      BY <2>1, <2>10, <3>1, <3>2
    <3>3. CASE i = it /\ Stays(it)
      BY <2>9, <3>3 DEF Same
    <3>4. CASE i = it /\ ~Stays(it)
      <4>1. PICK j \in Visited : Same(it, j)
        BY <2>10, <3>4 DEF Stays, Visited
      <4>2. PICK k \in kept : Same(j, k)
        BY <2>1, <2>10, <3>4, <4>1 DEF Same
      <4>. QED BY <3>1, <3>4, <4>1, <4>2 DEF Same
    <3>. QED BY <3>2, <3>3, <3>4
  <2>11. FilterOutLoop' <=>
          /\ seen' = FilterSet \cup
                 {Key(values[j]) : j \in {k \in Visited \cup {it} : values[k] # Key(values[k])}}
          /\ kept' = {i \in Visited \cup {it} : Stays(i)}
          /\ \A i \in Visited \cup {it} :
                 Key(values[i]) \notin FilterSet => \E j \in kept' : Same(i, j)
    BY <1>2 DEF FilterOutLoop, Blocking, FilterSet, Stays, Same, Key
  <2>. QED BY <2>8, <2>9, <2>10, <2>11
<1>6. UniqueLoop' /\ DuplicatesLoop' /\ CountLoop'
  BY DEF UniqueLoop, DuplicatesLoop, CountLoop
<1>. QED BY <1>3, <1>4, <1>5, <1>6 DEF LoopInv

\* A turn of contains_duplicates.
LEMMA DuplicatesTurn ==
    ASSUME LoopInv, ContainsDuplicatesStep
    PROVE  LoopInv'
<1> USE DEF ContainsDuplicatesStep, input
<1>1. More
  OBVIOUS
<1>2. it' \in 1..Len(values) + 1 /\ it < it' /\ Visited \subseteq Visited'
  BY <1>1, TurnFacts DEF Visited, StopAtDuplicate
<1>3. TypeOK' /\ kept' \in SUBSET Visited'
  <2>1. seen' \in SUBSET Value
    BY <1>1, TurnFacts DEF LoopInv, TypeOK
  <2>2. duplicates' \in BOOLEAN
    BY DEF StopAtDuplicate, LoopInv, TypeOK
  <2>. QED BY <1>2, <2>1, <2>2 DEF LoopInv, TypeOK
<1>4. (\A v \in Value : count[v] < it)'
  <2>1. \A v \in Value : count[v] \in Int /\ count[v] < it
    BY DEF LoopInv, TypeOK
  <2>. QED BY <1>1, <1>2, <2>1, TurnFacts
<1>5. DuplicatesLoop'
  <2>1. \A i, j : Same(i, j)' <=> Same(i, j)
    BY DEF Same, Key
  <2>2. \A j : Key(values[j])' = Key(values[j])
    BY DEF Key
  <2>3. CASE duplicates
    BY <2>1, <2>3 DEF StopAtDuplicate, LoopInv, DuplicatesLoop
  <2>4. CASE ~duplicates
    <3>1. /\ seen = {Key(values[j]) : j \in Visited}
          /\ \A i \in Visited : \A j \in 1..i - 1 : ~Same(i, j)
      BY <2>4 DEF LoopInv, DuplicatesLoop
    <3>2. IsNew(Value_it) <=> \A j \in 1..it - 1 : ~Same(it, j)
      BY <3>1 DEF IsNew, Same, Value_it, Visited
    <3>3. CASE IsNew(Value_it)
      <4>1. it' = it + 1 /\ ~duplicates' BY <2>4, <3>3 DEF StopAtDuplicate
      <4>2. Visited' = Visited \cup {it} BY <1>1, <4>1, TurnFacts DEF Visited
      <4>3. seen' = {Key(values[j]) : j \in Visited \cup {it}}
        BY <3>1 DEF Value_it
      <4>. QED BY <2>1, <2>2, <3>1, <3>2, <3>3, <4>1, <4>2, <4>3 DEF DuplicatesLoop
    <3>4. CASE ~IsNew(Value_it)
      <4>1. duplicates' /\ \E j \in 1..it - 1 : Same(it, j)
        BY <3>2, <3>4 DEF StopAtDuplicate
      <4>2. it \in 1..Len(values) BY <1>1, TurnFacts
      <4>. QED BY <2>1, <4>1, <4>2 DEF DuplicatesLoop
    <3>. QED BY <3>3, <3>4
  <2>. QED BY <2>3, <2>4
<1>6. UniqueLoop' /\ FilterOutLoop' /\ CountLoop'
  BY DEF UniqueLoop, FilterOutLoop, CountLoop
<1>. QED BY <1>2, <1>3, <1>4, <1>5, <1>6 DEF LoopInv

\* A turn of times_duplicated.
LEMMA CountTurn ==
    ASSUME LoopInv, TimesDuplicatedStep
    PROVE  LoopInv'
<1> USE DEF TimesDuplicatedStep, input
<1>1. More
  OBVIOUS
<1>2. it' = it + 1 /\ Visited' = Visited \cup {it}
  BY <1>1, TurnFacts DEF Visited
<1>3. \A v \in Value : /\ count[v] \in Nat /\ count[v] < it
                      /\ count'[v] = IF v = Value_it THEN count[v] + 1 ELSE count[v]
  BY DEF LoopInv, TypeOK
<1>4. \A v \in Value : count'[v] < it' /\ count'[v] \in 0..Len(values)
  BY <1>1, <1>2, <1>3, TurnFacts
<1>5. TypeOK' /\ kept' \in SUBSET Visited'
  <2>1. count' \in [Value -> 0..Len(values)]
    BY <1>4 DEF LoopInv, TypeOK
  <2>. QED BY <1>1, <1>2, <2>1, TurnFacts DEF LoopInv, TypeOK
<1>6. CountLoop'
  <2>1. ASSUME NEW v \in Value
        PROVE  count'[v] = Cardinality({i \in Visited \cup {it} : values[i] = v})
    <3> DEFINE S == {i \in Visited : values[i] = v}
    <3>1. count[v] = Cardinality(S) BY DEF LoopInv, CountLoop
    <3>2. IsFiniteSet(S)
      <4>1. IsFiniteSet(Visited) BY <1>1, TurnFacts, FS_Interval DEF Visited
      <4>. QED BY <4>1, FS_Subset
    <3>3. CASE v = Value_it
      <4>1. {i \in Visited \cup {it} : values[i] = v} = S \cup {it} BY <3>3 DEF Value_it
      <4>2. it \notin S BY <1>1, TurnFacts
      <4>. HIDE DEF S
      <4>3. Cardinality(S \cup {it}) = Cardinality(S) + 1 BY <3>2, <4>2, FS_AddElement
      <4>. QED BY <1>3, <3>1, <3>3, <4>1, <4>3
    <3>4. CASE v # Value_it
      <4>1. {i \in Visited \cup {it} : values[i] = v} = S BY <3>4 DEF Value_it
      <4>. QED BY <1>3, <3>1, <3>4, <4>1
    <3>. QED BY <3>3, <3>4
  <2>. QED BY <1>2, <2>1 DEF CountLoop
<1>7. UniqueLoop' /\ FilterOutLoop' /\ DuplicatesLoop'
  BY DEF UniqueLoop, FilterOutLoop, DuplicatesLoop
<1>. QED BY <1>2, <1>4, <1>5, <1>6, <1>7 DEF LoopInv

\* Each loop keeps its invariant, and no loop touches another's.
LEMMA LoopStep == LoopInv /\ [Next]_vars => LoopInv'
<1>1. ASSUME LoopInv, UNCHANGED vars PROVE LoopInv'
  BY <1>1 DEF vars, input, LoopInv, TypeOK, Visited, UniqueLoop, FilterOutLoop, DuplicatesLoop,
             CountLoop, Same, Key, Blocking, Stays, FilterSet
<1>. QED BY <1>1, UniqueTurn, FilterOutTurn, DuplicatesTurn, CountTurn DEF Next, Returned

\* The loop invariants hold of every list, filter and count.
THEOREM LoopsInvariant == Spec => []LoopInv
BY LoopInit, LoopStep, PTL DEF Spec

-----------------------------------------------------------------------------
(* What the loops give when they are over. *)

\* A loop that is over has visited all.
LEMMA AllVisited ==
    ASSUME LoopInv, ~More
    PROVE  Visited = 1..Len(values)
BY ListFacts DEF LoopInv, TypeOK, More, Visited

\* The variables of the loops keep their types; `it` stays in the list or at its end.
THEOREM ValueListTypes == Spec => []TypeOK
<1>1. LoopInv => TypeOK
  BY DEF LoopInv
<1>. QED BY <1>1, LoopsInvariant, PTL

\* BE_ValuesUnique keeps the first of every value and nothing else.
THEOREM UniqueIsCorrect == Spec => []UniqueKeepsFirsts
<1>1. LoopInv => UniqueKeepsFirsts
  BY AllVisited DEF LoopInv, UniqueLoop, UniqueKeepsFirsts, Done
<1>. QED BY <1>1, LoopsInvariant, PTL

\* What BE_ValuesFilterOut keeps, of any list.
LEMMA FilterOutResult ==
    ASSUME LoopInv, Done("filter_out")
    PROVE  /\ kept = {i \in Remaining : Stays(i)}
           /\ \A i \in Remaining : \E j \in kept : Same(i, j)
BY AllVisited DEF LoopInv, FilterOutLoop, Done, Remaining, Stays

\* BE_ValuesFilterOut returns the remaining values, as documented, unless case
\* does not matter and a value comes again after one not written like its key;
\* then nothing of the filter is left either, and a spelling of all the rest.
THEOREM FilterOutIsCorrect == Spec => []FilterOutIsExact
<1>1. ASSUME LoopInv, Done("filter_out")
      PROVE  /\ RepeatsFollowTheirKey => kept = Remaining
             /\ kept \subseteq Remaining
             /\ \A i \in Remaining : \E j \in kept : Same(i, j)
  <2>1. RepeatsFollowTheirKey => \A i \in Remaining : Stays(i)
    BY DEF RepeatsFollowTheirKey, Remaining, Stays
  <2>2. QED
    BY <1>1, <2>1, FilterOutResult
<1>2. LoopInv => FilterOutIsExact
  BY <1>1 DEF FilterOutIsExact
<1>. QED BY <1>2, LoopsInvariant, PTL

\* When case matters BE_ValuesFilterOut removes the filter and nothing else, as
\* documented.
THEOREM FilterOutWithCase ==
    Spec => [](Done("filter_out") /\ case_sensitive =>
                   kept = {i \in 1..Len(values) : values[i] \notin filter_out})
<1>1. FilterOutIsExact =>
          (Done("filter_out") /\ case_sensitive =>
               kept = {i \in 1..Len(values) : values[i] \notin filter_out})
  <2>1. SUFFICES ASSUME FilterOutIsExact, Done("filter_out"), case_sensitive
                 PROVE  kept = {i \in 1..Len(values) : values[i] \notin filter_out}
    OBVIOUS
  <2>2. \A v : Key(v) = v
    BY <2>1 DEF Key
  <2>3. RepeatsFollowTheirKey /\ FilterSet = filter_out
    BY <2>2 DEF RepeatsFollowTheirKey, FilterSet
  <2>4. Remaining = {i \in 1..Len(values) : values[i] \notin filter_out}
    BY <2>2, <2>3 DEF Remaining
  <2>5. QED
    BY <2>1, <2>3, <2>4 DEF FilterOutIsExact
<1>. QED BY <1>1, FilterOutIsCorrect, PTL

\* When case does not matter BE_ValuesFilterOut drops a value that is not in the
\* filter in one case only: an earlier one is the same and not written like its
\* key.  This is the whole extent of the disagreement with its documentation.
THEOREM FilterOutWithoutCase ==
    Spec => [](Done("filter_out") =>
                   \A i \in Remaining :
                       i \notin kept <=>
                           \E j \in 1..i - 1 : Same(i, j) /\ values[j] # Key(values[j]))
<1>1. LoopInv =>
          (Done("filter_out") =>
               \A i \in Remaining :
                   i \notin kept <=>
                       \E j \in 1..i - 1 : Same(i, j) /\ values[j] # Key(values[j]))
  <2>1. SUFFICES ASSUME LoopInv, Done("filter_out"), NEW i \in Remaining
                 PROVE  i \notin kept <=>
                            \E j \in 1..i - 1 : Same(i, j) /\ values[j] # Key(values[j])
    OBVIOUS
  <2>2. i \in kept <=> Stays(i)
    BY <2>1, FilterOutResult
  <2>3. QED
    BY <2>2 DEF Stays, Remaining
<1>. QED BY <1>1, LoopsInvariant, PTL

\* BE_ValuesContainsDuplicates finds a duplicate if and only if there is one.
THEOREM DuplicatesAreCorrect == Spec => []DuplicatesAreFound
<1>1. LoopInv => DuplicatesAreFound
  BY AllVisited DEF LoopInv, DuplicatesLoop, DuplicatesAreFound, Done
<1>. QED BY <1>1, LoopsInvariant, PTL

\* BE_ValuesTimesDuplicated returns the values that occur so often.
THEOREM TimesAreCorrect == Spec => []TimesAreCounted
<1>1. ASSUME LoopInv, Done("times_duplicated") PROVE TimesAreCounted
  <2>1. Visited = 1..Len(values) BY <1>1, AllVisited DEF Done
  <2>2. \A v \in Value : count[v] = Cardinality({i \in Visited : values[i] = v})
    BY <1>1 DEF LoopInv, CountLoop, Done
  <2>3. Len(values) \in Nat /\ \A i \in 1..Len(values) : values[i] \in Value
    BY <1>1, ListFacts DEF LoopInv, TypeOK
  <2>4. ASSUME NEW v \in Value
        PROVE  count[v] > 0 <=> \E i \in 1..Len(values) : values[i] = v
    <3> DEFINE S == {i \in Visited : values[i] = v}
    <3>1. IsFiniteSet(S)
      <4>1. IsFiniteSet(Visited) BY <2>1, <2>3, FS_Interval
      <4>. QED BY <4>1, FS_Subset
    <3>2. count[v] = Cardinality(S) BY <2>2
    <3>3. S # {} <=> \E i \in 1..Len(values) : values[i] = v BY <2>1
    <3>. HIDE DEF S
    <3>4. Cardinality(S) \in Nat /\ (Cardinality(S) = 0 <=> S = {})
      BY <3>1, FS_CardinalityType, FS_EmptySet
    <3>. QED BY <3>2, <3>3, <3>4
  <2>. QED BY <2>1, <2>2, <2>3, <2>4 DEF TimesAreCounted, TimesDuplicated
<1>2. LoopInv => TimesAreCounted
  BY <1>1 DEF TimesAreCounted
<1>. QED BY <1>2, LoopsInvariant, PTL
=============================================================================
