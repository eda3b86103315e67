------------------------------ MODULE ValueLists ------------------------------
(***************************************************************************)
(* The loops of BEValueList behind BE_ValuesUnique, BE_ValuesFilterOut,    *)
(* BE_ValuesContainsDuplicates and BE_ValuesTimesDuplicated.  One action   *)
(* is one turn of a loop.                                                  *)
(*                                                                         *)
(* Abstracted: a value is a letter and whether it is in lower case already *)
(* (these functions drop empty values when they split their text).  A      *)
(* result is the set of the positions kept: the loops append values as     *)
(* they meet them, so the positions say which values and in which order.   *)
(***************************************************************************)
EXTENDS Integers, Sequences, FiniteSets

CONSTANTS
    Letter,      \* what values are told apart by when case does not matter
    MaxValues    \* bound on the length of a list

ASSUME MaxValuesAssumption == MaxValues \in Nat

Value == [letter : Letter, lower : BOOLEAN]

List == UNION {[1..n -> Value] : n \in 0..MaxValues}

VARIABLES
    operation,
    case_sensitive,
    values,
    filter_out,        \* the values of the second list
    times,             \* numberOfDuplicates
    it,
    seen,              \* the std::set of the loop: unordered, filter_set or unique
    kept,              \* the positions of the values in the result
    duplicates,        \* contains_duplicates
    count              \* count_of_duplicates; 0 for a value that is not in the map

input == <<operation, case_sensitive, values, filter_out, times>>
vars == <<input, it, seen, kept, duplicates, count>>

Operation == {"unique", "filter_out", "contains_duplicates", "times_duplicated"}

TypeOK ==
    /\ operation \in Operation
    /\ case_sensitive \in BOOLEAN
    /\ values \in List
    /\ filter_out \in SUBSET Value
    /\ times \in 0..MaxValues
    /\ it \in 1..Len(values) + 1
    /\ seen \in SUBSET Value
    /\ kept \in SUBSET (1..Len(values))
    /\ duplicates \in BOOLEAN
    /\ count \in [Value -> 0..Len(values)]

\* boost::to_lower
to_lower(v) == [v EXCEPT !.lower = TRUE]

\* What inserted() puts into the set for a value.
Key(v) == IF case_sensitive THEN v ELSE to_lower(v)

\* The set filter_out starts with.
FilterSet == {Key(v) : v \in filter_out}

Init ==
    /\ operation \in Operation
    /\ case_sensitive \in BOOLEAN
    /\ values \in List
    /\ filter_out \in IF operation = "filter_out" THEN SUBSET Value ELSE {{}}
    /\ times \in IF operation = "times_duplicated" THEN 0..MaxValues ELSE {0}
    /\ it = 1
    /\ seen = IF operation = "filter_out" THEN FilterSet ELSE {}
    /\ kept = {}
    /\ duplicates = FALSE
    /\ count = [v \in Value |-> 0]

More == it <= Len(values)
Value_it == values[it]

\* What inserted() returns.
IsNew(v) == Key(v) \notin seen

\* Mutant: a value that is new is put into the result, but not into the set.
ForgetNew ==
    /\ kept' = kept \cup {it}
    /\ UNCHANGED seen

\* unique: a new value is kept.
KeepNew ==
    /\ kept' = kept \cup {it}
    /\ seen' = seen \cup {Key(Value_it)}

UniqueStep ==
    /\ operation = "unique" /\ More
    /\ IF IsNew(Value_it) THEN KeepNew ELSE UNCHANGED <<kept, seen>>
    /\ it' = it + 1
    /\ UNCHANGED <<input, duplicates, count>>

\* Mutant: the value stays in the set.
KeepAndBlock ==
    /\ kept' = kept \cup {it}
    /\ seen' = seen \cup {Key(Value_it)}

\* filter_out: a value that could be inserted is kept, and taken out of the set
\* again, as it is and not as it was inserted.
KeepAndErase ==
    /\ kept' = kept \cup {it}
    /\ seen' = (seen \cup {Key(Value_it)}) \ {Value_it}

FilterOutStep ==
    /\ operation = "filter_out" /\ More
    /\ IF IsNew(Value_it) THEN KeepAndErase ELSE UNCHANGED <<kept, seen>>
    /\ it' = it + 1
    /\ UNCHANGED <<input, duplicates, count>>

\* contains_duplicates: the first value that is not new ends the loop.
StopAtDuplicate ==
    IF IsNew(Value_it)
    THEN it' = it + 1 /\ UNCHANGED duplicates
    ELSE duplicates' = TRUE /\ it' = Len(values) + 1

ContainsDuplicatesStep ==
    /\ operation = "contains_duplicates" /\ More
    /\ StopAtDuplicate
    /\ seen' = seen \cup {Key(Value_it)}
    /\ UNCHANGED <<input, kept, count>>

TimesDuplicatedStep ==
    /\ operation = "times_duplicated" /\ More
    /\ count' = [count EXCEPT ![Value_it] = @ + 1]
    /\ it' = it + 1
    /\ UNCHANGED <<input, seen, kept, duplicates>>

\* Mutant: at least as often.
OftenEnough == {v \in Value : count[v] > 0 /\ count[v] >= times}

\* The second loop of times_duplicated, over the map: the values of the result.
TimesDuplicated == {v \in Value : count[v] > 0 /\ count[v] = times}

\* The function has returned.
Returned == ~More /\ UNCHANGED vars

Next ==
    UniqueStep \/ FilterOutStep \/ ContainsDuplicatesStep \/ TimesDuplicatedStep \/ Returned

Spec == Init /\ [][Next]_vars

-----------------------------------------------------------------------------
(* Properties. *)

Done(op) == operation = op /\ ~More

\* Whether two positions hold what the caller regards as the same value.
Same(i, j) == Key(values[i]) = Key(values[j])

\* BE_ValuesUnique keeps the first of every value, each once, and nothing else.
UniqueKeepsFirsts ==
    Done("unique") =>
        kept = {i \in 1..Len(values) : \A j \in 1..i - 1 : ~Same(i, j)}

\* The positions of what the documentation of BE_ValuesFilterOut calls the
\* remaining values: those that are not in the filter.
Remaining == {i \in 1..Len(values) : Key(values[i]) \notin FilterSet}

\* No value comes again after one that is the same but not written like its key.
\* When case matters every value is its own key, and that is so of every list.
RepeatsFollowTheirKey ==
    \A i \in Remaining : \A j \in 1..i - 1 : Same(i, j) => values[j] = Key(values[j])

\* BE_ValuesFilterOut removes what is in the filter and returns the remaining
\* values, also those that occur more than once.  That is what its documentation
\* says, and it is so whenever case matters.  When case does not matter it is
\* claimed only of lists whose repeats follow their key: of A and A the second
\* is dropped against the documentation (the key that the first one put into
\* the set is not the value that is erased).  Then nothing of the filter comes
\* through all the same, and of every remaining value some spelling does.
FilterOutIsExact ==
    Done("filter_out") =>
        /\ RepeatsFollowTheirKey => kept = Remaining
        /\ kept \subseteq Remaining
        /\ \A i \in Remaining : \E j \in kept : Same(i, j)

\* BE_ValuesContainsDuplicates tells whether some value occurs twice, although
\* it stops at the first it finds.
DuplicatesAreFound ==
    Done("contains_duplicates") =>
        (duplicates <=> \E i \in 1..Len(values) : \E j \in 1..i - 1 : Same(i, j))

\* BE_ValuesTimesDuplicated returns the values of the list that occur so often;
\* for 0 that is none.
TimesAreCounted ==
    Done("times_duplicated") =>
        TimesDuplicated =
            {v \in {values[i] : i \in 1..Len(values)} :
                 Cardinality({i \in 1..Len(values) : values[i] = v}) = times}

=============================================================================
