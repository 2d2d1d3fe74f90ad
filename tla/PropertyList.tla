---------------------------- MODULE PropertyList ----------------------------
(***************************************************************************)
(* Lists of named things, as protobuf's repeated fields: the templates of   *)
(* name_value_util.h, what json_properties.cc does to the list of an       *)
(* object's properties, and what live_capturable.cc puts before them.      *)
(***************************************************************************)
EXTENDS Integers, FiniteSets, Sequences, SequencesExt

CONSTANT Rank   \* of each name, in the order of operator< on strings

ASSUME RankAssumption ==
  /\ \A n \in DOMAIN Rank : Rank[n] \in Int
  /\ \A m, n \in DOMAIN Rank : Rank[m] = Rank[n] => m = n

Less(a, b) == Rank[a] < Rank[b]

Property(n, v) == [name |-> n, value |-> v]

NamesOf(list) == {list[i].name : i \in 1 .. Len(list)}

SwapElements(list, i, j) == [list EXCEPT ![i] = list[j], ![j] = list[i]]

\* FindByName: the first with the name, or 0.
FindByName(list, name) == SelectInSeq(list, LAMBDA p : p.name = name)

\* The elements at some of a list's positions, each behind those that go before it.
Arranged(list, positions, before) ==
  LET Place(i) == Cardinality({j \in positions : <<j, i>> \in before})
  IN  [k \in 1 .. Cardinality(positions) |-> list[CHOOSE i \in positions : Place(i) = k]]

\* std::stable_sort: before an element go those of lesser names, and the earlier ones of
\* its own.
SortingOrder(list) ==
  {p \in (1 .. Len(list)) \X (1 .. Len(list)) :
     \/ Less(list[p[1]].name, list[p[2]].name)
     \/ list[p[1]].name = list[p[2]].name /\ p[1] <= p[2]}

StableSorted(list) == Arranged(list, 1 .. Len(list), SortingOrder(list))

\* The order of a list's positions.
ByPosition(list) == {p \in (1 .. Len(list)) \X (1 .. Len(list)) : p[1] <= p[2]}

\* Mutant of WithoutDuplicates: of neighbours with one name the last is kept.
WithoutDuplicatesButLast(list) ==
  Arranged(list, {i \in 1 .. Len(list) : i = Len(list) \/ list[i + 1].name # list[i].name},
           ByPosition(list))

\* std::unique: of neighbours with one name the first is kept.
WithoutDuplicates(list) ==
  Arranged(list, {i \in 1 .. Len(list) : i = 1 \/ list[i - 1].name # list[i].name},
           ByPosition(list))

StableSortedAndUnique(list) == WithoutDuplicates(StableSorted(list))

IsSortedAndUnique(list) ==
  \A i \in 1 .. Len(list) - 1 : Less(list[i].name, list[i + 1].name)

\* The loop that ClearJsonProperty and InsertName end with: from the place start on, what
\* has another name is swapped to the front of the rest, which is then cut off.
Erased(list, start, name) ==
  LET turn[from \in start - 1 .. Len(list)] ==   \* when the turn of from is over
        IF from = start - 1 THEN [list |-> list, to |-> start]
        ELSE LET a == turn[from - 1]
             IN  IF a.list[from].name = name THEN a
                 ELSE [list |-> SwapElements(a.list, from, a.to), to |-> a.to + 1]
      end == turn[Len(list)]
  IN  SubSeq(end.list, 1, end.to - 1)

\* ClearJsonProperty.
Cleared(list, name) == Erased(list, 1, name)

\* InsertName, and the assignment to what GetMutableJsonProperty returns: the first one
\* of the name, or a new one at the end, gets the value; later ones are erased.
Inserted(list, name, value) ==
  LET found  == FindByName(list, name)
      added  == IF found > 0 THEN list ELSE Append(list, Property(name, value))
      match  == IF found > 0 THEN found ELSE Len(added)
  IN  [Erased(added, match + 1, name) EXCEPT ![match].value = value]

\* Mutant of MovesUp: from the front, over what has not been moved.
MovesUpFromFront(old, new) == [k \in 1 .. old |-> k]

\* The places from which Prepended moves elements up, in the order it does.
MovesUp(old, new) == [k \in 1 .. old |-> old - k + 1]

\* CaptureLiveJsonOut: as many elements are added as will go before the list, the old
\* ones are swapped up, the last one first, and the new ones take their places.
Prepended(list, new) ==
  LET room  == list \o [i \in 1 .. Len(new) |-> Property("", <<"null", 0>>)]
      moves == MovesUp(Len(list), Len(new))
      raised[k \in 0 .. Len(list)] ==   \* after k moves
        IF k = 0 THEN room
        ELSE LET so == raised[k - 1] IN SwapElements(so, moves[k], moves[k] + Len(new))
      end   == raised[Len(list)]
  IN  [i \in 1 .. Len(end) |-> IF i <= Len(new) THEN new[i] ELSE end[i]]
=============================================================================
