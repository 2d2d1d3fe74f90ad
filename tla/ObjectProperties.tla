-------------------------- MODULE ObjectProperties --------------------------
(***************************************************************************)
(* The properties of one JSON object while a program works with it: sets,   *)
(* adds, clears and normalizes them, captures them as the state of a live   *)
(* object, writes the object and reads it again.                           *)
(*                                                                         *)
(* What becomes of the values in them is not looked into here: JsonObject  *)
(* says what the constants are.                                            *)
(***************************************************************************)
EXTENDS PropertyList

CONSTANTS
  Pools,           \* what a behavior works with: a record of the properties it puts into
                   \* the object, the live ones among them, and the most there may be
  JsonValues,      \* the values that properties may get
  NormalForm(_),   \* a value with the properties in it normalized
  Rewritten(_),    \* a value after WriteJson and ReadJson
  MeaningOf(_)     \* what a value means, whatever it is held in

None == <<"none", 0>>

ASSUME PoolsAssumption ==
  \A p \in Pools :
    /\ p.length \in Nat
    /\ \A q \in p.properties \cup p.live :
         q \in [name : DOMAIN Rank, value : JsonValues]

\* What becomes of a value within the object changes nothing of its meaning.
ASSUME ValuesAssumption ==
  \A v \in JsonValues :
    /\ NormalForm(v) \in JsonValues /\ MeaningOf(NormalForm(v)) = MeaningOf(v)
    /\ Rewritten(v) \in JsonValues /\ MeaningOf(Rewritten(v)) = MeaningOf(v)
    /\ MeaningOf(v) # None

VARIABLES pool, list

propertyVars == <<pool, list>>

-----------------------------------------------------------------------------

PropertiesInit == pool \in Pools /\ list = <<>>

Becomes(l) == Len(l) <= pool.length /\ list' = l /\ UNCHANGED pool

\* SetJsonProperty, and add_object_properties.
SetProperty(p)   == Becomes(Inserted(list, p.name, p.value))
AddProperty(p)   == Becomes(Append(list, p))
ClearProperty(n) == Becomes(Cleared(list, n))

\* NormalizeJsonProperties of the list, which goes on with the values that are left.
Normalize ==
  LET sorted == StableSortedAndUnique(list)
  IN  Becomes([i \in 1 .. Len(sorted) |-> Property(sorted[i].name, NormalForm(sorted[i].value))])

\* The list after WriteJson and ReadJson of the object.
Rewrite ==
  Becomes(StableSortedAndUnique(
            [i \in 1 .. Len(list) |-> Property(list[i].name, Rewritten(list[i].value))]))

\* The properties of a live object go before those that its class has captured.
CaptureLive(live) == Becomes(Prepended(list, live))

NamesGiven == {p.name : p \in pool.properties}

LiveProperties ==
  {l \in UNION {[1 .. n -> pool.live] : n \in 1 .. pool.length} :
     \A i, j \in 1 .. Len(l) : i < j => l[i].name # l[j].name}

PropertiesNext ==
  \/ \E p \in pool.properties : SetProperty(p) \/ AddProperty(p)
  \/ \E n \in NamesGiven : ClearProperty(n)
  \/ Normalize
  \/ Rewrite
  \/ \E live \in LiveProperties : CaptureLive(live)

PropertiesSpec == PropertiesInit /\ [][PropertiesNext]_propertyVars

-----------------------------------------------------------------------------

\* What GetJsonProperty gives for a name: the first with it counts.  Where there is none it
\* gives null, which is told apart here from a property that is null.
MeaningIn(l, n) ==
  LET i == FindByName(l, n) IN IF i = 0 THEN None ELSE MeaningOf(l[i].value)

Map == INSTANCE PropertyMap WITH map <- [n \in NamesGiven |-> MeaningIn(list, n)]

ActsOnMap ==
  /\ \A p \in pool.properties :
       /\ SetProperty(p) => Map!Set(p.name, MeaningOf(p.value))
       /\ AddProperty(p) => Map!AddIfAbsent(p.name, MeaningOf(p.value))
  /\ \A n \in NamesGiven : ClearProperty(n) => Map!Remove(n)
  /\ Normalize \/ Rewrite => Map!Keep
  /\ \A live \in LiveProperties :
       CaptureLive(live) => Map!Override([n \in NamesOf(live) |-> MeaningIn(live, n)])

\* Whatever is done with the list, it is done to the map that GetJsonProperty sees:
\* duplicates that the list holds do not come to light when the first of them goes,
\* sorting keeps the first, and what is captured of a live object hides nothing else.
ImplementsMap == [][ActsOnMap]_propertyVars
=============================================================================
