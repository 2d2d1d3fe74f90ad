---------------------------- MODULE PropertyMap ----------------------------
(***************************************************************************)
(* What the properties of a JSON object promise: a map from names to what   *)
(* their values mean, whatever list of properties holds it.                *)
(***************************************************************************)
CONSTANT None   \* the meaning of a name that is not there

VARIABLE map

Set(n, m) == map' = [map EXCEPT ![n] = m]
Remove(n) == map' = [map EXCEPT ![n] = None]
Keep      == map' = map

\* A property is added behind the others, where one of its name hides it.
AddIfAbsent(n, m) == map' = [map EXCEPT ![n] = IF @ = None THEN m ELSE @]

\* Several are put before the others, and hide those of their names.
Override(over) ==
  map' = [n \in DOMAIN map |-> IF n \in DOMAIN over THEN over[n] ELSE map[n]]
=============================================================================
