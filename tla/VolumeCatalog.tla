---------------------------- MODULE VolumeCatalog ----------------------------
(***************************************************************************)
(* What a catalogue of named volumes promises, without saying how: an ID   *)
(* is drawn for a name, then registered if no live volume has the name or  *)
(* refused otherwise, lives until it is removed, and never comes back.     *)
(***************************************************************************)
CONSTANTS
  Ids,
  Names,
  NULL

VARIABLES
  phase,    \* phase[id]: how far the volume has come
  nameOf    \* nameOf[id]: the name the ID was drawn for (once drawn)

vars == <<phase, nameOf>>

Live(n) == {id \in Ids : phase[id] = "live" /\ nameOf[id] = n}

Init ==
  /\ phase = [id \in Ids |-> "unused"]
  /\ nameOf = [id \in Ids |-> NULL]

Draw(id, n) ==
  /\ phase[id] = "unused"
  /\ phase' = [phase EXCEPT ![id] = "pending"]
  /\ nameOf' = [nameOf EXCEPT ![id] = n]

Register(id) ==
  /\ phase[id] = "pending"
  /\ Live(nameOf[id]) = {}
  /\ phase' = [phase EXCEPT ![id] = "live"]
  /\ UNCHANGED nameOf

Refuse(id) ==
  /\ phase[id] = "pending"
  /\ Live(nameOf[id]) # {}
  /\ phase' = [phase EXCEPT ![id] = "gone"]
  /\ UNCHANGED nameOf

Remove(id) ==
  /\ phase[id] = "live"
  /\ phase' = [phase EXCEPT ![id] = "gone"]
  /\ UNCHANGED nameOf

Next ==
  \E id \in Ids :
    \/ \E n \in Names : Draw(id, n)
    \/ Register(id)
    \/ Refuse(id)
    \/ Remove(id)

Spec == Init /\ [][Next]_vars

\* No two live volumes have the same name.
NamesUnique ==
  \A i, j \in Ids :
    phase[i] = "live" /\ phase[j] = "live" /\ nameOf[i] = nameOf[j] => i = j
=============================================================================
