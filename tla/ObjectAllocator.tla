--------------------------- MODULE ObjectAllocator ---------------------------
(***************************************************************************)
(* What a slab promises the program that uses it, whatever its lists and   *)
(* masks do: an object is given to one holder at a time and lies in memory *)
(* that stays obtained for as long as it is held; memory is asked of the   *)
(* system only when all that was obtained is held, and goes back as soon   *)
(* as nothing of it is held.                                               *)
(***************************************************************************)
CONSTANTS
  Object,       \* the objects memory can be divided into
  ChunkOf(_)    \* the chunk of memory an object lies in

VARIABLES
  held,    \* the objects the program holds
  backed   \* the chunks obtained from the system

vars == <<held, backed>>

Chunks(objects) == {ChunkOf(o) : o \in objects}

Init == held = {} /\ backed = {}

\* An object nobody holds, in memory that is there ...
GiveBacked(o) ==
  /\ o \in Object \ held
  /\ ChunkOf(o) \in backed
  /\ held' = held \cup {o}
  /\ UNCHANGED backed

\* ... or, when all of that is held, in a chunk obtained for it.
GiveFresh(o) ==
  /\ o \in Object \ held
  /\ ChunkOf(o) \notin backed
  /\ {p \in Object : ChunkOf(p) \in backed} \subseteq held
  /\ held' = held \cup {o}
  /\ backed' = backed \cup {ChunkOf(o)}

\* A chunk goes back with the last object held in it.
Take(o) ==
  /\ o \in held
  /\ held' = held \ {o}
  /\ backed' = IF ChunkOf(o) \in Chunks(held \ {o}) THEN backed ELSE backed \ {ChunkOf(o)}

Close == held' = {} /\ backed' = {}

Next ==
  \/ \E o \in Object : GiveBacked(o) \/ GiveFresh(o) \/ Take(o)
  \/ Close

Spec == Init /\ [][Next]_vars

=============================================================================
