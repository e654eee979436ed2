----------------------------- MODULE ObjectStore -----------------------------
(***************************************************************************)
(* What the append-only writer promises, without files, sections or         *)
(* offsets: a store of numbered objects in which a call replaces some live  *)
(* objects at once, keeping their generation, and adds new ones at numbers  *)
(* nothing in the store mentions.  Nothing is ever lost, and an object that *)
(* was not replaced reads as before.  The one exception is the private      *)
(* object a plain rewrite may add for its own cross-reference stream.       *)
(***************************************************************************)
EXTENDS Naturals

VARIABLES
    objects,    \* number -> [kind, gen, refs, members] or [kind, of], see Live
    roots,      \* the numbers referenced from outside the objects
    given,      \* the numbers the last call was given to replace
    fresh       \* the numbers it was given to create

vars == <<objects, roots, given, fresh>>

Live(n) == objects[n].kind = "object"

(* What an object refers to; a member reads through its container. *)
Targets(n) ==
    IF objects[n].kind = "object" THEN objects[n].refs
    ELSE IF /\ objects[n].kind = "member"
            /\ objects[n].of \in DOMAIN objects
            /\ Live(objects[n].of)
            /\ n \in DOMAIN objects[objects[n].of].members
         THEN objects[objects[n].of].members[n].refs
    ELSE {}

Mentioned == roots \union UNION {Targets(n) : n \in DOMAIN objects}

Init == TRUE

Added == DOMAIN objects' \ DOMAIN objects

(* The object a call may add beside those it was given. *)
Private == Added \ fresh'

Replace ==
    /\ DOMAIN objects \subseteq DOMAIN objects'
    /\ given' \subseteq DOMAIN objects
    /\ \A n \in DOMAIN objects : objects'[n] # objects[n] =>
          /\ n \in given'
          /\ Live(n)
          /\ objects'[n].kind = "object"
          /\ objects'[n].gen = objects[n].gen
    /\ \A n \in Added : objects'[n].kind = "object" /\ objects'[n].gen = 0
    /\ \A m, n \in Private : m = n
    /\ roots' \subseteq roots

Rewrite ==
    /\ Replace
    /\ fresh' = {}

(* What is created was no object, and nothing held its number or referred   *)
(* to it.                                                                   *)
Create ==
    /\ Replace
    /\ fresh' # {}
    /\ fresh' \subseteq Added
    /\ Added \intersect Mentioned = {}

Next == Rewrite \/ Create

Spec == Init /\ [][Next]_vars
=============================================================================
