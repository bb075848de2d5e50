------------------------------ MODULE MCProbes ------------------------------
EXTENDS Probes

CONSTANTS o1, o2, un, person, dog, nameless, red, blue, none

Obj(k, p, l, x) == [kind |-> k, parent |-> p, label |-> l, place |-> x]
Alone(look) == [o \in {o1} |-> look]
Nobody == [o \in {} |-> {}]

(* Nobody; one person under changing labels and places; a person with an     *)
(* untracked parent, its child and something the filter leaves out.          *)
MCScenes ==
  {Nobody,
   Alone(Obj(person, NoParent, red, 0)),
   Alone(Obj(person, NoParent, blue, 1)),
   Alone(Obj(person, NoParent, none, 2)),
   [o \in {o1, o2, un} |-> IF o = o1 THEN Obj(person, un, red, 0)
                           ELSE IF o = o2 THEN Obj(person, o1, none, 0)
                           ELSE Obj(dog, NoParent, none, 0)]}

(* A child with and without its parent's pointer, a parent that is filtered. *)
MCCropScenes ==
  {Nobody,
   Alone(Obj(person, NoParent, red, 0)),
   Alone(Obj(person, NoParent, blue, 1)),
   [o \in {o1, o2, un} |-> IF o = o1 THEN Obj(person, NoParent, red, 0)
                           ELSE IF o = o2 THEN Obj(person, o1, blue, 0)
                           ELSE Obj(dog, NoParent, none, 0)],
   [o \in {o1, o2} |-> IF o = o1 THEN Obj(dog, NoParent, red, 0)
                       ELSE Obj(person, NoParent, none, 0)]}

MCCallScenes ==
  {Nobody} \cup {Alone(Obj(k, NoParent, red, 0)) : k \in {person, dog, nameless}}

MCLostPts == {-1}
MCExplicitOffsets == [u \in {3} |-> 5]
=============================================================================
