----------------------------- MODULE SubjectBase -----------------------------
(***************************************************************************)
(* core/engine.py: what PolicyEngine makes of its subject_base argument,   *)
(* and which subject types the guard built from it lets through.           *)
(*                                                                         *)
(* An argument is its shape and, in order, the things it names.  For a     *)
(* type alias the shape is that of its value: one thing (type T = A), a    *)
(* union (type T = A | B) or a subscripted generic (type T = list[A]),     *)
(* which names what stands between its brackets.                           *)
(***************************************************************************)
EXTENDS Naturals, Sequences

CONSTANTS
  Classes,
  Others,      \* what is no class: strings, literals, subscripted generics
  Above,       \* Above[c]: the class c and the classes it inherits from
  Bases        \* the subject_base arguments engines are constructed with

Shapes == {"absent", "class", "tuple", "alias", "union alias", "generic alias",
           "unsupported"}

ASSUME SubjectBaseAssumption ==
  /\ Classes \cap Others = {}
  /\ Above \in [Classes -> SUBSET Classes]
  /\ \A b \in Bases :
       /\ DOMAIN b = {"shape", "members"}
       /\ b.shape \in Shapes
       /\ b.members \in Seq(Classes \cup Others)
       /\ b.shape = "class" => b.members \in Seq(Classes) /\ Len(b.members) = 1
       /\ b.shape = "alias" => Len(b.members) = 1
       /\ b.shape \in {"union alias", "generic alias"} => b.members # <<>>

(* No guard, a ConfigurationError, or the tuple handed to issubclass.      *)
NoGuard == [kind |-> "no guard", classes |-> <<>>]
Refused == [kind |-> "refused", classes |-> <<>>]
Guard(classes) == [kind |-> "guard", classes |-> classes]

(* Slip: members that are no classes are left out of the guard.            *)
ValidateByDropping(members) ==
  Guard(SelectSeq(members, LAMBDA member : member \in Classes))

ValidateClassSequence(members) ==
  IF \A i \in DOMAIN members : members[i] \in Classes
  THEN Guard(members) ELSE Refused

(* typing.get_args of the alias's value.                                   *)
GetArgs(base) == IF base.shape = "alias" THEN <<>> ELSE base.members

NormalizeTypeAlias(base) ==
  IF GetArgs(base) # <<>> THEN ValidateClassSequence(GetArgs(base))
  ELSE IF base.members[1] \in Classes THEN Guard(base.members) ELSE Refused

Normalize(base) ==
  CASE base.shape = "absent" -> NoGuard
    [] base.shape = "class" -> Guard(base.members)
    [] base.shape = "tuple" ->
         IF base.members = <<>> THEN Refused ELSE ValidateClassSequence(base.members)
    [] base.shape \in {"alias", "union alias", "generic alias"} ->
         NormalizeTypeAlias(base)
    [] base.shape = "unsupported" -> Refused

(* _check_subject_base lets a registration for this type through.          *)
Admits(guard, type) ==
  \/ guard.kind = "no guard"
  \/ \E i \in DOMAIN guard.classes : guard.classes[i] \in Above[type]

(* The same question asked of the argument as it was written: it sets no   *)
(* guard, or it names nothing but classes and the type is under one.  What *)
(* stands between the brackets of a generic is no class it names.          *)
Permits(base, type) ==
  \/ base.shape = "absent"
  \/ /\ base.shape # "generic alias"
     /\ \A i \in DOMAIN base.members : base.members[i] \in Classes
     /\ \E i \in DOMAIN base.members : base.members[i] \in Above[type]
=============================================================================
