-------------------------- MODULE SubjectBaseProofs --------------------------
(***************************************************************************)
(* The subject_base guard, for every set of classes, every inheritance     *)
(* between them and arguments of any length.                               *)
(***************************************************************************)
EXTENDS SubjectBase, SequenceTheorems, TLAPS

(* Strict validation, no silent drops: an argument that is accepted names  *)
(* at least one thing, nothing but classes, and the guard is those, all of *)
(* them and in their order.                                                *)
LEMMA NormalizeIsExact ==
  ASSUME NEW base \in Bases, Normalize(base) # Refused
  PROVE  \/ base.shape = "absent" /\ Normalize(base) = NoGuard
         \/ /\ Normalize(base) = Guard(base.members)
            /\ base.members # <<>>
            /\ \A i \in DOMAIN base.members : base.members[i] \in Classes
<1>1. /\ base.shape \in Shapes
      /\ base.members \in Seq(Classes \cup Others)
      /\ base.shape = "class" => base.members \in Seq(Classes) /\ Len(base.members) = 1
      /\ base.shape = "alias" => Len(base.members) = 1
      /\ base.shape \in {"union alias", "generic alias"} => base.members # <<>>
  BY SubjectBaseAssumption
<1>2. CASE base.shape = "absent"
  BY <1>2 DEF Normalize
<1>3. CASE base.shape = "class"
  <2>1. Normalize(base) = Guard(base.members)
    BY <1>3 DEF Normalize
  <2>2. base.members \in Seq(Classes) /\ Len(base.members) = 1
    BY <1>1, <1>3
  <2>3. base.members # <<>> /\ \A i \in DOMAIN base.members : base.members[i] \in Classes
    BY <2>2
  <2> QED BY <2>1, <2>3
<1>4. CASE base.shape = "tuple"
  BY <1>4 DEF Normalize, ValidateClassSequence
<1>5. CASE base.shape = "alias"
  <2>1. Normalize(base) = IF base.members[1] \in Classes THEN Guard(base.members) ELSE Refused
    BY <1>5 DEF Normalize, NormalizeTypeAlias, GetArgs
  <2>2. base.members[1] \in Classes /\ Normalize(base) = Guard(base.members)
    BY <2>1
  <2>3. base.members \in Seq(Classes \cup Others) /\ Len(base.members) = 1
    BY <1>1, <1>5
  <2>4. DOMAIN base.members = 1 .. 1
    BY <2>3, LenProperties
  <2>5. \A i \in DOMAIN base.members : i = 1
    BY <2>4
  <2>6. base.members # <<>>
    <3>1. Len(<<>>) = 0
      OBVIOUS
    <3>2. Len(base.members) # 0
      BY <2>3
    <3> QED BY <3>1, <3>2
  <2> QED BY <2>2, <2>5, <2>6
<1>6. CASE base.shape \in {"union alias", "generic alias"}
  <2>1. GetArgs(base) = base.members /\ base.members # <<>>
    BY <1>1, <1>6 DEF GetArgs
  <2>2. Normalize(base) = ValidateClassSequence(base.members)
    BY <1>6, <2>1 DEF Normalize, NormalizeTypeAlias
  <2> QED BY <2>1, <2>2 DEF ValidateClassSequence
<1>7. CASE base.shape = "unsupported"
  BY <1>7 DEF Normalize
<1> QED BY <1>1, <1>2, <1>3, <1>4, <1>5, <1>6, <1>7 DEF Shapes

(* The guard lets a type through exactly when the argument permits it, but *)
(* for generic aliases, which are not refused and permit nothing.          *)
LEMMA GuardIsTheArgument ==
  ASSUME NEW base \in Bases, Normalize(base) # Refused,
         base.shape # "generic alias", NEW type \in Classes
  PROVE  Admits(Normalize(base), type) <=> Permits(base, type)
<1>1. CASE base.shape = "absent"
  <2>1. Normalize(base) = NoGuard
    BY <1>1 DEF Normalize
  <2>2. Admits(NoGuard, type)
    BY DEF Admits, NoGuard
  <2>3. Permits(base, type)
    BY <1>1 DEF Permits
  <2> QED BY <2>1, <2>2, <2>3
<1>2. CASE base.shape # "absent"
  <2>1. /\ Normalize(base) = Guard(base.members)
        /\ \A i \in DOMAIN base.members : base.members[i] \in Classes
    BY <1>2, NormalizeIsExact
  <2>2. Admits(Normalize(base), type)
          <=> \E i \in DOMAIN base.members : base.members[i] \in Above[type]
    <3>1. Guard(base.members).kind = "guard" /\ Guard(base.members).classes = base.members
      BY DEF Guard
    <3> QED BY <2>1, <3>1, ZenonT(30) DEF Admits
  <2>3. Permits(base, type)
          <=> \E i \in DOMAIN base.members : base.members[i] \in Above[type]
    BY <1>2, <2>1 DEF Permits
  <2> QED BY <2>2, <2>3
<1> QED BY <1>1, <1>2
=============================================================================
