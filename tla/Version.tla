------------------------------ MODULE Version ------------------------------
(***************************************************************************)
(* proto_versionCmp (proto/proto.c), by which the release package manager  *)
(* decides whether an update leads from the installed version and to a     *)
(* later one.  A version has a major, a minor and a build number, each of  *)
(* which may be absent, and may be absent itself.  RPManager takes         *)
(* versions for numbers, and the theorems say that it may: any two can be  *)
(* compared, the comparison is an order, and versions it calls equal can   *)
(* stand for each other.                                                   *)
(***************************************************************************)
EXTENDS Integers, TLAPS

CONSTANT Null   \* no version

Flag     == {0, 1}
Versions == [hasMajor : Flag, major : Int, hasMinor : Flag, minor : Int, hasBuild : Flag, build : Int]
Optional == Versions \cup {Null}
Signs    == {-1, 0, 1}

-----------------------------------------------------------------------------
Order(x, y) == IF x = y THEN 0 ELSE IF x > y THEN 1 ELSE -1

\* A number counts when both have it, and what has it is later than what has
\* not; the rest counts when it is the same.
Field(has, other, x, y, rest) ==
    IF has = 0 \/ other = 0 THEN Order(has, other) ELSE IF x = y THEN rest ELSE Order(x, y)

Given(v) == IF v = Null THEN 0 ELSE 1

cmpBuild(a, b) == Field(a.hasBuild, b.hasBuild, a.build, b.build, 0)
cmpMinor(a, b) == Field(a.hasMinor, b.hasMinor, a.minor, b.minor, cmpBuild(a, b))
cmpMajor(a, b) == Field(a.hasMajor, b.hasMajor, a.major, b.major, cmpMinor(a, b))

versionCmp(a, b) == IF a = Null \/ b = Null THEN Order(Given(a), Given(b)) ELSE cmpMajor(a, b)

-----------------------------------------------------------------------------
\* One number: the sign changes with the order of the arguments.
LEMMA FieldAntisymmetric ==
    ASSUME NEW p \in Flag, NEW q \in Flag, NEW x \in Int, NEW y \in Int,
           NEW r \in Signs, NEW s \in Signs, r + s = 0
    PROVE  Field(p, q, x, y, r) \in Signs /\ Field(p, q, x, y, r) + Field(q, p, y, x, s) = 0
  BY DEF Field, Order, Flag, Signs

\* The fields of a version.
LEMMA VersionFields ==
    ASSUME NEW v \in Versions
    PROVE  /\ v.hasMajor \in Flag /\ v.hasMinor \in Flag /\ v.hasBuild \in Flag
           /\ v.major \in Int /\ v.minor \in Int /\ v.build \in Int
  BY DEF Versions

\* The three numbers: the sign.
LEMMA MajorAntisymmetric ==
    ASSUME NEW a \in Versions, NEW b \in Versions
    PROVE  /\ cmpBuild(a, b) \in Signs /\ cmpBuild(a, b) + cmpBuild(b, a) = 0
           /\ cmpMinor(a, b) \in Signs /\ cmpMinor(a, b) + cmpMinor(b, a) = 0
           /\ cmpMajor(a, b) \in Signs /\ cmpMajor(a, b) + cmpMajor(b, a) = 0
<1>1. 0 \in Signs
  BY DEF Signs
<1>2. \A v, w \in Versions : cmpBuild(v, w) \in Signs /\ cmpBuild(v, w) + cmpBuild(w, v) = 0
  BY <1>1, VersionFields, FieldAntisymmetric DEF cmpBuild
<1>3. \A v, w \in Versions : cmpMinor(v, w) \in Signs /\ cmpMinor(v, w) + cmpMinor(w, v) = 0
  BY <1>2, VersionFields, FieldAntisymmetric DEF cmpMinor
<1>4. \A v, w \in Versions : cmpMajor(v, w) \in Signs /\ cmpMajor(v, w) + cmpMajor(w, v) = 0
  BY <1>3, VersionFields, FieldAntisymmetric DEF cmpMajor
<1>. QED  BY <1>2, <1>3, <1>4

\* The three numbers: the order.
LEMMA MajorOrders ==
    ASSUME NEW a \in Versions, NEW b \in Versions, NEW c \in Versions
    PROVE  /\ cmpMajor(a, b) = 0 => cmpMajor(a, c) = cmpMajor(b, c)
           /\ cmpMajor(a, b) = 1 /\ cmpMajor(b, c) >= 0 => cmpMajor(a, c) = 1
<1>1. /\ cmpBuild(a, b) \in Signs /\ cmpBuild(b, c) \in Signs /\ cmpBuild(a, c) \in Signs
      /\ cmpMinor(a, b) \in Signs /\ cmpMinor(b, c) \in Signs /\ cmpMinor(a, c) \in Signs
  BY MajorAntisymmetric
<1>3. /\ cmpBuild(a, b) = 0 => cmpBuild(a, c) = cmpBuild(b, c)
      /\ cmpBuild(a, b) = 1 /\ cmpBuild(b, c) >= 0 => cmpBuild(a, c) = 1
  BY VersionFields DEF cmpBuild, Field, Order, Flag
<1>4. /\ cmpMinor(a, b) = 0 => cmpMinor(a, c) = cmpMinor(b, c)
      /\ cmpMinor(a, b) = 1 /\ cmpMinor(b, c) >= 0 => cmpMinor(a, c) = 1
  <2>1. /\ a.hasMinor \in Flag /\ b.hasMinor \in Flag /\ c.hasMinor \in Flag
        /\ a.minor \in Int /\ b.minor \in Int /\ c.minor \in Int
    BY VersionFields
  <2>. DEFINE ab == cmpBuild(a, b)
              bc == cmpBuild(b, c)
              ac == cmpBuild(a, c)
  <2>2. /\ ab \in Signs /\ bc \in Signs /\ ac \in Signs
        /\ ab = 0 => ac = bc
        /\ ab = 1 /\ bc >= 0 => ac = 1
    BY <1>1, <1>3
  <2>3. /\ cmpMinor(a, b) = Field(a.hasMinor, b.hasMinor, a.minor, b.minor, ab)
        /\ cmpMinor(b, c) = Field(b.hasMinor, c.hasMinor, b.minor, c.minor, bc)
        /\ cmpMinor(a, c) = Field(a.hasMinor, c.hasMinor, a.minor, c.minor, ac)
    BY DEF cmpMinor
  <2>. HIDE DEF ab, bc, ac
  <2>. QED  BY <2>1, <2>2, <2>3 DEF Field, Order, Flag, Signs
<1>5. /\ a.hasMajor \in Flag /\ b.hasMajor \in Flag /\ c.hasMajor \in Flag
      /\ a.major \in Int /\ b.major \in Int /\ c.major \in Int
  BY VersionFields
<1>. DEFINE ab == cmpMinor(a, b)
            bc == cmpMinor(b, c)
            ac == cmpMinor(a, c)
<1>6. /\ ab \in Signs /\ bc \in Signs /\ ac \in Signs
      /\ ab = 0 => ac = bc
      /\ ab = 1 /\ bc >= 0 => ac = 1
  BY <1>1, <1>4
<1>7. /\ cmpMajor(a, b) = Field(a.hasMajor, b.hasMajor, a.major, b.major, ab)
      /\ cmpMajor(b, c) = Field(b.hasMajor, c.hasMajor, b.major, c.major, bc)
      /\ cmpMajor(a, c) = Field(a.hasMajor, c.hasMajor, a.major, c.major, ac)
  BY DEF cmpMajor
<1>. HIDE DEF ab, bc, ac
<1>. QED  BY <1>5, <1>6, <1>7 DEF Field, Order, Flag, Signs

-----------------------------------------------------------------------------
\* proto_versionCmp of the same two versions in the other order has the other
\* sign, also when numbers or versions are absent.
THEOREM CmpAntisymmetric ==
    ASSUME NEW a \in Optional, NEW b \in Optional
    PROVE  versionCmp(a, b) \in Signs /\ versionCmp(a, b) + versionCmp(b, a) = 0
<1>1. CASE a = Null \/ b = Null
  BY <1>1 DEF versionCmp, Order, Given, Signs
<1>2. CASE a # Null /\ b # Null
  BY <1>2, MajorAntisymmetric DEF versionCmp, Optional
<1>. QED  BY <1>1, <1>2

\* Versions it calls equal compare alike with every other, and what is later
\* than a version is later than all that this one is not earlier than.
THEOREM CmpOrders ==
    ASSUME NEW a \in Optional, NEW b \in Optional, NEW c \in Optional
    PROVE  /\ versionCmp(a, b) = 0 => versionCmp(a, c) = versionCmp(b, c)
           /\ versionCmp(a, b) = 1 /\ versionCmp(b, c) >= 0 => versionCmp(a, c) = 1
<1>1. CASE a = Null \/ b = Null \/ c = Null
  <2>1. versionCmp(a, b) \in Signs /\ versionCmp(b, c) \in Signs /\ versionCmp(a, c) \in Signs
    BY CmpAntisymmetric
  <2>. QED  BY <1>1, <2>1 DEF versionCmp, Order, Given, Signs
<1>2. CASE a # Null /\ b # Null /\ c # Null
  BY <1>2, MajorOrders DEF versionCmp, Optional
<1>. QED  BY <1>1, <1>2

=============================================================================
