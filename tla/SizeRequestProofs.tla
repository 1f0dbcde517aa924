-------------------------- MODULE SizeRequestProofs --------------------------
(***************************************************************************)
(* Proofs about SizeRequest, for every argument and every width.           *)
(***************************************************************************)
EXTENDS SizeRequest, TLAPS

(* The size argument, for every width of int and long *)

\* The remainder by the number of ints is an int.
LEMMA PassedSizeNat == \A size \in Int : PassedSize(size) \in Nat
  BY WidthAssumption DEF PassedSize, MAX_SIZE

\* The parser returns an integer for every argument.
LEMMA ParserInt == \A a \in Arg : ParseFileSizeParam(a) \in Int
<1> SUFFICES ASSUME NEW a \in Arg PROVE ParseFileSizeParam(a) \in Int
  OBVIOUS
<1> DEFINE n == atol(a.num)
<1>1. n \in Int
  BY WidthAssumption DEF atol, LongMax, Arg
<1>2. AsLong(n * 1024) \in Int
  <2>1. n * 1024 \in Int
    BY <1>1
  <2> DEFINE low == (n * 1024) % LongMod
  <2>2. low \in Int
    BY <2>1, WidthAssumption DEF MAX_SIZE
  <2> QED
    BY <2>2, WidthAssumption DEF AsLong, LongMax
<1> QED
  BY <1>1, <1>2 DEF ParseFileSizeParam, Arg, Unit

\* An int keeps every size that fits in it.
LEMMA PassedSizeExact == \A size \in 0..IntMod - 1 : PassedSize(size) = size
  BY WidthAssumption DEF PassedSize, MAX_SIZE

\* Below the range of int the parser returns what the argument means.
LEMMA ParserExact ==
  ASSUME NEW a \in Arg, a.num < IntMod, a.unit = "t" => a.num * 1024 < IntMod
  PROVE  ParseFileSizeParam(a) =
           CASE a.unit = "none" -> IF a.num <= 1024 THEN a.num ELSE -1
             [] a.unit = "g"    -> a.num
             [] a.unit = "t"    -> a.num * 1024
             [] a.unit = "bad"  -> -1
<1>1. a.num \in Nat /\ a.unit \in Unit
  BY DEF Arg
<1>2. a.num <= LongMax /\ atol(a.num) = a.num
  BY <1>1, WidthAssumption DEF atol, LongMax, MAX_SIZE
<1>3. a.unit = "t" => AsLong(a.num * 1024) = a.num * 1024
  <2> SUFFICES ASSUME a.unit = "t" PROVE AsLong(a.num * 1024) = a.num * 1024
    OBVIOUS
  <2>1. a.num * 1024 \in 0..LongMax
    BY <1>1, WidthAssumption DEF LongMax, MAX_SIZE
  <2>2. (a.num * 1024) % LongMod = a.num * 1024
    BY <2>1, WidthAssumption DEF LongMax, MAX_SIZE
  <2> QED
    BY <2>1, <2>2 DEF AsLong
<1> QED
  BY <1>1, <1>2, <1>3 DEF ParseFileSizeParam, Unit

-----------------------------------------------------------------------------
(* The request *)

\* What each stage knows of the size.
StageInv == /\ arg \in Arg
            /\ stage \in {"main", "create", "created", "refused"}
            /\ stage = "main" => vfs_size = 0 /\ block = -1
            /\ stage # "main" => vfs_size = ParseFileSizeParam(arg)
            /\ stage = "create" => vfs_size > 0 /\ block = -1
            /\ stage = "created" => /\ vfs_size > 0
                                    /\ block = PassedSize(vfs_size)
                                    /\ block <= MAX_SIZE
            /\ stage = "refused" => /\ vfs_size <= 0 \/ PassedSize(vfs_size) > MAX_SIZE
                                    /\ block = -1

LEMMA StageInvariant == Spec => []StageInv
<1> USE DEF StageInv
<1>1. Init => StageInv
  BY SampleAssumption DEF Init
<1>2. StageInv /\ [Next]_vars => StageInv'
  <2> SUFFICES ASSUME StageInv, [Next]_vars PROVE StageInv'
    OBVIOUS
  <2>1. CASE ParseSize
    BY <2>1, ParserInt DEF ParseSize
  <2>2. CASE CreateBlock
    <3>1. PassedSize(vfs_size) \in Nat
      BY <2>2, ParserInt, PassedSizeNat DEF CreateBlock
    <3> QED
      BY <2>2, <3>1 DEF CreateBlock, Oversize, MAX_SIZE
  <2>3. CASE UNCHANGED vars
    BY <2>3 DEF vars
  <2> QED
    BY <2>1, <2>2, <2>3 DEF Next, Decided
<1> QED
  BY <1>1, <1>2, PTL DEF Spec

\* No argument makes a block of more than 10 TB, whatever the parser, the cut
\* to an int and the comparison do to it.
THEOREM SizeTypeCorrect == Spec => []TypeOK
<1>1. StageInv => TypeOK
  <2> SUFFICES ASSUME StageInv PROVE TypeOK
    OBVIOUS
  <2>1. vfs_size \in Int
    BY ParserInt DEF StageInv
  <2>2. block \in -1..MAX_SIZE
    <3>1. CASE stage = "created"
      <4>1. block \in Nat /\ block <= MAX_SIZE
        BY <2>1, <3>1, PassedSizeNat DEF StageInv
      <4> QED
        BY <4>1 DEF MAX_SIZE
    <3>2. CASE block = -1
      BY <3>2 DEF MAX_SIZE
    <3> QED
      BY <3>1, <3>2 DEF StageInv
  <2> QED
    BY <2>1, <2>2 DEF StageInv, TypeOK
<1> QED
  BY <1>1, StageInvariant, PTL

\* Below 2^32 GB exactly the legal arguments get a block, of the size they mean.
THEOREM RequestsHonoured == Spec => []RequestHonoured
<1>1. StageInv => RequestHonoured
  <2> SUFFICES ASSUME StageInv, Requested(arg) < IntMod
               PROVE  /\ stage = "created" => Legal(arg) /\ block = Requested(arg)
                      /\ stage = "refused" => ~Legal(arg)
    BY DEF RequestHonoured
  <2>1. arg.num \in Nat /\ arg.unit \in Unit
    BY DEF StageInv, Arg
  <2>2. /\ arg.num < IntMod
        /\ arg.unit = "t" => arg.num * 1024 < IntMod
    BY <2>1, WidthAssumption DEF Requested, MAX_SIZE
  <2>3. ParseFileSizeParam(arg) =
          CASE arg.unit = "none" -> IF arg.num <= 1024 THEN arg.num ELSE -1
            [] arg.unit = "g"    -> arg.num
            [] arg.unit = "t"    -> arg.num * 1024
            [] arg.unit = "bad"  -> -1
    BY <2>2, ParserExact DEF StageInv
  <2>4. ParseFileSizeParam(arg) = -1 \/ ParseFileSizeParam(arg) \in 0..IntMod - 1
    BY <2>1, <2>2, <2>3, WidthAssumption DEF Unit
  <2>5. ParseFileSizeParam(arg) > 0
          => PassedSize(ParseFileSizeParam(arg)) = ParseFileSizeParam(arg)
    BY <2>4, PassedSizeExact
  <2> DEFINE size == ParseFileSizeParam(arg)
  <2>6. size > 0 /\ PassedSize(size) <= MAX_SIZE <=> Legal(arg)
    <3>1. CASE arg.unit = "none"
      BY <2>1, <2>3, <2>5, <3>1 DEF Legal, MAX_SIZE
    <3>2. CASE arg.unit = "g"
      <4>1. size = arg.num
        BY <2>3, <3>2
      <4>2. Legal(arg) <=> arg.num \in 1..MAX_SIZE
        BY <3>2 DEF Legal, Requested
      <4>3. MAX_SIZE \in Nat /\ arg.num \in Nat
        BY <2>1 DEF MAX_SIZE
      <4> HIDE DEF size
      <4>4. size > 0 => PassedSize(size) = size
        BY <2>5 DEF size
      <4> QED
        BY <4>1, <4>2, <4>3, <4>4
    <3>3. CASE arg.unit = "t"
      <4>1. size = arg.num * 1024
        BY <2>3, <3>3
      <4>2. Legal(arg) <=> arg.num * 1024 \in 1..MAX_SIZE
        BY <3>3 DEF Legal, Requested
      <4>3. MAX_SIZE \in Nat /\ arg.num * 1024 \in Nat
        BY <2>1 DEF MAX_SIZE
      <4> HIDE DEF size
      <4>4. size > 0 => PassedSize(size) = size
        BY <2>5 DEF size
      <4> QED
        BY <4>1, <4>2, <4>3, <4>4
    <3>4. CASE arg.unit = "bad"
      BY <2>1, <2>3, <3>4 DEF Legal
    <3> QED
      BY <2>1, <3>1, <3>2, <3>3, <3>4 DEF Unit
  <2>7. size > 0 => size = Requested(arg)
    BY <2>1, <2>3 DEF Requested, Unit
  <2>8. PassedSize(size) \in Int /\ size \in Int /\ MAX_SIZE \in Int
    BY ParserInt, PassedSizeNat DEF StageInv, MAX_SIZE
  <2> HIDE DEF size
  <2>9. stage = "created" => Legal(arg) /\ block = Requested(arg)
    BY <2>5, <2>6, <2>7 DEF StageInv, size
  <2>10. stage = "refused" => ~Legal(arg)
    BY <2>6, <2>8 DEF StageInv, size
  <2> QED
    BY <2>9, <2>10
<1> QED
  BY <1>1, StageInvariant, PTL

=============================================================================
