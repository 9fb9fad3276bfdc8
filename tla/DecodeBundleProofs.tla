------------------------- MODULE DecodeBundleProofs --------------------------
(***************************************************************************)
(* The bundle's type invariant, its bound by MAX_FILE_SIZE and what its    *)
(* truncated flag says of it, for every file, setting and width of         *)
(* integers.  The inductive invariant is BundleOK below.                   *)
(***************************************************************************)
EXTENDS DecodeBundle, FiniteSetTheorems, WellFoundedInduction, TLAPS

\* An int64 keeps a value that fits (parseSize's product).
LEMMA WrapKeeps ==
  ASSUME NEW n \in Int64
  PROVE  Wrap(n) = n
<1> DEFINE w == IntMax + 1
<1>1. n \in Int /\ w \in Nat /\ w > 0 /\ -w <= n /\ n < w
  BY LimitsAssumption DEF Int64
<1>2. n + w \in 0..2 * w - 1
  BY <1>1
<1>3. ASSUME NEW a \in Nat, NEW b \in Nat \ {0}, a < b
      PROVE  a % b = a
  BY <1>3
<1>4. (n + w) % (2 * w) = n + w
  <2> DEFINE a == n + w  b == 2 * w
  <2>1. a \in Nat /\ b \in Nat \ {0} /\ a < b
    BY <1>1, <1>2
  <2> HIDE DEF a, b
  <2>2. a % b = a
    BY <2>1, <1>3
  <2> QED
    BY <2>2 DEF a, b
<1>5. Wrap(n) = ((n + w) % (2 * w)) - w
  <2>1. n + IntMax + 1 = n + w
    BY <1>1, LimitsAssumption
  <2> QED
    BY <2>1 DEF Wrap
<1> QED
  <2> HIDE DEF w
  <2> QED
    BY <1>1, <1>4, <1>5

\* The product parseSize computes before it is cut to 64 bits.
LEMMA MeantTyped ==
  ASSUME NEW s \in Settings
  PROVE  s.number * Multiplier[s.unit] \in Int
<1>1. s.number \in Int /\ s.unit \in Units
  BY SettingsAssumption, LimitsAssumption DEF Int64
<1>2. KiB * KiB \in Int /\ KiB * KiB * KiB \in Int
  BY LimitsAssumption
<1>3. Multiplier[s.unit] \in Int
  <2>1. CASE s.unit = ""
    <3>1. Multiplier[s.unit] = 1
      BY <2>1, Zenon DEF Multiplier, Units
    <3> QED
      BY <3>1
  <2>2. CASE s.unit = "K"  BY <2>2, <1>1, LimitsAssumption DEF Multiplier
  <2>3. CASE s.unit = "M"  BY <2>3, <1>1, <1>2 DEF Multiplier
  <2>4. CASE s.unit = "G"
    <3>1. Multiplier["G"] = KiB * KiB * KiB
      BY Zenon DEF Multiplier, Units
    <3> QED
      BY <3>1, <2>4, <1>2
  <2> QED
    BY <1>1, <2>1, <2>2, <2>3, <2>4 DEF Units
<1> QED
  BY <1>1, <1>3

\* decodeLimitBytes gives a positive limit within the ceiling, and never more
\* than a positive setting that fits in 64 bits.
LEMMA LimitBounds ==
  ASSUME NEW s \in Settings
  PROVE  /\ decodeLimitBytes(s) \in 1..Ceiling
         /\ LET meant == s.number * Multiplier[s.unit]
            IN  0 < meant /\ meant <= IntMax => decodeLimitBytes(s) <= meant
<1> DEFINE meant == s.number * Multiplier[s.unit]
<1>1. meant \in Int
  BY MeantTyped
<1> HIDE DEF meant
<1>2. parseSize(s) = Wrap(meant)
  BY DEF parseSize, meant
<1>3. Wrap(meant) \in Int
  <2> DEFINE b == 2 * (IntMax + 1)
  <2>1. b \in Nat \ {0} /\ meant + IntMax + 1 \in Int
    BY <1>1, LimitsAssumption
  <2>2. (meant + IntMax + 1) % b \in Int
    <3> HIDE DEF b
    <3> QED BY <2>1
  <2> QED
    BY <2>2, LimitsAssumption DEF Wrap
<1>4. decodeLimitBytes(s) \in 1..Ceiling
  BY <1>2, <1>3, LimitsAssumption DEF decodeLimitBytes
<1>5. ASSUME 0 < meant, meant <= IntMax
      PROVE  decodeLimitBytes(s) <= meant
  <2>1. Wrap(meant) = meant
    BY <1>1, <1>5, WrapKeeps, LimitsAssumption DEF Int64
  <2> QED
    BY <2>1, <1>1, <1>2, <1>5, LimitsAssumption DEF decodeLimitBytes
<1> QED
  BY <1>4, <1>5 DEF meant

-----------------------------------------------------------------------------
\* The limit of the process.
LEMMA LimitTyped ==
  ASSUME setting \in Settings
  PROVE  Limit \in 1..Ceiling /\ Limit \in Nat
<1>1. decodeLimitBytes(setting) \in 1..Ceiling
  BY LimitBounds
<1> QED
  BY <1>1, LimitsAssumption DEF Limit

\* What emit of a natural number of bytes does to the bundle.
LEMMA EmitTyped ==
  ASSUME TypeOK, NEW view \in Views,
         NEW stream \in Nat, NEW layer \in Nat, NEW bytes \in Nat,
         emit(view, stream, layer, bytes), setting' = setting
  PROVE  /\ pieces' \subseteq Pieces
         /\ size' \in 0..Limit'
         /\ truncated' \in BOOLEAN
         /\ Remaining > 1 => Kept(bytes) \in 0..bytes
<1>1. Limit \in Nat /\ Limit' = Limit /\ size \in 0..Limit
  BY LimitTyped DEF TypeOK, Limit
<1>2. CASE Remaining <= 1
  <2>1. pieces' = pieces /\ size' = size /\ truncated' = TRUE
    BY <1>2 DEF emit
  <2>2. ~(Remaining > 1)
    BY <1>1, <1>2 DEF Remaining
  <2> QED
    BY <1>1, <2>1, <2>2 DEF TypeOK
<1>3. CASE ~(Remaining <= 1)
  <2>1. Remaining - 1 \in Nat \ {0}
    BY <1>1, <1>3 DEF Remaining
  <2>2. /\ Kept(bytes) \in Nat /\ Kept(bytes) <= bytes
        /\ Kept(bytes) <= Remaining - 1
    BY <2>1 DEF Kept, Lesser
  <2>3. size' = size + Kept(bytes) + 1 /\ size' \in 0..Limit'
    BY <1>1, <1>3, <2>2 DEF emit, Remaining
  <2>4. pieces' \subseteq Pieces
    <3>1. [view |-> view, stream |-> stream, layer |-> layer, kept |-> Kept(bytes)]
            \in Pieces
      BY <2>2 DEF Pieces
    <3>2. pieces' = pieces \cup {[view |-> view, stream |-> stream, layer |-> layer,
                                  kept |-> Kept(bytes)]}
      BY <1>3 DEF emit
    <3> QED
      BY <3>1, <3>2 DEF TypeOK
  <2>5. truncated' \in BOOLEAN
    BY <1>3 DEF emit, TypeOK
  <2> QED
    BY <2>2, <2>3, <2>4, <2>5
<1> QED
  BY <1>2, <1>3

\* What the invariant says of the file.
LEMMA FileTyped ==
  ASSUME TypeOK
  PROVE  /\ file.bytes \in Nat /\ file.nulls \in Nat /\ file.nulls <= file.bytes
         /\ file.tokens \in Seq(Tokens) /\ Len(file.tokens) \in Nat
         /\ \A i \in 1..Len(file.tokens) : /\ file.tokens[i].opens \in BOOLEAN
                                           /\ file.tokens[i].layers \in Seq(Layers)
<1>1. /\ file \in [bytes : Nat, nulls : Nat, tokens : Seq(Tokens)]
      /\ file.nulls <= file.bytes
  BY FilesAssumption DEF TypeOK
<1>2. \A i \in 1..Len(file.tokens) : file.tokens[i] \in Tokens
  BY <1>1
<1> QED
  BY <1>1, <1>2 DEF Tokens

\* addNullStripped emits what is left of a text, or nothing.
LEMMA Stripping ==
  ASSUME TypeOK, NEW view \in Views,
         NEW text, text.bytes \in Nat, text.nulls \in Nat, text.nulls <= text.bytes,
         addNullStripped(view, text), setting' = setting
  PROVE  /\ pieces' \subseteq Pieces
         /\ size' \in 0..Limit'
         /\ truncated' \in BOOLEAN
<1>1. CASE text.nulls >= MinNulls
  <2>1. text.bytes - text.nulls \in Nat
    OBVIOUS
  <2>2. emit(view, 0, 0, text.bytes - text.nulls)
    BY <1>1 DEF addNullStripped
  <2> QED
    BY <2>1, <2>2, EmitTyped
<1>2. CASE ~(text.nulls >= MinNulls)
  BY <1>2 DEF addNullStripped, TypeOK, Limit
<1> QED
  BY <1>1, <1>2

\* The type invariant is inductive: scanDecodedView keeps the bundle within the
\* limit it took from the setting.
THEOREM TypeCorrect == Spec => []TypeOK
<1>1. Init => TypeOK
  <2> SUFFICES ASSUME Init PROVE TypeOK
    OBVIOUS
  <2>1. Limit \in 1..Ceiling
    BY LimitTyped DEF Init
  <2>2. Len(file.tokens) \in Nat
    BY FilesAssumption DEF Init
  <2> QED
    <3>1. pieces \subseteq Pieces /\ decoded \in [bytes : Nat, nulls : Nat]
          /\ decoded.nulls <= decoded.bytes
      BY DEF Init
    <3>2. pos \in 1..Len(file.tokens) + 1 /\ body \in 0..Len(file.tokens)
      BY <2>2 DEF Init
    <3>3. streams \in 0..MaxStreams /\ depth \in 0..MaxDepth /\ size \in 0..Limit
      BY <2>1, LimitsAssumption DEF Init
    <3> QED
      BY <3>1, <3>2, <3>3 DEF Init, TypeOK
<1>2. TypeOK /\ [Next]_vars => TypeOK'
  <2> SUFFICES ASSUME TypeOK, [Next]_vars
               PROVE  TypeOK'
    OBVIOUS
  <2> USE FileTyped
  <2>1. CASE CheckSize
    BY <2>1 DEF CheckSize, TypeOK, Limit
  <2>2. CASE StopAtEnd
    BY <2>2 DEF StopAtEnd, TypeOK, Limit
  <2>3. CASE StopAtMaxStreams
    BY <2>3 DEF StopAtMaxStreams, TypeOK, Limit
  <2>4. CASE OpenStream
    BY <2>4, LimitsAssumption DEF OpenStream, TypeOK, Limit, IsNextStart
  <2>5. CASE CloseStream
    BY <2>5 DEF CloseStream, TypeOK, Limit
  <2>6. CASE DecodeLayer
    <3> DEFINE layer == file.tokens[body].layers[depth + 1]
               out == decodeOnce(layer)
    <3>1. /\ pc = "layers" /\ depth < MaxDepth
          /\ depth < Len(file.tokens[body].layers) /\ depth \in Nat
          /\ body \in 1..Len(file.tokens)
      BY <2>6, LimitsAssumption DEF DecodeLayer, TypeOK
    <3>2. layer \in Layers
      BY <3>1
    <3>3. Remaining \in Nat
      <4>1. setting \in Settings /\ size \in 0..Limit
        BY DEF TypeOK
      <4> QED
        BY <4>1, LimitTyped DEF Remaining
    <3>4. out \in Nat
      BY <3>2, <3>3 DEF decodeOnce, Lesser, Layers
    <3>5. emit("decoded", body, depth + 1, out) /\ setting' = setting
      BY <2>6 DEF DecodeLayer
    <3> HIDE DEF layer, out
    <3>6. /\ pieces' \subseteq Pieces
          /\ size' \in 0..Limit'
          /\ truncated' \in BOOLEAN
          /\ Remaining > 1 => Kept(out) \in 0..out
      BY <3>1, <3>4, <3>5, EmitTyped DEF Views
    <3>7. decoded' \in [bytes : Nat, nulls : Nat] /\ decoded'.nulls <= decoded'.bytes
      <4>1. CASE Remaining <= 1
        BY <2>6, <4>1 DEF DecodeLayer, TypeOK
      <4>2. CASE ~(Remaining <= 1)
        <5>1. Kept(out) \in Nat /\ layer.nulls \in Nat
          BY <3>2, <3>3, <3>4, <3>6, <4>2 DEF Layers
        <5>2. PICK n \in 0..Lesser(layer.nulls, Kept(out)) :
                decoded' = [bytes |-> decoded.bytes + Kept(out) + 1,
                            nulls |-> decoded.nulls + n]
          BY <2>6, <4>2 DEF DecodeLayer, layer, out
        <5>3. n \in Nat /\ n <= Kept(out)
          BY <5>1 DEF Lesser
        <5> QED
          <6>1. /\ decoded.bytes \in Nat /\ decoded.nulls \in Nat
                /\ decoded.nulls <= decoded.bytes
            BY DEF TypeOK
          <6>2. /\ decoded.bytes + Kept(out) + 1 \in Nat /\ decoded.nulls + n \in Nat
                /\ decoded.nulls + n <= decoded.bytes + Kept(out) + 1
            BY <5>1, <5>3, <6>1
          <6> QED
            BY <5>2, <6>2
      <4> QED
        BY <4>1, <4>2
    <3>8. depth' \in 0..MaxDepth
      BY <2>6, <3>1, LimitsAssumption DEF DecodeLayer, Deeper
    <3>9. UNCHANGED <<setting, file, pc, pos, streams, body>>
      BY <2>6 DEF DecodeLayer
    <3> QED
      BY <3>6, <3>7, <3>8, <3>9 DEF TypeOK
  <2>7. CASE StripRaw
    <3>1. addNullStripped("raw", file) /\ setting' = setting
      BY <2>7 DEF StripRaw
    <3>2. /\ pieces' \subseteq Pieces
          /\ size' \in 0..Limit' /\ truncated' \in BOOLEAN
      BY <3>1, FileTyped, Stripping DEF Views
    <3> QED
      BY <2>7, <3>2 DEF StripRaw, TypeOK
  <2>8. CASE StripDecoded
    <3>1. addNullStripped("stripped", decoded) /\ setting' = setting
      BY <2>8 DEF StripDecoded
    <3>2. decoded.bytes \in Nat /\ decoded.nulls \in Nat /\ decoded.nulls <= decoded.bytes
      BY DEF TypeOK
    <3>3. /\ pieces' \subseteq Pieces
          /\ size' \in 0..Limit' /\ truncated' \in BOOLEAN
      BY <3>1, <3>2, Stripping DEF Views
    <3> QED
      BY <2>8, <3>3 DEF StripDecoded, TypeOK
  <2>9. CASE UNCHANGED vars
    BY <2>9 DEF vars, TypeOK, Limit
  <2> QED
    BY <2>1, <2>2, <2>3, <2>4, <2>5, <2>6, <2>7, <2>8, <2>9 DEF Next
<1> QED
  BY <1>1, <1>2, PTL DEF Spec

-----------------------------------------------------------------------------
\* Nothing is emitted for a file over the limit, which never gets past the
\* check; this is what BundleFitsSetting needs besides the types.
NothingIfTooLarge ==
  /\ pc \notin {"check", "done"} => file.bytes <= Limit
  /\ pc = "check" => size = 0
  /\ size > 0 => file.bytes <= Limit

\* Neither the bundle nor a file it was built from is larger than the ceiling or
\* than what a meaningful MAX_FILE_SIZE allows.
THEOREM BundleFits == Spec => []BundleFitsSetting
<1>1. Init => NothingIfTooLarge
  BY DEF Init, NothingIfTooLarge
<1>2. TypeOK /\ NothingIfTooLarge /\ [Next]_vars => NothingIfTooLarge'
  <2> SUFFICES ASSUME TypeOK, NothingIfTooLarge, [Next]_vars
               PROVE  NothingIfTooLarge'
    OBVIOUS
  <2>1. CASE CheckSize
    <3>1. Limit' = Limit /\ Limit \in Nat /\ file.bytes \in Nat
      BY <2>1, LimitTyped, FileTyped DEF CheckSize, Limit, TypeOK
    <3> QED
      BY <2>1, <3>1 DEF CheckSize, NothingIfTooLarge
  <2>2. CASE StopAtEnd \/ StopAtMaxStreams \/ OpenStream \/ CloseStream
    BY <2>2 DEF StopAtEnd, StopAtMaxStreams, OpenStream, CloseStream,
                NothingIfTooLarge, Limit
  <2>3. CASE DecodeLayer \/ StripRaw \/ StripDecoded
    <3>1. pc \notin {"check", "done"} /\ pc' # "check" /\ setting' = setting
          /\ file' = file
      BY <2>3 DEF DecodeLayer, StripRaw, StripDecoded
    <3> QED
      BY <3>1 DEF NothingIfTooLarge, Limit
  <2>4. CASE UNCHANGED vars
    BY <2>4 DEF vars, NothingIfTooLarge, Limit
  <2> QED
    BY <2>1, <2>2, <2>3, <2>4 DEF Next
<1>3. TypeOK /\ NothingIfTooLarge => BundleFitsSetting
  <2> SUFFICES ASSUME TypeOK, NothingIfTooLarge
               PROVE  BundleFitsSetting
    OBVIOUS
  <2> DEFINE meant == setting.number * Multiplier[setting.unit]
  <2>1. /\ Limit \in Nat /\ Limit <= Ceiling
        /\ 0 < meant /\ meant <= IntMax => Limit <= meant
    <3>1. setting \in Settings
      BY DEF TypeOK
    <3>2. Limit \in 1..Ceiling /\ Limit \in Nat
      BY <3>1, LimitTyped
    <3>3. 0 < meant /\ meant <= IntMax => Limit <= meant
      BY <3>1, LimitBounds DEF Limit
    <3> QED
      BY <3>2, <3>3, LimitsAssumption
  <2>2. size \in Nat /\ size <= Limit /\ file.bytes \in Nat
    <3>1. size \in 0..Limit
      BY DEF TypeOK
    <3> QED
      BY <3>1, <2>1, FileTyped
  <2>3. meant \in Int
    BY MeantTyped DEF TypeOK
  <2> HIDE DEF meant
  <2>4. size > 0 => file.bytes <= Limit
    BY DEF NothingIfTooLarge
  <2>5. /\ size <= Ceiling
        /\ size > 0 => file.bytes <= Ceiling
        /\ 0 < meant /\ meant <= IntMax =>
             /\ size <= meant
             /\ size > 0 => file.bytes <= meant
    BY <2>1, <2>2, <2>3, <2>4, LimitsAssumption
  <2> QED
    BY <2>5 DEF BundleFitsSetting, meant
<1> QED
  BY <1>1, <1>2, <1>3, TypeCorrect, PTL DEF Spec

-----------------------------------------------------------------------------
(* What the bundle holds *)

\* Layer d of the stream at i is within the limits on streams and depth.
IsAdmitted(i, d) ==
  /\ i \in 1..Len(file.tokens) /\ d \in 1..MaxDepth
  /\ Counts(i) /\ d <= Len(file.tokens[i].layers)

\* The decoders are past it: it was decoded, or left out for good.
IsPast(i, d) ==
  IF pc = "layers" THEN i < body \/ (i = body /\ d <= depth) ELSE i < pos

HasView(view, text) ==
  \E p \in pieces : p.view = view /\ p.kept = text.bytes - text.nulls

\* The search has opened, and counted, the streams before its position, and has
\* left no body open but where the file ends in one.
SearchOK ==
  /\ streams = Cardinality({j \in 1..pos - 1 : Opens(j)})
  /\ \A j \in 1..pos - 1 :
       IsStart(j) => pos = Len(file.tokens) + 1 \/ \E e \in j + 1..pos - 1 : ~IsStart(e)
  /\ pc = "layers" =>
       body < pos /\ Counts(body) /\ \A j \in body + 1..pos - 1 : ~Opens(j)

\* Up to where the decoders are, a layer is whole unless the bundle has no room
\* left; without "truncated", unless it fills the limit to the byte.
LayerOK(i, d) ==
  IsPast(i, d) =>
    /\ Remaining > 1 => IsWhole(i, d)
    /\ ~truncated => IsWhole(i, d) \/ (Full /\ ~HasPiece(i, d))

\* A piece is of an admitted layer that is past, and what is before it is whole.
PieceOK(i, d) ==
  HasPiece(i, d) =>
    /\ IsAdmitted(i, d) /\ IsPast(i, d)
    /\ \A j, c \in Nat : IsAdmitted(j, c) /\ Earlier(j, c, i, d) => IsWhole(j, c)

\* A copy without NULs is made when its turn comes, and the decoders have then
\* been past everything or have filled the bundle.
Copied == pc \in {"strip decoded", "done"}
ViewsOK ==
  /\ \A p \in pieces : (p.view = "raw" => Copied) /\ (p.view = "stripped" => pc = "done")
  /\ ~truncated /\ file.bytes <= Limit =>
       /\ Copied \/ pc = "strip raw" =>
            Full \/ \A i, d \in Nat : IsAdmitted(i, d) => IsPast(i, d)
       /\ Copied /\ file.nulls >= MinNulls => HasView("raw", file)
       /\ pc = "done" /\ decoded.nulls >= MinNulls => HasView("stripped", decoded)

\* What "truncated" was set for, none of which is made good later.
Reason ==
  \/ \E i \in 1..Len(file.tokens) : Opens(i) /\ ~Counts(i)
  \/ \E i, d \in Nat : IsAdmitted(i, d) /\ IsPast(i, d) /\ ~IsWhole(i, d)
  \/ Copied /\ file.nulls >= MinNulls /\ ~HasView("raw", file)
  \/ pc = "done" /\ decoded.nulls >= MinNulls /\ ~HasView("stripped", decoded)

BundleOK ==
  /\ SearchOK
  /\ \A i, d \in Nat : (IsAdmitted(i, d) => LayerOK(i, d)) /\ PieceOK(i, d)
  /\ ViewsOK
  /\ truncated => Reason

-----------------------------------------------------------------------------
(* Counting streams *)

\* A set of numbers that is not empty has a least one.
LEMMA Least ==
  ASSUME NEW S, S \subseteq Nat, S # {}
  PROVE  \E m \in S : \A k \in S : m <= k
<1>1. PICK m \in S : \A k \in S : ~(<<k, m>> \in OpToRel(<, Nat))
  BY NatLessThanWellFounded, WFMin
<1>2. ASSUME NEW k \in S PROVE m <= k
  <2>1. ~(k < m)
    <3>1. <<k, m>> \in Nat \X Nat
      OBVIOUS
    <3>2. k < m => <<k, m>> \in OpToRel(<, Nat)
      BY <3>1 DEF OpToRel
    <3> QED BY <1>1, <3>2
  <2> QED BY <2>1
<1> QED BY <1>2

\* How many streams open before a token, and with it.
LEMMA Counting ==
  ASSUME NEW n \in Nat
  PROVE  /\ Cardinality({j \in 1..n : Opens(j)}) \in Nat
         /\ Cardinality({j \in 1..n + 1 : Opens(j)}) =
              IF Opens(n + 1) THEN Cardinality({j \in 1..n : Opens(j)}) + 1
                              ELSE Cardinality({j \in 1..n : Opens(j)})
<1> DEFINE S == {j \in 1..n : Opens(j)}
           T == {j \in 1..n + 1 : Opens(j)}
<1>1. IsFiniteSet(S)
  BY FS_Interval, FS_Subset, IsFiniteSet(1..n), S \subseteq 1..n
<1>2. n + 1 \notin S
  OBVIOUS
<1>3. CASE Opens(n + 1)
  <2>1. T = S \cup {n + 1}
    BY <1>3
  <2> QED BY <1>1, <1>2, <1>3, <2>1, FS_AddElement, FS_CardinalityType
<1>4. CASE ~Opens(n + 1)
  <2>1. T = S
    BY <1>4
  <2> QED BY <1>1, <1>4, <2>1, FS_CardinalityType
<1> QED BY <1>3, <1>4

-----------------------------------------------------------------------------
(* What a step leaves as it was *)

\* The numbers a step computes with.
LEMMA Rooms ==
  ASSUME TypeOK
  PROVE  /\ Limit \in Nat /\ size \in Nat /\ Remaining \in Nat /\ Remaining = Limit - size
         /\ Full <=> Remaining = 0
         /\ MaxStreams \in Nat /\ MaxDepth \in Nat /\ MinNulls \in Nat
         /\ pos \in 1..Len(file.tokens) + 1 /\ streams \in Nat /\ depth \in Nat
         /\ body \in 0..Len(file.tokens) /\ (pc = "layers" => body \in 1..Len(file.tokens))
<1>1. setting \in Settings /\ size \in 0..Limit
  BY DEF TypeOK
<1>2. Limit \in Nat /\ size \in Nat /\ size <= Limit
  BY <1>1, LimitTyped
<1>3. Remaining \in Nat /\ Remaining = Limit - size
  BY <1>2 DEF Remaining
<1>4. Full <=> Remaining = 0
  BY <1>3 DEF Full
<1>5. Len(file.tokens) \in Nat
  BY FileTyped
<1>6. MaxStreams \in Nat /\ MaxDepth \in Nat /\ MinNulls \in Nat
  BY LimitsAssumption
<1>7. /\ pos \in 1..Len(file.tokens) + 1 /\ streams \in 0..MaxStreams /\ depth \in 0..MaxDepth
      /\ body \in 0..Len(file.tokens) /\ (pc = "layers" => body # 0)
  BY DEF TypeOK
<1>8. /\ streams \in Nat /\ depth \in Nat
      /\ body # 0 => body \in 1..Len(file.tokens)
  BY <1>5, <1>6, <1>7
<1> QED BY <1>2, <1>3, <1>4, <1>6, <1>7, <1>8

\* What is said of the file alone.
LEMMA FileStays ==
  ASSUME file' = file
  PROVE  /\ \A i : (Opens(i)' <=> Opens(i)) /\ (Counts(i)' <=> Counts(i))
         /\ \A i, d : IsAdmitted(i, d)' <=> IsAdmitted(i, d)
<1>1. \A i : Opens(i)' <=> Opens(i)
  BY DEF Opens, IsStart
<1>2. \A i : Counts(i)' <=> Counts(i)
  <2> TAKE i
  <2>1. {j \in 1..i : Opens(j)'} = {j \in 1..i : Opens(j)}
    BY <1>1
  <2> QED BY <1>1, <2>1 DEF Counts
<1> QED BY <1>1, <1>2 DEF IsAdmitted

\* The search, of a step that opens no stream.
LEMMA SearchStays ==
  ASSUME SearchOK, UNCHANGED <<file, pos, streams>>,
         pc' = "layers" => pc = "layers" /\ body' = body
  PROVE  SearchOK'
<1>1. {j \in 1..pos - 1 : Opens(j)'} = {j \in 1..pos - 1 : Opens(j)}
  BY FileStays
<1>2. streams' = Cardinality({j \in 1..pos' - 1 : Opens(j)'})
  BY <1>1 DEF SearchOK
<1>3. \A j \in 1..pos' - 1 :
        IsStart(j)' => pos' = Len(file'.tokens) + 1 \/ \E e \in j + 1..pos' - 1 : ~IsStart(e)'
  BY DEF SearchOK, IsStart
<1>4. pc' = "layers" =>
        /\ body' < pos' /\ Counts(body)
        /\ \A j \in body' + 1..pos' - 1 : ~Opens(j)'
  BY FileStays DEF SearchOK
<1>5. ASSUME body' = body PROVE Counts(body)' <=> Counts(body)
  <2>1. PICK b : b = body
    OBVIOUS
  <2>2. Counts(b)' <=> Counts(b)
    BY FileStays
  <2> QED BY <1>5, <2>1, <2>2 DEF Counts
<1> QED BY <1>2, <1>3, <1>4, <1>5 DEF SearchOK

\* The layers, of a step that emits nothing: what it gets past without a word is
\* left out because the bundle is full.
LEMMA LayersStay ==
  ASSUME TypeOK, BundleOK, UNCHANGED <<setting, file, pieces, size>>,
         truncated => truncated',
         \A i, d \in Nat : IsAdmitted(i, d) /\ IsPast(i, d) => IsPast(i, d)',
         \A i, d \in Nat : IsAdmitted(i, d) /\ IsPast(i, d)' => IsPast(i, d) \/ Full
  PROVE  \A i, d \in Nat : /\ IsAdmitted(i, d)' => LayerOK(i, d)'
                           /\ PieceOK(i, d)'
                           /\ IsWhole(i, d)' <=> IsWhole(i, d)
<1>1. Remaining' = Remaining /\ (Full' <=> Full)
  BY DEF Remaining, Limit, Full
<1>2. \A i, d : (HasPiece(i, d)' <=> HasPiece(i, d)) /\ (IsWhole(i, d)' <=> IsWhole(i, d))
  BY DEF HasPiece, IsWhole, LayerAt
<1>3. Full => ~(Remaining > 1)
  BY Rooms
<1>4. \A i, d \in Nat : (IsAdmitted(i, d) => LayerOK(i, d)) /\ PieceOK(i, d)
  BY DEF BundleOK
<1>5. \A i, d : IsAdmitted(i, d)' <=> IsAdmitted(i, d)
  BY FileStays
<1>6. ASSUME NEW i \in Nat, NEW d \in Nat, IsAdmitted(i, d)
      PROVE  LayerOK(i, d)'
  <2>1. LayerOK(i, d) /\ PieceOK(i, d)
    BY <1>4, <1>6
  <2>2. IsPast(i, d)' => IsPast(i, d) \/ Full
    BY <1>6
  <2>3. HasPiece(i, d) => IsPast(i, d)
    BY <2>1 DEF PieceOK
  <2>4. ~truncated' => ~truncated
    OBVIOUS
  <2> QED BY <1>1, <1>2, <1>3, <2>1, <2>2, <2>3, <2>4 DEF LayerOK
<1>7. ASSUME NEW i \in Nat, NEW d \in Nat
      PROVE  PieceOK(i, d)'
  <2>1. PieceOK(i, d)
    BY <1>4
  <2>2. IsAdmitted(i, d) /\ IsPast(i, d) => IsPast(i, d)'
    OBVIOUS
  <2> QED BY <1>2, <1>5, <2>1, <2>2 DEF PieceOK, Earlier
<1> QED BY <1>2, <1>5, <1>6, <1>7

\* The copies and the reason, of a step that emits nothing and copies nothing.
LEMMA ViewsStay ==
  ASSUME TypeOK, BundleOK, UNCHANGED <<setting, file, pieces, size, decoded>>,
         ~Copied, ~Copied', pc # "strip raw", truncated => truncated',
         pc' = "strip raw" /\ ~truncated' =>
           Full \/ \A i, d \in Nat : IsAdmitted(i, d) => IsPast(i, d)'
  PROVE  ViewsOK'
<1>1. \A p \in pieces : p.view # "raw" /\ p.view # "stripped"
  BY DEF BundleOK, ViewsOK, Copied
<1>2. pc' # "done"
  BY DEF Copied
<1>3. (Full' <=> Full) /\ \A i, d : IsAdmitted(i, d)' <=> IsAdmitted(i, d)
  BY FileStays DEF Full, Remaining, Limit
<1> QED BY <1>1, <1>2, <1>3 DEF ViewsOK

LEMMA ReasonStays ==
  ASSUME BundleOK, UNCHANGED <<file, pieces>>, ~Copied, truncated,
         \A i, d \in Nat : IsAdmitted(i, d) /\ IsPast(i, d) => IsPast(i, d)'
  PROVE  Reason'
<1>1. \/ \E i \in 1..Len(file.tokens) : Opens(i) /\ ~Counts(i)
      \/ \E i, d \in Nat : IsAdmitted(i, d) /\ IsPast(i, d) /\ ~IsWhole(i, d)
  BY DEF BundleOK, Reason, Copied
<1>2. \A i, d : (IsAdmitted(i, d)' <=> IsAdmitted(i, d)) /\ (IsWhole(i, d)' <=> IsWhole(i, d))
  BY FileStays DEF IsWhole, LayerAt
<1>3. CASE \E i \in 1..Len(file.tokens) : Opens(i) /\ ~Counts(i)
  BY <1>3, FileStays DEF Reason
<1>4. CASE \E i, d \in Nat : IsAdmitted(i, d) /\ IsPast(i, d) /\ ~IsWhole(i, d)
  BY <1>2, <1>4 DEF Reason
<1> QED BY <1>1, <1>3, <1>4

-----------------------------------------------------------------------------
(* The search for streams *)

LEMMA CheckKeeps ==
  ASSUME TypeOK, BundleOK, CheckSize
  PROVE  BundleOK'
<1>1. /\ pc = "check" /\ pc' \in {"done", "streams"} /\ (pc' = "done" => file.bytes > Limit)
      /\ UNCHANGED <<setting, file, pos, streams, body, depth, pieces, decoded, size, truncated>>
  BY DEF CheckSize
<1>2. \A i, d \in Nat : IsPast(i, d)' <=> IsPast(i, d)
  BY <1>1 DEF IsPast
<1>3. SearchOK'
  BY <1>1, SearchStays DEF BundleOK
<1>4. \A i, d \in Nat : (IsAdmitted(i, d)' => LayerOK(i, d)') /\ PieceOK(i, d)'
  BY <1>1, <1>2, LayersStay
<1>5. ViewsOK'
  <2>1. file.bytes \in Nat /\ Limit \in Nat /\ Limit' = Limit
    BY <1>1, Rooms, FileTyped DEF Limit
  <2>2. \A p \in pieces : p.view # "raw" /\ p.view # "stripped"
    BY <1>1 DEF BundleOK, ViewsOK, Copied
  <2>3. pc' = "done" => ~(file.bytes <= Limit)
    BY <1>1, <2>1
  <2> QED BY <1>1, <2>1, <2>2, <2>3 DEF ViewsOK, Copied
<1>6. truncated' => Reason'
  BY <1>1, <1>2, ReasonStays DEF Copied
<1> QED BY <1>3, <1>4, <1>5, <1>6 DEF BundleOK

\* When the search ends without a word, nothing that is admitted lies ahead,
\* unless the bundle is full.
LEMMA StopKeeps ==
  ASSUME TypeOK, BundleOK, StopAtEnd
  PROVE  BundleOK'
<1>1. /\ pc = "streams" /\ pc' = "strip raw"
      /\ UNCHANGED <<setting, file, pos, streams, body, depth, pieces, decoded, size, truncated>>
      /\ \/ pos > Len(file.tokens) \/ Full \/ \A i \in pos..Len(file.tokens) : ~IsStart(i)
  BY DEF StopAtEnd
<1>2. \A i, d \in Nat : IsPast(i, d)' <=> IsPast(i, d)
  BY <1>1 DEF IsPast
<1>3. SearchOK'
  BY <1>1, SearchStays DEF BundleOK
<1>4. \A i, d \in Nat : (IsAdmitted(i, d)' => LayerOK(i, d)') /\ PieceOK(i, d)'
  BY <1>1, <1>2, LayersStay
<1>5. Full \/ \A i, d \in Nat : IsAdmitted(i, d) => IsPast(i, d)'
  <2> SUFFICES ASSUME ~Full, NEW i \in Nat, NEW d \in Nat, IsAdmitted(i, d)
               PROVE  i < pos'
    BY <1>1 DEF IsPast
  <2>1. i \in 1..Len(file.tokens) /\ IsStart(i)
    BY DEF IsAdmitted, Counts, Opens
  <2>2. pos' = pos /\ pos \in 1..Len(file.tokens) + 1 /\ Len(file.tokens) \in Nat
    BY <1>1, Rooms, FileTyped
  <2>3. pos <= i => i \in pos..Len(file.tokens) /\ ~(pos > Len(file.tokens))
    BY <2>1, <2>2
  <2>4. ~(pos <= i)
    BY <1>1, <2>1, <2>3
  <2> QED BY <2>1, <2>2, <2>4
<1>6. ViewsOK'
  BY <1>1, <1>5, ViewsStay DEF Copied
<1>7. truncated' => Reason'
  BY <1>1, <1>2, ReasonStays DEF Copied
<1> QED BY <1>3, <1>4, <1>6, <1>7 DEF BundleOK

\* The next keyword opens a stream, and is the next one to count.
LEMMA NextCounts ==
  ASSUME TypeOK, SearchOK, NEW i, IsNextStart(i)
  PROVE  /\ i \in pos..Len(file.tokens) /\ i \in Nat \ {0} /\ Opens(i)
         /\ Cardinality({j \in 1..i : Opens(j)}) = streams + 1
         /\ \A j \in pos..i - 1 : ~Opens(j)
<1>1. /\ Len(file.tokens) \in Nat /\ pos \in 1..Len(file.tokens) + 1
      /\ i \in pos..Len(file.tokens) /\ IsStart(i) /\ \A j \in pos..i - 1 : ~IsStart(j)
  BY Rooms, FileTyped DEF IsNextStart
<1>2. i \in Nat \ {0} /\ i - 1 \in Nat /\ pos <= i /\ pos \in Nat /\ pos - 1 \in Nat
      /\ pos # Len(file.tokens) + 1
  BY <1>1
<1>3. Opens(i)
  <2> SUFFICES ASSUME NEW j \in 1..i - 1, IsStart(j)
               PROVE  \E e \in j + 1..i - 1 : ~IsStart(e)
    BY <1>1 DEF Opens
  <2>1. j \in 1..pos - 1
    BY <1>1, <1>2
  <2>2. PICK e \in j + 1..pos - 1 : ~IsStart(e)
    BY <1>2, <2>1 DEF SearchOK
  <2>3. e \in j + 1..i - 1
    BY <1>2, <2>1
  <2> QED BY <2>2, <2>3
<1>4. \A j \in pos..i - 1 : ~Opens(j)
  BY <1>1 DEF Opens
<1>5. {j \in 1..i - 1 : Opens(j)} = {j \in 1..pos - 1 : Opens(j)}
  <2>1. ASSUME NEW j \in 1..i - 1, Opens(j) PROVE j \in 1..pos - 1
    BY <1>2, <1>4, <2>1
  <2>2. \A j \in 1..pos - 1 : j \in 1..i - 1
    BY <1>2
  <2> QED BY <2>1, <2>2
<1>6. Cardinality({j \in 1..i : Opens(j)}) = Cardinality({j \in 1..i - 1 : Opens(j)}) + 1
  <2>1. PICK n \in Nat : n = i - 1
    BY <1>2
  <2>2. n + 1 = i
    BY <1>2, <2>1
  <2> QED BY <1>3, <2>1, <2>2, Counting
<1> QED BY <1>1, <1>2, <1>3, <1>4, <1>5, <1>6 DEF SearchOK

\* Beyond the limit on streams there is one that does not count.
LEMMA StopAtMaxKeeps ==
  ASSUME TypeOK, BundleOK, StopAtMaxStreams
  PROVE  BundleOK'
<1>1. /\ pc = "streams" /\ pc' = "strip raw" /\ truncated' = TRUE /\ streams >= MaxStreams
      /\ UNCHANGED <<setting, file, pos, streams, body, depth, pieces, decoded, size>>
      /\ \E i \in pos..Len(file.tokens) : IsStart(i)
  BY DEF StopAtMaxStreams
<1>2. \A i, d \in Nat : IsPast(i, d)' <=> IsPast(i, d)
  BY <1>1 DEF IsPast
<1>3. SearchOK'
  BY <1>1, SearchStays DEF BundleOK
<1>4. \A i, d \in Nat : (IsAdmitted(i, d)' => LayerOK(i, d)') /\ PieceOK(i, d)'
  BY <1>1, <1>2, LayersStay
<1>5. ViewsOK'
  BY <1>1, ViewsStay DEF Copied
<1>6. Reason'
  <2>1. \E i : IsNextStart(i)
    <3> DEFINE S == {i \in pos..Len(file.tokens) : IsStart(i)}
    <3>1. pos \in Nat /\ Len(file.tokens) \in Nat
      BY Rooms, FileTyped
    <3>2. S \subseteq Nat /\ S # {}
      <4>1. pos..Len(file.tokens) \subseteq Nat
        BY <3>1
      <4>2. PICK k \in pos..Len(file.tokens) : IsStart(k)
        BY <1>1
      <4> QED BY <4>1, <4>2
    <3>3. PICK m \in S : \A k \in S : m <= k
      <4> HIDE DEF S
      <4> QED BY <3>2, Least
    <3>4. ASSUME NEW j \in pos..m - 1 PROVE ~IsStart(j)
      <4>1. m \in Nat /\ m <= Len(file.tokens) /\ ~(m <= j) /\ j \in pos..Len(file.tokens)
        BY <3>1
      <4> QED BY <3>3, <4>1
    <3> QED BY <3>3, <3>4 DEF IsNextStart
  <2>2. PICK i : IsNextStart(i)
    BY <2>1
  <2>3. /\ i \in pos..Len(file.tokens) /\ i \in Nat \ {0} /\ Opens(i)
        /\ Cardinality({j \in 1..i : Opens(j)}) = streams + 1
    BY <2>2, NextCounts DEF BundleOK
  <2>4. ~Counts(i)
    <3>1. streams \in Nat /\ MaxStreams \in Nat /\ streams >= MaxStreams
      BY <1>1, Rooms
    <3>2. ~(streams + 1 <= MaxStreams)
      BY <3>1
    <3> QED BY <2>3, <3>2 DEF Counts
  <2>5. i \in 1..Len(file.tokens)
    BY <2>3, Rooms, FileTyped
  <2> QED BY <1>1, <2>3, <2>4, <2>5, FileStays DEF Reason
<1> QED BY <1>3, <1>4, <1>5, <1>6 DEF BundleOK

\* A body that is taken ends at the next endstream, or with the file; no stream
\* opens inside of it.
LEMMA BodyIsClosed ==
  ASSUME TypeOK, NEW i \in 1..Len(file.tokens), IsStart(i),
         NEW k \in 2..Len(file.tokens) + 1, IsAfterBody(i, k)
  PROVE  /\ i < k
         /\ \A j \in i + 1..k - 1 : ~Opens(j)
         /\ \A j \in i..k - 1 : IsStart(j) =>
              k = Len(file.tokens) + 1 \/ \E e \in j + 1..k - 1 : ~IsStart(e)
<1>1. Len(file.tokens) \in Nat /\ i \in Nat /\ k \in Nat
  BY FileTyped
<1>2. CASE /\ k - 1 \in i + 1..Len(file.tokens) /\ ~IsStart(k - 1)
           /\ \A j \in i + 1..k - 2 : IsStart(j)
  <2>1. i < k
    BY <1>1, <1>2
  <2>2. ASSUME NEW j \in i + 1..k - 1 PROVE ~Opens(j)
    <3>1. CASE j = k - 1
      BY <1>2, <3>1 DEF Opens
    <3>2. CASE j # k - 1
      <4>1. i \in 1..j - 1 /\ \A e \in i + 1..j - 1 : e \in i + 1..k - 2
        BY <1>1, <3>2
      <4>2. ~\E e \in i + 1..j - 1 : ~IsStart(e)
        BY <1>2, <4>1
      <4> QED BY <4>1, <4>2 DEF Opens
    <3> QED BY <3>1, <3>2
  <2>3. ASSUME NEW j \in i..k - 1, IsStart(j)
        PROVE  \E e \in j + 1..k - 1 : ~IsStart(e)
    <3>1. j # k - 1
      BY <1>2, <2>3
    <3>2. k - 1 \in j + 1..k - 1
      BY <1>1, <3>1
    <3> QED BY <1>2, <3>2
  <2> QED BY <2>1, <2>2, <2>3
<1>3. CASE k = Len(file.tokens) + 1 /\ \A j \in i + 1..Len(file.tokens) : IsStart(j)
  <2>1. i < k
    BY <1>1, <1>3
  <2>2. ASSUME NEW j \in i + 1..k - 1 PROVE ~Opens(j)
    <3>1. i \in 1..j - 1 /\ \A e \in i + 1..j - 1 : e \in i + 1..Len(file.tokens)
      BY <1>1, <1>3
    <3>2. ~\E e \in i + 1..j - 1 : ~IsStart(e)
      BY <1>3, <3>1
    <3> QED BY <3>1, <3>2 DEF Opens
  <2> QED BY <1>3, <2>1, <2>2
<1> QED BY <1>2, <1>3 DEF IsAfterBody

LEMMA OpenKeeps ==
  ASSUME TypeOK, BundleOK, OpenStream
  PROVE  BundleOK'
<1>1. /\ pc = "streams" /\ pc' = "layers" /\ streams < MaxStreams /\ streams' = streams + 1
      /\ depth' = 0
      /\ UNCHANGED <<setting, file, pieces, decoded, size, truncated>>
      /\ SearchOK
  BY DEF OpenStream, BundleOK
<1>2. PICK i \in pos..Len(file.tokens), k \in 2..Len(file.tokens) + 1 :
        /\ IsNextStart(i) /\ IsAfterBody(i, k) /\ body' = i /\ pos' = k
  BY DEF OpenStream
<1>3. /\ i \in Nat \ {0} /\ Opens(i) /\ IsStart(i)
      /\ Cardinality({j \in 1..i : Opens(j)}) = streams + 1
      /\ \A j \in pos..i - 1 : ~Opens(j)
  BY <1>1, <1>2, NextCounts DEF IsNextStart
<1>4. /\ Len(file.tokens) \in Nat /\ pos \in Nat \ {0} /\ pos <= i /\ i <= Len(file.tokens)
      /\ i \in 1..Len(file.tokens) /\ k \in Nat
      /\ streams \in Nat /\ MaxStreams \in Nat
  BY <1>2, Rooms, FileTyped
<1>5. /\ i < k
      /\ \A j \in i + 1..k - 1 : ~Opens(j)
      /\ \A j \in i..k - 1 : IsStart(j) =>
           k = Len(file.tokens) + 1 \/ \E e \in j + 1..k - 1 : ~IsStart(e)
  BY <1>2, <1>3, <1>4, BodyIsClosed
<1>6. Counts(i)
  <2>1. streams + 1 <= MaxStreams
    BY <1>1, <1>4
  <2> QED BY <1>3, <2>1 DEF Counts
<1>7. SearchOK'
  <2>1. {j \in 1..k - 1 : Opens(j)} = {j \in 1..i : Opens(j)}
    <3>1. ASSUME NEW j \in 1..k - 1, Opens(j) PROVE j \in 1..i
      BY <1>4, <1>5, <3>1
    <3>2. \A j \in 1..i : j \in 1..k - 1
      BY <1>4, <1>5
    <3> QED BY <3>1, <3>2
  <2>2. {j \in 1..pos' - 1 : Opens(j)'} = {j \in 1..k - 1 : Opens(j)}
    BY <1>1, <1>2, FileStays
  <2>3. streams' = Cardinality({j \in 1..pos' - 1 : Opens(j)'})
    BY <1>1, <1>3, <2>1, <2>2
  <2>4. ASSUME NEW j \in 1..k - 1, IsStart(j)
        PROVE  k = Len(file.tokens) + 1 \/ \E e \in j + 1..k - 1 : ~IsStart(e)
    <3>1. CASE j < pos
      <4>1. j \in 1..pos - 1 /\ pos # Len(file.tokens) + 1
        BY <1>4, <3>1
      <4>2. PICK e \in j + 1..pos - 1 : ~IsStart(e)
        BY <1>1, <2>4, <4>1 DEF SearchOK
      <4>3. e \in j + 1..k - 1
        BY <1>4, <1>5
      <4> QED BY <4>2, <4>3
    <3>2. CASE ~(j < pos)
      <4>1. j \in pos..i - 1 \/ j \in i..k - 1
        BY <1>4, <3>2
      <4>2. j \notin pos..i - 1
        BY <1>2, <2>4 DEF IsNextStart
      <4> QED BY <1>5, <2>4, <4>1, <4>2
    <3> QED BY <3>1, <3>2
  <2>5. \A j \in 1..pos' - 1 : IsStart(j)' =>
          pos' = Len(file'.tokens) + 1 \/ \E e \in j + 1..pos' - 1 : ~IsStart(e)'
    BY <1>1, <1>2, <2>4 DEF IsStart
  <2>6. Counts(body)'
    <3>1. Counts(i)'
      BY <1>1, <1>6, FileStays
    <3> QED BY <1>2, <3>1 DEF Counts
  <2>7. \A j \in body' + 1..pos' - 1 : ~Opens(j)'
    BY <1>1, <1>2, <1>5, FileStays
  <2> QED BY <1>2, <1>5, <2>3, <2>5, <2>6, <2>7 DEF SearchOK
<1>8. ASSUME NEW x \in Nat, NEW d \in Nat, IsAdmitted(x, d)
      PROVE  IsPast(x, d)' <=> IsPast(x, d)
  <2>1. Opens(x) /\ d # 0 /\ ~(d <= 0)
    BY <1>8, Rooms DEF IsAdmitted, Counts
  <2>2. x \notin pos..i - 1
    BY <1>3, <2>1
  <2>3. x < i <=> x < pos
    BY <1>4, <2>2
  <2> QED BY <1>1, <1>2, <2>1, <2>3 DEF IsPast
<1>9. \A x, d \in Nat : (IsAdmitted(x, d)' => LayerOK(x, d)') /\ PieceOK(x, d)'
  BY <1>1, <1>8, LayersStay
<1>10. ViewsOK'
  BY <1>1, ViewsStay DEF Copied
<1>11. truncated' => Reason'
  BY <1>1, <1>8, ReasonStays DEF Copied
<1> QED BY <1>7, <1>9, <1>10, <1>11 DEF BundleOK

\* A stream that is closed has all its admitted layers in the bundle, or there
\* is no room for more.
LEMMA CloseKeeps ==
  ASSUME TypeOK, BundleOK, CloseStream
  PROVE  BundleOK'
<1>1. /\ pc = "layers" /\ pc' = "streams"
      /\ UNCHANGED <<setting, file, pos, streams, body, depth, pieces, decoded, size, truncated>>
      /\ depth >= MaxDepth \/ Full \/ depth >= Len(file.tokens[body].layers)
      /\ body < pos /\ \A j \in body + 1..pos - 1 : ~Opens(j)
  BY DEF CloseStream, BundleOK, SearchOK
<1>2. /\ pos \in Nat /\ depth \in Nat /\ body \in Nat /\ MaxDepth \in Nat
      /\ Len(file.tokens[body].layers) \in Nat
  <2>1. body \in 1..Len(file.tokens) /\ Len(file.tokens) \in Nat
    BY <1>1, Rooms, FileTyped
  <2>2. file.tokens[body].layers \in Seq(Layers)
    BY <2>1, FileTyped
  <2>3. Len(file.tokens[body].layers) \in Nat
    BY <2>2
  <2>4. pos \in 1..Len(file.tokens) + 1 /\ depth \in Nat /\ MaxDepth \in Nat
    BY Rooms
  <2> QED BY <2>1, <2>3, <2>4
<1>3. SearchOK'
  BY <1>1, SearchStays DEF BundleOK
<1>4. ASSUME NEW i \in Nat, NEW d \in Nat, IsAdmitted(i, d), IsPast(i, d)
      PROVE  IsPast(i, d)'
  BY <1>1, <1>2, <1>4 DEF IsPast
<1>5. ASSUME NEW i \in Nat, NEW d \in Nat, IsAdmitted(i, d), IsPast(i, d)'
      PROVE  IsPast(i, d) \/ Full
  <2>1. i < pos /\ Opens(i) /\ d <= MaxDepth /\ d <= Len(file.tokens[i].layers)
    BY <1>1, <1>2, <1>5 DEF IsPast, IsAdmitted, Counts
  <2>2. i <= body
    <3>1. i \notin body + 1..pos - 1
      BY <1>1, <2>1
    <3> QED BY <1>2, <2>1, <3>1
  <2>3. CASE i = body
    <3>1. Full \/ d <= depth
      BY <1>1, <1>2, <2>1, <2>3
    <3> QED BY <1>1, <2>3, <3>1 DEF IsPast
  <2>4. CASE i # body
    <3>1. i < body
      BY <1>2, <2>2, <2>4
    <3> QED BY <1>1, <3>1 DEF IsPast
  <2> QED BY <2>3, <2>4
<1>6. \A i, d \in Nat : (IsAdmitted(i, d)' => LayerOK(i, d)') /\ PieceOK(i, d)'
  BY <1>1, <1>4, <1>5, LayersStay
<1>7. ViewsOK'
  BY <1>1, ViewsStay DEF Copied
<1>8. truncated' => Reason'
  BY <1>1, <1>4, ReasonStays DEF Copied
<1> QED BY <1>3, <1>6, <1>7, <1>8 DEF BundleOK

-----------------------------------------------------------------------------
(* Decoding and copying *)

\* A layer that is decoded into a bundle with room ends up whole, or fills it and
\* is reported; into one without room, it is only reported.
LEMMA EmitLayer ==
  ASSUME TypeOK, NEW layer \in Layers, NEW i \in Nat, NEW d \in Nat,
         emit("decoded", i, d, decodeOnce(layer)), setting' = setting
  PROVE  \/ /\ Remaining <= 1
            /\ truncated' = TRUE /\ pieces' = pieces /\ size' = size
         \/ /\ Remaining > 1
            /\ \E kept \in Nat :
                 /\ pieces' = pieces \cup {[view |-> "decoded", stream |-> i, layer |-> d,
                                            kept |-> kept]}
                 /\ kept = layer.bytes => truncated' = truncated
                 /\ kept # layer.bytes => truncated' = TRUE /\ Remaining' = 0
<1> DEFINE out == decodeOnce(layer)
<1>1. /\ layer.bytes \in Nat /\ Remaining \in Nat /\ Limit \in Nat /\ size \in Nat
      /\ Remaining = Limit - size /\ truncated \in BOOLEAN
  BY Rooms DEF Layers, TypeOK
<1>2. /\ out \in Nat /\ out <= layer.bytes
      /\ out # layer.bytes => out = Remaining
  BY <1>1 DEF decodeOnce, Lesser
<1> HIDE DEF out
<1>3. CASE Remaining <= 1
  BY <1>3 DEF emit, out
<1>4. CASE ~(Remaining <= 1)
  <2>1. /\ pieces' = pieces \cup {[view |-> "decoded", stream |-> i, layer |-> d,
                                   kept |-> Kept(out)]}
        /\ size' = size + Kept(out) + 1
        /\ truncated' = (truncated \/ Kept(out) < out)
    BY <1>4 DEF emit, out
  <2>2. /\ Kept(out) \in Nat /\ Kept(out) <= out
        /\ Kept(out) # out => Kept(out) = Remaining - 1
        /\ Kept(out) <= Remaining - 1
    BY <1>1, <1>2, <1>4 DEF Kept, Lesser
  <2>3. Kept(out) = layer.bytes => Kept(out) = out /\ ~(Kept(out) < out)
    BY <1>1, <1>2, <2>2
  <2>4. Kept(out) # layer.bytes => Kept(out) < out /\ Kept(out) = Remaining - 1
    BY <1>1, <1>2, <2>2
  <2>5. Kept(out) = Remaining - 1 => Remaining' = 0
    <3>1. Limit' = Limit
      BY DEF Limit
    <3> QED BY <1>1, <2>1, <2>2, <3>1 DEF Remaining
  <2>6. Remaining > 1
    BY <1>1, <1>4
  <2>7. Kept(out) = layer.bytes => truncated' = truncated
    BY <1>1, <2>1, <2>3, Zenon
  <2>8. Kept(out) # layer.bytes => truncated' = TRUE
    BY <2>1, <2>4, Zenon
  <2> QED BY <2>1, <2>2, <2>4, <2>5, <2>6, <2>7, <2>8
<1> QED BY <1>3, <1>4

LEMMA DecodeKeeps ==
  ASSUME TypeOK, BundleOK, DecodeLayer
  PROVE  BundleOK'
<1> DEFINE b == body
           e == depth + 1
           layer == file.tokens[b].layers[e]
<1>1. /\ pc = "layers" /\ depth < MaxDepth /\ depth < Len(file.tokens[body].layers)
      /\ emit("decoded", body, depth + 1, decodeOnce(layer)) /\ depth' = depth + 1
      /\ UNCHANGED <<setting, file, pc, pos, streams, body>>
  BY DEF DecodeLayer, Deeper
<1>2. /\ body \in 1..Len(file.tokens) /\ Len(file.tokens) \in Nat /\ depth \in Nat
      /\ MaxDepth \in Nat
      /\ file.tokens[body].layers \in Seq(Layers)
  BY <1>1, Rooms, FileTyped
<1>3. Len(file.tokens[body].layers) \in Nat
  BY <1>2
<1>4. b \in Nat /\ e \in Nat /\ e \in 1..MaxDepth /\ e \in 1..Len(file.tokens[b].layers)
  BY <1>1, <1>2, <1>3
<1>5. layer \in Layers
  BY <1>2, <1>4
<1>6. IsAdmitted(b, e)
  BY <1>1, <1>2, <1>4 DEF IsAdmitted, BundleOK, SearchOK
<1>7. ~IsPast(b, e)
  BY <1>1, <1>2 DEF IsPast
<1>8. PICK c \in Nat, f \in Nat : c = b /\ f = e
  BY <1>4
<1> HIDE DEF b, e
<1>9. \A i, d \in Nat : IsPast(i, d)' <=> IsPast(i, d) \/ (i = c /\ d = f)
  <2> SUFFICES ASSUME NEW i \in Nat, NEW d \in Nat
               PROVE  IsPast(i, d)' <=> IsPast(i, d) \/ (i = c /\ d = f)
    OBVIOUS
  <2>1. c = body /\ f = depth + 1 /\ pc' = "layers" /\ body' = body /\ depth' = depth + 1
    BY <1>1, <1>8 DEF b, e
  <2>2. d <= depth + 1 <=> d <= depth \/ d = depth + 1
    BY <1>2
  <2> QED BY <1>1, <2>1, <2>2 DEF IsPast
<1>10. \A i, d : IsAdmitted(i, d)' <=> IsAdmitted(i, d)
  BY <1>1, FileStays
<1>11. IsAdmitted(c, f) /\ ~IsPast(c, f) /\ LayerAt(c, f) = layer
  BY <1>6, <1>7, <1>8 DEF LayerAt, layer
<1>12. \A i, d \in Nat : (IsAdmitted(i, d) => LayerOK(i, d)) /\ PieceOK(i, d)
  BY DEF BundleOK
<1>13. ~HasPiece(c, f) /\ ~IsWhole(c, f)
  BY <1>11, <1>12 DEF PieceOK, HasPiece, IsWhole
<1>14. \A j, d \in Nat : IsAdmitted(j, d) /\ Earlier(j, d, c, f) => IsPast(j, d)
  <2> SUFFICES ASSUME NEW j \in Nat, NEW d \in Nat, Earlier(j, d, c, f)
               PROVE  IsPast(j, d)
    OBVIOUS
  <2>1. c = body /\ f = depth + 1
    BY <1>8 DEF b, e
  <2>2. j < body \/ (j = body /\ d <= depth)
    BY <1>2, <2>1 DEF Earlier
  <2> QED BY <1>1, <2>2 DEF IsPast
<1>15. SearchOK'
  BY <1>1, SearchStays DEF BundleOK
<1>16. \A p \in pieces : p.view # "raw" /\ p.view # "stripped"
  BY <1>1 DEF BundleOK, ViewsOK, Copied
<1>17. \/ /\ Remaining <= 1
          /\ truncated' = TRUE /\ pieces' = pieces /\ size' = size
       \/ /\ Remaining > 1
          /\ \E kept \in Nat :
               /\ pieces' = pieces \cup {[view |-> "decoded", stream |-> c, layer |-> f,
                                          kept |-> kept]}
               /\ kept = layer.bytes => truncated' = truncated
               /\ kept # layer.bytes => truncated' = TRUE /\ Remaining' = 0
  <2>1. emit("decoded", c, f, decodeOnce(layer)) /\ setting' = setting
    BY <1>1, <1>8 DEF b, e
  <2> HIDE DEF layer
  <2> QED BY <1>5, <2>1, EmitLayer
<1>18. /\ truncated => truncated'
       /\ truncated /\ (\A i, d \in Nat : IsPast(i, d) => (IsWhole(i, d)' <=> IsWhole(i, d)))
            => Reason'
  <2>1. ASSUME truncated, \A i, d \in Nat : IsPast(i, d) => (IsWhole(i, d)' <=> IsWhole(i, d))
        PROVE  Reason'
    <3>1. \/ \E i \in 1..Len(file.tokens) : Opens(i) /\ ~Counts(i)
          \/ \E i, d \in Nat : IsAdmitted(i, d) /\ IsPast(i, d) /\ ~IsWhole(i, d)
      BY <1>1, <2>1 DEF BundleOK, Reason, Copied
    <3>2. CASE \E i \in 1..Len(file.tokens) : Opens(i) /\ ~Counts(i)
      BY <1>1, <3>2, FileStays DEF Reason
    <3>3. CASE \E i, d \in Nat : IsAdmitted(i, d) /\ IsPast(i, d) /\ ~IsWhole(i, d)
      BY <1>9, <1>10, <2>1, <3>3 DEF Reason
    <3> QED BY <3>1, <3>2, <3>3
  <2>2. truncated => truncated'
    BY <1>17, TRUE \in BOOLEAN DEF TypeOK
  <2> QED BY <2>1, <2>2
<1> HIDE DEF layer
<1>19. CASE /\ Remaining <= 1
            /\ truncated' = TRUE /\ pieces' = pieces /\ size' = size
  <2>1. \A i, d : (HasPiece(i, d)' <=> HasPiece(i, d)) /\ (IsWhole(i, d)' <=> IsWhole(i, d))
    BY <1>1, <1>19 DEF HasPiece, IsWhole, LayerAt
  <2>2. Remaining' = Remaining /\ ~(Remaining > 1)
    BY <1>1, <1>19, Rooms DEF Remaining, Limit
  <2>3. ASSUME NEW i \in Nat, NEW d \in Nat
        PROVE  (IsAdmitted(i, d)' => LayerOK(i, d)') /\ PieceOK(i, d)'
    <3>1. PieceOK(i, d)
      BY <1>12
    <3> QED BY <1>9, <1>10, <1>19, <2>1, <2>2, <3>1 DEF LayerOK, PieceOK, Earlier
  <2>4. ViewsOK'
    BY <1>1, <1>16, <1>19 DEF ViewsOK, Copied
  <2>5. Reason'
    BY <1>9, <1>10, <1>11, <1>13, <2>1 DEF Reason
  <2> QED BY <1>15, <2>3, <2>4, <2>5 DEF BundleOK
<1>20. ASSUME Remaining > 1, NEW kept \in Nat,
              pieces' = pieces \cup {[view |-> "decoded", stream |-> c, layer |-> f,
                                      kept |-> kept]},
              kept = layer.bytes => truncated' = truncated,
              kept # layer.bytes => truncated' = TRUE /\ Remaining' = 0
       PROVE  BundleOK'
  <2>1. /\ \A i, d : HasPiece(i, d)' <=> HasPiece(i, d) \/ (i = c /\ d = f)
        /\ \A i, d : ~(i = c /\ d = f) => (IsWhole(i, d)' <=> IsWhole(i, d))
        /\ IsWhole(c, f)' <=> kept = layer.bytes
    <3> DEFINE new == [view |-> "decoded", stream |-> c, layer |-> f, kept |-> kept]
    <3>0. /\ pieces' = pieces \cup {new} /\ new.view = "decoded"
          /\ new.stream = c /\ new.layer = f /\ new.kept = kept
      BY <1>20
    <3> HIDE DEF new
    <3>1. \A i, d : HasPiece(i, d)' <=> HasPiece(i, d) \/ (i = c /\ d = f)
      BY <3>0 DEF HasPiece
    <3>2. \A i, d : ~(i = c /\ d = f) => (IsWhole(i, d)' <=> IsWhole(i, d))
      BY <1>1, <3>0 DEF IsWhole, LayerAt
    <3>3. IsWhole(c, f)' <=> kept = layer.bytes
      <4>1. LayerAt(c, f)' = layer
        BY <1>1, <1>11 DEF LayerAt
      <4>2. ~\E p \in pieces : p.view = "decoded" /\ p.stream = c /\ p.layer = f
        BY <1>13 DEF HasPiece
      <4>3. \A p \in pieces' : p.view = "decoded" /\ p.stream = c /\ p.layer = f => p = new
        BY <3>0, <4>2
      <4> QED BY <3>0, <4>1, <4>3 DEF IsWhole
    <3> QED BY <3>1, <3>2, <3>3
  <2>2. \A i, d \in Nat : IsPast(i, d) => ~(i = c /\ d = f)
    BY <1>11
  <2>3. \A i, d \in Nat : IsAdmitted(i, d) /\ IsPast(i, d) => IsWhole(i, d)
    BY <1>12, <1>20 DEF LayerOK
  <2>4. ASSUME NEW i \in Nat, NEW d \in Nat, IsAdmitted(i, d)'
        PROVE  LayerOK(i, d)'
    <3>1. CASE i = c /\ d = f
      <4>1. kept # layer.bytes => ~(Remaining' > 1) /\ truncated'
        BY <1>20
      <4> QED BY <2>1, <3>1, <4>1 DEF LayerOK
    <3>2. CASE ~(i = c /\ d = f)
      BY <1>9, <1>10, <2>1, <2>3, <2>4, <3>2 DEF LayerOK
    <3> QED BY <3>1, <3>2
  <2>5. ASSUME NEW i \in Nat, NEW d \in Nat, HasPiece(i, d)'
        PROVE  /\ IsAdmitted(i, d)' /\ IsPast(i, d)'
               /\ \A j, x \in Nat : IsAdmitted(j, x)' /\ Earlier(j, x, i, d) => IsWhole(j, x)'
    <3>1. CASE i = c /\ d = f
      <4>1. ASSUME NEW j \in Nat, NEW x \in Nat, IsAdmitted(j, x), Earlier(j, x, c, f)
            PROVE  IsWhole(j, x)'
        <5>1. IsPast(j, x)
          BY <1>14, <4>1
        <5> QED BY <2>1, <2>2, <2>3, <4>1, <5>1
      <4> QED BY <1>9, <1>10, <1>11, <3>1, <4>1
    <3>2. CASE ~(i = c /\ d = f)
      <4>1. HasPiece(i, d)
        BY <2>1, <2>5, <3>2
      <4>2. /\ IsAdmitted(i, d) /\ IsPast(i, d)
            /\ \A j, x \in Nat : IsAdmitted(j, x) /\ Earlier(j, x, i, d) => IsWhole(j, x)
        BY <1>12, <4>1 DEF PieceOK
      <4>3. ASSUME NEW j \in Nat, NEW x \in Nat, IsWhole(j, x) PROVE IsWhole(j, x)'
        BY <1>13, <2>1, <4>3
      <4> QED BY <1>9, <1>10, <4>2, <4>3
    <3> QED BY <3>1, <3>2
  <2>6. \A i, d \in Nat : PieceOK(i, d)'
    BY <2>5 DEF PieceOK, Earlier
  <2>7. ViewsOK'
    <3>1. \A p \in pieces' : p.view # "raw" /\ p.view # "stripped"
      BY <1>16, <1>20
    <3> QED BY <1>1, <3>1 DEF ViewsOK, Copied
  <2>8. truncated' => Reason'
    <3>1. CASE kept = layer.bytes
      BY <1>18, <1>20, <2>1, <2>2, <3>1
    <3>2. CASE kept # layer.bytes
      <4>1. IsAdmitted(c, f)' /\ IsPast(c, f)' /\ ~IsWhole(c, f)'
        BY <1>9, <1>10, <1>11, <2>1, <3>2
      <4> QED BY <4>1 DEF Reason
    <3> QED BY <3>1, <3>2
  <2> QED BY <1>15, <2>4, <2>6, <2>7, <2>8 DEF BundleOK
<1> QED BY <1>17, <1>19, <1>20

\* A copy without NULs is added whole, or what is missing of it is reported.
LEMMA StripEmits ==
  ASSUME TypeOK, NEW view \in Views, NEW text,
         text.bytes \in Nat, text.nulls \in Nat, text.nulls <= text.bytes,
         addNullStripped(view, text), setting' = setting
  PROVE  /\ pieces \subseteq pieces' /\ \A p \in pieces' : p \in pieces \/ p.view = view
         /\ (Full => Full') /\ (Remaining' > 1 => Remaining > 1)
         /\ truncated => truncated'
         /\ text.nulls >= MinNulls /\ ~truncated' =>
              \E p \in pieces' : p.view = view /\ p.kept = text.bytes - text.nulls
         /\ truncated' /\ ~truncated =>
              /\ text.nulls >= MinNulls
              /\ \A p \in pieces' : p \in pieces \/ p.kept # text.bytes - text.nulls
<1> DEFINE bytes == text.bytes - text.nulls
<1>1. /\ Remaining \in Nat /\ Limit \in Nat /\ size \in Nat /\ Remaining = Limit - size
      /\ (Full <=> Remaining = 0) /\ Limit' = Limit /\ MinNulls \in Nat
  BY Rooms DEF Limit
<1>2. bytes \in Nat /\ truncated \in BOOLEAN
  <2>1. bytes \in Nat
    OBVIOUS
  <2>2. truncated \in BOOLEAN
    BY DEF TypeOK
  <2> QED BY <2>1, <2>2
<1> HIDE DEF bytes
<1>3. CASE ~(text.nulls >= MinNulls)
  <2>1. UNCHANGED <<pieces, size, truncated>>
    BY <1>3 DEF addNullStripped
  <2>2. Remaining' = Remaining /\ (Full' <=> Full)
    BY <1>1, <2>1 DEF Remaining, Full
  <2> QED BY <1>3, <2>1, <2>2
<1>4. CASE text.nulls >= MinNulls /\ Remaining <= 1
  <2>1. truncated' = TRUE /\ UNCHANGED <<pieces, size>>
    BY <1>4 DEF addNullStripped, emit
  <2>2. Remaining' = Remaining /\ (Full' <=> Full)
    BY <1>1, <2>1 DEF Remaining, Full
  <2> QED BY <1>4, <2>1, <2>2
<1>5. CASE text.nulls >= MinNulls /\ ~(Remaining <= 1)
  <2> DEFINE new == [view |-> view, stream |-> 0, layer |-> 0, kept |-> Kept(bytes)]
  <2>1. /\ pieces' = pieces \cup {new} /\ size' = size + Kept(bytes) + 1
        /\ truncated' = (truncated \/ Kept(bytes) < bytes)
    BY <1>5 DEF addNullStripped, emit, bytes
  <2>2. new.view = view /\ new.kept = Kept(bytes)
    OBVIOUS
  <2> HIDE DEF new
  <2>3. Kept(bytes) \in Nat /\ Kept(bytes) <= bytes
    BY <1>1, <1>2, <1>5 DEF Kept, Lesser
  <2>4. Remaining > 1 /\ ~Full
    BY <1>1, <1>5
  <2>5. Kept(bytes) < bytes <=> Kept(bytes) # bytes
    BY <1>2, <2>3
  <2>6. pieces \subseteq pieces' /\ \A p \in pieces' : p \in pieces \/ p.view = view
    BY <2>1, <2>2
  <2>7. truncated' <=> truncated \/ Kept(bytes) # bytes
    BY <2>1, <2>5
  <2>8. ~truncated' => \E p \in pieces' : p.view = view /\ p.kept = bytes
    BY <2>1, <2>2, <2>7
  <2>9. truncated' /\ ~truncated => \A p \in pieces' : p \in pieces \/ p.kept # bytes
    BY <2>1, <2>2, <2>7
  <2>10. bytes = text.bytes - text.nulls
    BY DEF bytes
  <2> QED BY <1>5, <2>4, <2>6, <2>7, <2>8, <2>9, <2>10
<1>6. Remaining <= 1 \/ ~(Remaining <= 1)
  OBVIOUS
<1> QED BY <1>3, <1>4, <1>5, <1>6

\* The layers, of a step that adds a copy without NULs.
LEMMA StripLayers ==
  ASSUME TypeOK, BundleOK, pc # "layers", pc' # "layers",
         UNCHANGED <<setting, file, pos, streams>>,
         pieces \subseteq pieces', \A p \in pieces' : p \in pieces \/ p.view # "decoded",
         Full => Full', Remaining' > 1 => Remaining > 1, truncated => truncated'
  PROVE  /\ SearchOK'
         /\ \A i, d \in Nat : /\ IsAdmitted(i, d)' => LayerOK(i, d)'
                              /\ PieceOK(i, d)'
                              /\ IsWhole(i, d)' <=> IsWhole(i, d)
                              /\ IsPast(i, d)' <=> IsPast(i, d)
<1>1. SearchOK'
  BY SearchStays DEF BundleOK
<1>2. \A i, d : IsAdmitted(i, d)' <=> IsAdmitted(i, d)
  BY FileStays
<1>3. \A i, d : (HasPiece(i, d)' <=> HasPiece(i, d)) /\ (IsWhole(i, d)' <=> IsWhole(i, d))
  BY DEF HasPiece, IsWhole, LayerAt
<1>4. \A i, d : IsPast(i, d)' <=> IsPast(i, d)
  BY DEF IsPast
<1>5. ASSUME NEW i \in Nat, NEW d \in Nat
      PROVE  (IsAdmitted(i, d)' => LayerOK(i, d)') /\ PieceOK(i, d)'
  <2>1. (IsAdmitted(i, d) => LayerOK(i, d)) /\ PieceOK(i, d)
    BY DEF BundleOK
  <2> QED BY <1>2, <1>3, <1>4, <2>1 DEF LayerOK, PieceOK, Earlier
<1> QED BY <1>1, <1>3, <1>4, <1>5

LEMMA StripRawKeeps ==
  ASSUME TypeOK, BundleOK, StripRaw
  PROVE  BundleOK'
<1>1. /\ pc = "strip raw" /\ pc' = "strip decoded" /\ addNullStripped("raw", file)
      /\ UNCHANGED <<setting, file, pos, streams, body, depth, decoded>>
  BY DEF StripRaw
<1>2. /\ pieces \subseteq pieces' /\ \A p \in pieces' : p \in pieces \/ p.view = "raw"
      /\ (Full => Full') /\ (Remaining' > 1 => Remaining > 1)
      /\ truncated => truncated'
      /\ file.nulls >= MinNulls /\ ~truncated' => HasView("raw", file)'
      /\ truncated' /\ ~truncated =>
           /\ file.nulls >= MinNulls
           /\ \A p \in pieces' : p \in pieces \/ p.kept # file.bytes - file.nulls
  BY <1>1, FileTyped, StripEmits DEF Views, HasView
<1>3. /\ SearchOK'
      /\ \A i, d \in Nat : /\ IsAdmitted(i, d)' => LayerOK(i, d)'
                           /\ PieceOK(i, d)'
                           /\ IsWhole(i, d)' <=> IsWhole(i, d)
                           /\ IsPast(i, d)' <=> IsPast(i, d)
  BY <1>1, <1>2, StripLayers
<1>4. \A i, d : IsAdmitted(i, d)' <=> IsAdmitted(i, d)
  BY <1>1, FileStays
<1>5. \A p \in pieces : p.view # "raw" /\ p.view # "stripped"
  BY <1>1 DEF BundleOK, ViewsOK, Copied
<1>6. ViewsOK'
  <2>1. \A p \in pieces' : p.view # "stripped"
    BY <1>2, <1>5
  <2>2. Limit' = Limit
    BY <1>1 DEF Limit
  <2>3. ~truncated' /\ file.bytes <= Limit =>
          Full' \/ \A i, d \in Nat : IsAdmitted(i, d)' => IsPast(i, d)'
    BY <1>1, <1>2, <1>3, <1>4 DEF BundleOK, ViewsOK
  <2> QED BY <1>1, <1>2, <2>1, <2>2, <2>3 DEF ViewsOK, Copied
<1>7. truncated' => Reason'
  <2>1. CASE truncated
    <3>1. \/ \E i \in 1..Len(file.tokens) : Opens(i) /\ ~Counts(i)
          \/ \E i, d \in Nat : IsAdmitted(i, d) /\ IsPast(i, d) /\ ~IsWhole(i, d)
      BY <1>1, <2>1 DEF BundleOK, Reason, Copied
    <3>2. CASE \E i \in 1..Len(file.tokens) : Opens(i) /\ ~Counts(i)
      BY <1>1, <3>2, FileStays DEF Reason
    <3>3. CASE \E i, d \in Nat : IsAdmitted(i, d) /\ IsPast(i, d) /\ ~IsWhole(i, d)
      BY <1>3, <1>4, <3>3 DEF Reason
    <3> QED BY <3>1, <3>2, <3>3
  <2>2. CASE ~truncated /\ truncated'
    <3>1. file.nulls >= MinNulls /\ ~HasView("raw", file)'
      BY <1>1, <1>2, <1>5, <2>2 DEF HasView
    <3> QED BY <1>1, <3>1 DEF Reason, Copied
  <2> QED BY <2>1, <2>2
<1> QED BY <1>3, <1>6, <1>7 DEF BundleOK

LEMMA StripDecodedKeeps ==
  ASSUME TypeOK, BundleOK, StripDecoded
  PROVE  BundleOK'
<1>1. /\ pc = "strip decoded" /\ pc' = "done" /\ addNullStripped("stripped", decoded)
      /\ UNCHANGED <<setting, file, pos, streams, body, depth, decoded>>
  BY DEF StripDecoded
<1>2. decoded.bytes \in Nat /\ decoded.nulls \in Nat /\ decoded.nulls <= decoded.bytes
  BY DEF TypeOK
<1>3. /\ pieces \subseteq pieces' /\ \A p \in pieces' : p \in pieces \/ p.view = "stripped"
      /\ (Full => Full') /\ (Remaining' > 1 => Remaining > 1)
      /\ truncated => truncated'
      /\ decoded.nulls >= MinNulls /\ ~truncated' => HasView("stripped", decoded)'
      /\ truncated' /\ ~truncated =>
           /\ decoded.nulls >= MinNulls
           /\ \A p \in pieces' : p \in pieces \/ p.kept # decoded.bytes - decoded.nulls
  BY <1>1, <1>2, StripEmits DEF Views, HasView
<1>4. /\ SearchOK'
      /\ \A i, d \in Nat : /\ IsAdmitted(i, d)' => LayerOK(i, d)'
                           /\ PieceOK(i, d)'
                           /\ IsWhole(i, d)' <=> IsWhole(i, d)
                           /\ IsPast(i, d)' <=> IsPast(i, d)
  BY <1>1, <1>3, StripLayers
<1>5. \A i, d : IsAdmitted(i, d)' <=> IsAdmitted(i, d)
  BY <1>1, FileStays
<1>6. \A p \in pieces : p.view # "stripped"
  BY <1>1 DEF BundleOK, ViewsOK
<1>7. HasView("raw", file)' <=> HasView("raw", file)
  BY <1>1, <1>3 DEF HasView
<1>8. ViewsOK'
  <2>1. Limit' = Limit
    BY <1>1 DEF Limit
  <2>2. ~truncated' /\ file.bytes <= Limit =>
          /\ Full' \/ \A i, d \in Nat : IsAdmitted(i, d)' => IsPast(i, d)'
          /\ file.nulls >= MinNulls => HasView("raw", file)'
    BY <1>1, <1>3, <1>4, <1>5, <1>7 DEF BundleOK, ViewsOK, Copied
  <2> QED BY <1>1, <1>3, <2>1, <2>2 DEF ViewsOK, Copied
<1>9. truncated' => Reason'
  <2>1. CASE truncated
    <3>1. \/ \E i \in 1..Len(file.tokens) : Opens(i) /\ ~Counts(i)
          \/ \E i, d \in Nat : IsAdmitted(i, d) /\ IsPast(i, d) /\ ~IsWhole(i, d)
          \/ file.nulls >= MinNulls /\ ~HasView("raw", file)
      BY <1>1, <2>1 DEF BundleOK, Reason
    <3>2. CASE \E i \in 1..Len(file.tokens) : Opens(i) /\ ~Counts(i)
      BY <1>1, <3>2, FileStays DEF Reason
    <3>3. CASE \E i, d \in Nat : IsAdmitted(i, d) /\ IsPast(i, d) /\ ~IsWhole(i, d)
      BY <1>4, <1>5, <3>3 DEF Reason
    <3>4. CASE file.nulls >= MinNulls /\ ~HasView("raw", file)
      BY <1>1, <1>7, <3>4 DEF Reason, Copied
    <3> QED BY <3>1, <3>2, <3>3, <3>4
  <2>2. CASE ~truncated /\ truncated'
    <3>1. decoded.nulls >= MinNulls /\ ~HasView("stripped", decoded)'
      BY <1>1, <1>3, <1>6, <2>2 DEF HasView
    <3> QED BY <1>1, <3>1 DEF Reason
  <2> QED BY <2>1, <2>2
<1> QED BY <1>4, <1>8, <1>9 DEF BundleOK

-----------------------------------------------------------------------------
(* What the bundle is good for *)

LEMMA BundleStarts ==
  ASSUME Init
  PROVE  BundleOK
<1>1. /\ pc = "check" /\ pos = 1 /\ streams = 0 /\ pieces = {} /\ truncated = FALSE
  BY DEF Init
<1>2. SearchOK
  <2>1. {j \in 1..pos - 1 : Opens(j)} = {}
    BY <1>1
  <2> QED BY <1>1, <2>1, FS_EmptySet DEF SearchOK
<1>3. ASSUME NEW i \in Nat, NEW d \in Nat
      PROVE  (IsAdmitted(i, d) => LayerOK(i, d)) /\ PieceOK(i, d)
  <2>1. ~HasPiece(i, d)
    BY <1>1 DEF HasPiece
  <2>2. IsAdmitted(i, d) => ~IsPast(i, d)
    <3>1. Len(file.tokens) \in Nat
      BY FilesAssumption DEF Init
    <3>2. IsAdmitted(i, d) => ~(i < 1)
      BY <3>1 DEF IsAdmitted
    <3> QED BY <1>1, <3>2 DEF IsPast
  <2> QED BY <2>1, <2>2 DEF LayerOK, PieceOK
<1>4. ViewsOK
  BY <1>1 DEF ViewsOK, Copied
<1> QED BY <1>1, <1>2, <1>3, <1>4 DEF BundleOK

LEMMA BundleKeeps ==
  ASSUME TypeOK, BundleOK, [Next]_vars
  PROVE  BundleOK'
<1>1. CASE CheckSize         BY <1>1, CheckKeeps
<1>2. CASE StopAtEnd         BY <1>2, StopKeeps
<1>3. CASE StopAtMaxStreams  BY <1>3, StopAtMaxKeeps
<1>4. CASE OpenStream        BY <1>4, OpenKeeps
<1>5. CASE CloseStream       BY <1>5, CloseKeeps
<1>6. CASE DecodeLayer       BY <1>6, DecodeKeeps
<1>7. CASE StripRaw          BY <1>7, StripRawKeeps
<1>8. CASE StripDecoded      BY <1>8, StripDecodedKeeps
<1>9. CASE UNCHANGED vars
  <2>1. UNCHANGED <<setting, file, pc, pos, streams, body, depth, pieces, decoded, size,
                    truncated>>
    BY <1>9 DEF vars
  <2>2. SearchOK'
    BY <2>1, SearchStays DEF BundleOK
  <2>3. /\ \A i, d : IsPast(i, d)' <=> IsPast(i, d)
        /\ \A i, d : IsWhole(i, d)' <=> IsWhole(i, d)
        /\ \A i, d : IsAdmitted(i, d)' <=> IsAdmitted(i, d)
        /\ HasView("raw", file)' <=> HasView("raw", file)
        /\ HasView("stripped", decoded)' <=> HasView("stripped", decoded)
        /\ Limit' = Limit /\ (Full' <=> Full)
    BY <2>1, FileStays DEF IsPast, IsWhole, LayerAt, HasView, Limit, Full, Remaining
  <2>4. \A i, d \in Nat : (IsAdmitted(i, d)' => LayerOK(i, d)') /\ PieceOK(i, d)'
    BY <2>1, <2>3, LayersStay
  <2>5. ViewsOK'
    BY <2>1, <2>3 DEF BundleOK, ViewsOK, Copied
  <2>6. ASSUME truncated PROVE Reason'
    <3>1. CASE \E i \in 1..Len(file.tokens) : Opens(i) /\ ~Counts(i)
      BY <2>1, <3>1, FileStays DEF Reason
    <3>2. CASE \E i, d \in Nat : IsAdmitted(i, d) /\ IsPast(i, d) /\ ~IsWhole(i, d)
      BY <2>3, <3>2 DEF Reason
    <3>3. CASE \/ Copied /\ file.nulls >= MinNulls /\ ~HasView("raw", file)
               \/ pc = "done" /\ decoded.nulls >= MinNulls /\ ~HasView("stripped", decoded)
      BY <2>1, <2>3, <3>3 DEF Reason, Copied
    <3> QED BY <2>6, <3>1, <3>2, <3>3 DEF BundleOK, Reason
  <2> QED BY <2>1, <2>2, <2>4, <2>5, <2>6 DEF BundleOK
<1> QED BY <1>1, <1>2, <1>3, <1>4, <1>5, <1>6, <1>7, <1>8, <1>9 DEF Next

LEMMA BundleInvariance == Spec => []BundleOK
<1>1. Init => BundleOK
  BY BundleStarts
<1>2. TypeOK /\ BundleOK /\ [Next]_vars => BundleOK'
  BY BundleKeeps
<1> QED BY <1>1, <1>2, TypeCorrect, PTL DEF Spec

\* The layers that the properties speak of.
LEMMA AdmittedIs ==
  ASSUME TypeOK
  PROVE  /\ \A i, d : <<i, d>> \in Admitted <=> IsAdmitted(i, d)
         /\ \A a \in Admitted : /\ IsAdmitted(a[1], a[2]) /\ a = <<a[1], a[2]>>
                                /\ a[1] \in Nat /\ a[2] \in Nat
         /\ \A i \in 1..Len(file.tokens), d \in 1..MaxDepth : i \in Nat /\ d \in Nat
<1>1. Len(file.tokens) \in Nat /\ MaxDepth \in Nat
  BY FileTyped, Rooms
<1>2. \A i \in 1..Len(file.tokens), d \in 1..MaxDepth : i \in Nat /\ d \in Nat
  BY <1>1
<1>3. \A i, d : <<i, d>> \in Admitted <=> IsAdmitted(i, d)
  BY DEF Admitted, IsAdmitted
<1>4. \A a \in Admitted :
        /\ IsAdmitted(a[1], a[2]) /\ a = <<a[1], a[2]>>
        /\ a[1] \in 1..Len(file.tokens) /\ a[2] \in 1..MaxDepth
  BY DEF Admitted, IsAdmitted
<1> QED BY <1>2, <1>3, <1>4

\* A bomb never starves what comes before it: the loop of buildDecodedBundle,
\* decodeStream's recursion and emit cut the bundle at its tail only, and put
\* nothing into it that the limits on streams and depth do not admit.
THEOREM TailIsCut == Spec => []CutsTheTail
<1>1. TypeOK /\ BundleOK => CutsTheTail
  <2> SUFFICES ASSUME TypeOK, BundleOK,
                      NEW i \in 1..Len(file.tokens), NEW d \in 1..MaxDepth, HasPiece(i, d)
               PROVE  /\ <<i, d>> \in Admitted
                      /\ \A a \in Admitted : Earlier(a[1], a[2], i, d) => IsWhole(a[1], a[2])
    BY DEF CutsTheTail
  <2>1. i \in Nat /\ d \in Nat
    BY AdmittedIs
  <2>2. /\ IsAdmitted(i, d)
        /\ \A j, c \in Nat : IsAdmitted(j, c) /\ Earlier(j, c, i, d) => IsWhole(j, c)
    BY <2>1 DEF BundleOK, PieceOK
  <2> QED BY <2>2, AdmittedIs
<1> QED BY <1>1, TypeCorrect, BundleInvariance, PTL

\* A bundle that is not marked truncated misses nothing that its limits admit,
\* but for what a layer that fills it to the byte leaves out (buildDecodedBundle,
\* addNullStripped).
THEOREM UnflaggedHasAll == Spec => []UnflaggedIsComplete
<1>1. TypeOK /\ BundleOK => UnflaggedIsComplete
  <2> SUFFICES ASSUME TypeOK, BundleOK, pc = "done", ~truncated, file.bytes <= Limit
               PROVE  /\ \A a \in Admitted :
                           \/ IsWhole(a[1], a[2])
                           \/ size = Limit /\ ~HasPiece(a[1], a[2])
                      /\ file.nulls >= MinNulls => HasView("raw", file)
                      /\ decoded.nulls >= MinNulls => HasView("stripped", decoded)
    BY DEF UnflaggedIsComplete, HasView
  <2>1. /\ Full \/ \A i, d \in Nat : IsAdmitted(i, d) => IsPast(i, d)
        /\ file.nulls >= MinNulls => HasView("raw", file)
        /\ decoded.nulls >= MinNulls => HasView("stripped", decoded)
    BY DEF BundleOK, ViewsOK, Copied
  <2>2. Full => size = Limit
    BY Rooms
  <2>3. ASSUME NEW i \in Nat, NEW d \in Nat, IsAdmitted(i, d)
        PROVE  IsWhole(i, d) \/ (size = Limit /\ ~HasPiece(i, d))
    <3>1. LayerOK(i, d) /\ PieceOK(i, d)
      BY <2>3 DEF BundleOK
    <3> QED BY <2>1, <2>2, <2>3, <3>1 DEF LayerOK, PieceOK
  <2> QED BY <2>1, <2>3, AdmittedIs
<1> QED BY <1>1, TypeCorrect, BundleInvariance, PTL

\* "Truncated", of which scanDecodedView logs that a limit was hit, is said only
\* of a bundle that misses something.
THEOREM FlaggedMissesSome == Spec => []FlaggedIsCut
<1>1. TypeOK /\ BundleOK => FlaggedIsCut
  <2> SUFFICES ASSUME TypeOK, BundleOK, pc = "done", truncated
               PROVE  \/ \E i \in 1..Len(file.tokens) : Opens(i) /\ ~Counts(i)
                      \/ \E a \in Admitted : ~IsWhole(a[1], a[2])
                      \/ file.nulls >= MinNulls /\ ~HasView("raw", file)
                      \/ decoded.nulls >= MinNulls /\ ~HasView("stripped", decoded)
    BY DEF FlaggedIsCut, HasView
  <2>1. ASSUME NEW i \in Nat, NEW d \in Nat, IsAdmitted(i, d), ~IsWhole(i, d)
        PROVE  \E a \in Admitted : ~IsWhole(a[1], a[2])
    <3>1. <<i, d>> \in Admitted
      BY <2>1, AdmittedIs
    <3> QED BY <2>1, <3>1
  <2> QED BY <2>1 DEF BundleOK, Reason
<1> QED BY <1>1, TypeCorrect, BundleInvariance, PTL
====
