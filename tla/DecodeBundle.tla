---------------------------- MODULE DecodeBundle -----------------------------
(***************************************************************************)
(* The decoded bundle that the YARA engine scans beside the uploaded file  *)
(* (pdf_decode.go), built by scanDecodedView (yara_views.go), and the size *)
(* limit it takes from MAX_FILE_SIZE (decodeLimitBytes, parseSize).        *)
(*                                                                         *)
(* A file is the sequence of its stream keywords: "stream" followed by a   *)
(* line break, which starts a body, and "endstream".  What the decoders    *)
(* make of a body is data: the layers it unwraps into, one by one.         *)
(***************************************************************************)
EXTENDS Integers, Sequences, FiniteSets

CONSTANTS Files,        \* what is uploaded
          Settings,     \* values of MAX_FILE_SIZE: a number and a unit
          KiB,          \* 1024
          IntMax,       \* the largest int64
          DefaultBytes, \* defaultDecodeBytes
          Ceiling,      \* decodeBytesCeiling
          MaxStreams, MaxDepth,
          MinNulls      \* minNullsForStrippedView

Units == {"", "K", "M", "G"}
Int64 == -(IntMax + 1)..IntMax

\* One decoding step: its output, the NUL bytes in it, and whether the decoder
\* reads through readBounded (inflate, ASCII85) or not (ASCIIHex).
Layers == [bytes : Nat \ {0}, nulls : Nat, bounded : BOOLEAN]
Tokens == [opens : BOOLEAN, layers : Seq(Layers)]

ASSUME FilesAssumption ==
  /\ Files \subseteq [bytes : Nat, nulls : Nat, tokens : Seq(Tokens)]
  /\ \A f \in Files : f.nulls <= f.bytes
ASSUME SettingsAssumption == Settings \subseteq [number : Int64, unit : Units]
ASSUME LimitsAssumption ==
  /\ IntMax \in Nat /\ KiB \in Nat
  /\ Ceiling \in Nat \ {0} /\ DefaultBytes \in 1..Ceiling
  /\ MaxStreams \in Nat /\ MaxDepth \in Nat /\ MinNulls \in Nat

VARIABLES setting,   \* MAX_FILE_SIZE of this process
          file,      \* the upload
          pc,        \* where scanDecodedView is
          pos,       \* the token the search for the next stream starts from
          streams,   \* streams decoded so far
          body,      \* the keyword of the body being decoded
          depth,     \* its next layer, from 0
          pieces,    \* what was emitted
          decoded,   \* the decoded part of the bundle: its bytes and NULs
          size,      \* len(b.out)
          truncated

vars == <<setting, file, pc, pos, streams, body, depth, pieces, decoded, size,
          truncated>>

-----------------------------------------------------------------------------
(* The limit. *)

Multiplier == [u \in Units |-> CASE u = "" -> 1
                                 [] u = "K" -> KiB
                                 [] u = "M" -> KiB * KiB
                                 [] u = "G" -> KiB * KiB * KiB]

\* An int64 product keeps its low bits.
Wrap(n) == ((n + IntMax + 1) % (2 * (IntMax + 1))) - (IntMax + 1)

\* "number" is what Sscanf reads: 0 for text that is not a number of 64 bits.
parseSize(s) == Wrap(s.number * Multiplier[s.unit])

\* BUG: no ceiling.
LimitWithoutCeiling(s) == IF parseSize(s) <= 0 THEN DefaultBytes ELSE parseSize(s)

decodeLimitBytes(s) ==
  LET n == parseSize(s)
  IN  IF n <= 0 THEN DefaultBytes ELSE IF n > Ceiling THEN Ceiling ELSE n

Limit == decodeLimitBytes(setting)

-----------------------------------------------------------------------------
(* The builder. *)

Remaining == Limit - size
Full == Remaining <= 0
Lesser(m, n) == IF m <= n THEN m ELSE n

\* A decoded layer, or a copy without NULs of the file or of what was decoded.
Views == {"decoded", "raw", "stripped"}
Pieces == [view : Views, stream : Nat, layer : Nat, kept : Nat]

\* What emit keeps of "bytes" bytes.
Kept(bytes) == Lesser(bytes, Remaining - 1)

\* BUG: the newline is not counted; a cut is not reported; a piece that does
\* not fit is left out, and a later one that does is kept.
EmitForgetsNewline(view, stream, layer, bytes) ==
  /\ pieces' = pieces \cup {[view |-> view, stream |-> stream, layer |-> layer,
                             kept |-> Lesser(bytes, Remaining)]}
  /\ size' = size + Lesser(bytes, Remaining) + 1
  /\ truncated' = (truncated \/ Remaining < bytes)
EmitCutsInSilence(view, stream, layer, bytes) ==
  IF Remaining <= 1
  THEN truncated' = TRUE /\ UNCHANGED <<pieces, size>>
  ELSE /\ pieces' = pieces \cup {[view |-> view, stream |-> stream, layer |-> layer,
                                  kept |-> Kept(bytes)]}
       /\ size' = size + Kept(bytes) + 1
       /\ UNCHANGED truncated
EmitSkips(view, stream, layer, bytes) ==
  IF Remaining <= bytes
  THEN truncated' = TRUE /\ UNCHANGED <<pieces, size>>
  ELSE /\ pieces' = pieces \cup {[view |-> view, stream |-> stream, layer |-> layer,
                                  kept |-> bytes]}
       /\ size' = size + bytes + 1
       /\ UNCHANGED truncated

\* Every piece costs a newline; one that does not fit whole is cut, one with no
\* room for a byte is dropped.
emit(view, stream, layer, bytes) ==
  IF Remaining <= 1
  THEN truncated' = TRUE /\ UNCHANGED <<pieces, size>>
  ELSE /\ pieces' = pieces \cup {[view |-> view, stream |-> stream, layer |-> layer,
                                  kept |-> Kept(bytes)]}
       /\ size' = size + Kept(bytes) + 1
       /\ truncated' = (truncated \/ Kept(bytes) < bytes)

IsStart(i) == file.tokens[i].opens

\* The first stream keyword from the current position on.
IsNextStart(i) ==
  /\ i \in pos..Len(file.tokens) /\ IsStart(i)
  /\ \A j \in pos..i - 1 : ~IsStart(j)

\* A body ends at the first endstream after its keyword, or with the file.
IsAfterBody(i, k) ==
  \/ /\ k - 1 \in i + 1..Len(file.tokens) /\ ~IsStart(k - 1)
     /\ \A j \in i + 1..k - 2 : IsStart(j)
  \/ /\ k = Len(file.tokens) + 1
     /\ \A j \in i + 1..Len(file.tokens) : IsStart(j)

\* A file over the limit is scanned as uploaded only.
CheckSize ==
  /\ pc = "check"
  /\ pc' = IF file.bytes > Limit THEN "done" ELSE "streams"
  /\ UNCHANGED <<setting, file, pos, streams, body, depth, pieces, decoded, size,
                 truncated>>

StopAtEnd ==
  /\ pc = "streams"
  /\ \/ pos > Len(file.tokens)
     \/ Full
     \/ \A i \in pos..Len(file.tokens) : ~IsStart(i)
  /\ pc' = "strip raw"
  /\ UNCHANGED <<setting, file, pos, streams, body, depth, pieces, decoded, size,
                 truncated>>

\* BUG: the streams are counted before another one is looked for.
StopBeforeLooking ==
  /\ pc = "streams" /\ ~Full
  /\ streams >= MaxStreams
  /\ truncated' = TRUE
  /\ pc' = "strip raw"
  /\ UNCHANGED <<setting, file, pos, streams, body, depth, pieces, decoded, size>>

StopAtMaxStreams ==
  /\ pc = "streams" /\ ~Full
  /\ \E i \in pos..Len(file.tokens) : IsStart(i)
  /\ streams >= MaxStreams
  /\ truncated' = TRUE
  /\ pc' = "strip raw"
  /\ UNCHANGED <<setting, file, pos, streams, body, depth, pieces, decoded, size>>

OpenStream ==
  /\ pc = "streams" /\ ~Full
  /\ streams < MaxStreams
  /\ \E i \in pos..Len(file.tokens), k \in 2..Len(file.tokens) + 1 :
       /\ IsNextStart(i) /\ IsAfterBody(i, k)
       /\ body' = i
       /\ pos' = k
  /\ streams' = streams + 1
  /\ depth' = 0
  /\ pc' = "layers"
  /\ UNCHANGED <<setting, file, pieces, decoded, size, truncated>>

\* decodeStream calls itself on what it decoded.  It returns without a word at
\* the depth limit, when the bundle is full, and when no decoder knows the data.
CloseStream ==
  /\ pc = "layers"
  /\ depth >= MaxDepth \/ Full \/ depth >= Len(file.tokens[body].layers)
  /\ pc' = "streams"
  /\ UNCHANGED <<setting, file, pos, streams, body, depth, pieces, decoded, size,
                 truncated>>

\* A bounded decoder stops at what remains and says so; emit, which keeps a byte
\* for the newline, cuts such an output in any case.
decodeOnce(layer) ==
  IF layer.bounded THEN Lesser(layer.bytes, Remaining) ELSE layer.bytes

\* BUG: the recursion does not count its depth.
SameLevel(d) == d

Deeper(d) == d + 1

\* Of a layer that is cut, the part kept may hold any share of its NUL bytes.
DecodeLayer ==
  /\ pc = "layers"
  /\ depth < MaxDepth /\ ~Full
  /\ depth < Len(file.tokens[body].layers)
  /\ LET layer == file.tokens[body].layers[depth + 1]
         out == decodeOnce(layer)
     IN  /\ emit("decoded", body, depth + 1, out)
         /\ IF Remaining <= 1
            THEN UNCHANGED decoded
            ELSE \E n \in 0..Lesser(layer.nulls, Kept(out)) :
                   /\ layer.nulls - n <= layer.bytes - Kept(out)
                   /\ decoded' = [bytes |-> decoded.bytes + Kept(out) + 1,
                                  nulls |-> decoded.nulls + n]
  /\ depth' = Deeper(depth)
  /\ UNCHANGED <<setting, file, pc, pos, streams, body>>

\* addNullStripped of a text: a copy without its NULs, if it has enough of them.
addNullStripped(view, text) ==
  IF text.nulls >= MinNulls
  THEN emit(view, 0, 0, text.bytes - text.nulls)
  ELSE UNCHANGED <<pieces, size, truncated>>

StripRaw ==
  /\ pc = "strip raw"
  /\ addNullStripped("raw", file)
  /\ pc' = "strip decoded"
  /\ UNCHANGED <<setting, file, pos, streams, body, depth, decoded>>

StripDecoded ==
  /\ pc = "strip decoded"
  /\ addNullStripped("stripped", decoded)
  /\ pc' = "done"
  /\ UNCHANGED <<setting, file, pos, streams, body, depth, decoded>>

-----------------------------------------------------------------------------
Init ==
  /\ setting \in Settings
  /\ file \in Files
  /\ pc = "check"
  /\ pos = 1 /\ streams = 0 /\ body = 0 /\ depth = 0
  /\ pieces = {}
  /\ decoded = [bytes |-> 0, nulls |-> 0]
  /\ size = 0
  /\ truncated = FALSE

Next ==
  \/ CheckSize
  \/ StopAtEnd
  \/ StopAtMaxStreams
  \/ OpenStream
  \/ CloseStream
  \/ DecodeLayer
  \/ StripRaw
  \/ StripDecoded

Spec == Init /\ [][Next]_vars

\* One goroutine that waits for nobody.
FairSpec == Spec /\ WF_vars(Next)

-----------------------------------------------------------------------------
(* Properties. *)

\* Everything stays in its set, and the bundle within its limit
\* (bundleBuilder.emit never lets b.out pass maxTotalBytes).
TypeOK ==
  /\ setting \in Settings /\ file \in Files
  /\ pc \in {"check", "streams", "layers", "strip raw", "strip decoded", "done"}
  /\ pos \in 1..Len(file.tokens) + 1
  /\ streams \in 0..MaxStreams
  /\ body \in 0..Len(file.tokens)
  /\ pc = "layers" => body # 0
  /\ depth \in 0..MaxDepth
  /\ pieces \subseteq Pieces
  /\ decoded \in [bytes : Nat, nulls : Nat] /\ decoded.nulls <= decoded.bytes
  /\ size \in 0..Limit
  /\ truncated \in BOOLEAN

\* "The size limit follows MAX_FILE_SIZE (never above a fixed ceiling), and
\* applies on both sides" (README): a file over a setting that means something
\* gives no bundle, and no bundle outgrows the setting or the ceiling.  An
\* unset, malformed, zero or overflowing setting must not lift the bound.
BundleFitsSetting ==
  LET meant == setting.number * Multiplier[setting.unit]
  IN  /\ size <= Ceiling
      /\ size > 0 => file.bytes <= Ceiling
      /\ 0 < meant /\ meant <= IntMax =>
           /\ size <= meant
           /\ size > 0 => file.bytes <= meant

\* A keyword starts a stream unless a body that began before it is still open.
Opens(i) ==
  /\ IsStart(i)
  /\ \A j \in 1..i - 1 : IsStart(j) => \E e \in j + 1..i - 1 : ~IsStart(e)

\* The streams before the limit on their number.
Counts(i) == Opens(i) /\ Cardinality({j \in 1..i : Opens(j)}) <= MaxStreams

\* The layers of the file that the limits on streams and depth admit.
Admitted ==
  {a \in (1..Len(file.tokens)) \X (1..MaxDepth) :
     Counts(a[1]) /\ a[2] <= Len(file.tokens[a[1]].layers)}

LayerAt(i, d) == file.tokens[i].layers[d]

HasPiece(i, d) ==
  \E p \in pieces : p.view = "decoded" /\ p.stream = i /\ p.layer = d

IsWhole(i, d) ==
  \E p \in pieces : /\ p.view = "decoded" /\ p.stream = i /\ p.layer = d
                    /\ p.kept = LayerAt(i, d).bytes

\* Layer <<j, c>> is decoded before layer <<i, d>>.
Earlier(j, c, i, d) == j < i \/ (j = i /\ c < d)

\* The bundle holds nothing but text of the file's own streams, and where the
\* limit cuts, it cuts the tail: whatever was decoded before a piece that is
\* there, is there whole (emit, decodeStream and the loop of
\* buildDecodedBundle; a rule that spans what comes first is never starved by
\* a bomb that comes later).
CutsTheTail ==
  \A i \in 1..Len(file.tokens), d \in 1..MaxDepth : HasPiece(i, d) =>
    /\ <<i, d>> \in Admitted
    /\ \A a \in Admitted : Earlier(a[1], a[2], i, d) => IsWhole(a[1], a[2])

\* Without "truncated" nothing was cut, every layer within the stream and depth
\* limits is there, and so are the copies without NULs of the file and of what
\* was decoded ("hitting a bound sets truncated and stops decoding",
\* pdf_decode.go).  Two bounds are reached in silence and are excepted here:
\* the depth limit, beyond which Admitted does not look, and an output that
\* fills the limit to the byte, which ends the loop.
UnflaggedIsComplete ==
  pc = "done" /\ ~truncated /\ file.bytes <= Limit =>
    /\ \A a \in Admitted :
         \/ IsWhole(a[1], a[2])
         \/ size = Limit /\ ~HasPiece(a[1], a[2])
    /\ file.nulls >= MinNulls =>
         \E p \in pieces : p.view = "raw" /\ p.kept = file.bytes - file.nulls
    /\ decoded.nulls >= MinNulls =>
         \E p \in pieces :
           p.view = "stripped" /\ p.kept = decoded.bytes - decoded.nulls

\* "Truncated" is not cried without a reason: a stream was left out, or
\* something is missing or cut (scanDecodedView logs that a limit was hit).
FlaggedIsCut ==
  pc = "done" /\ truncated =>
    \/ \E i \in 1..Len(file.tokens) : Opens(i) /\ ~Counts(i)
    \/ \E a \in Admitted : ~IsWhole(a[1], a[2])
    \/ \E v \in {"raw", "stripped"} :
         LET text == IF v = "raw" THEN file ELSE decoded
         IN  /\ text.nulls >= MinNulls
             /\ ~\E p \in pieces : p.view = v /\ p.kept = text.bytes - text.nulls

\* Whatever the file nests or repeats, the bundle gets built: each recursion
\* goes one layer deeper and each turn of the loop moves past a body.
Terminates == <>(pc = "done")
=============================================================================
