-------------------------- MODULE AccessUnits_proofs --------------------------
(***************************************************************************)
(* Proofs about AccessUnits, for any number of access units, losses and    *)
(* connections: what reaches the decoder, video storage and the format     *)
(* processor; that lazy decoding comes to what eager decoding comes to;    *)
(* and what the format processor publishes.  The second section is about   *)
(* the recursive operators of AccessUnits, by induction over sequences.    *)
(***************************************************************************)
EXTENDS AccessUnits, SequenceTheorems, WellFoundedInduction, TLAPS

ParameterSets == [sps : 1 .. 2, pps : 1 .. 2]
KnownSets == [sps : Nat, pps : Nat]
NALU == [kind : {"sps", "pps"}, v : Nat \ {0}] \union {Delimiter}
          \union [kind : {"idr", "slice"}, v : Nat, sps : Nat \ {0},
                  pps : Nat \ {0}]
Packet == [ts : Nat, part : {"whole", "start", "end"}, nalus : Seq(NALU),
           marker : BOOLEAN, unit : Seq(NALU)]
AccessUnit == Seq(NALU)
Decoder == [sets : KnownSets, last : Nat, good : BOOLEAN,
            shown : [n : Nat, good : BOOLEAN]]

Types ==
  /\ config.layout \in {"single", "aggregated"} /\ config.marks \in BOOLEAN
  /\ coded \in ParameterSets
  /\ units \in Nat
  /\ outgoing \in Seq(Packet)
  /\ pendingPkt = <<>> \/ \E p \in Packet : pendingPkt = <<p>>
  /\ received.ts \in Nat

(* P is one access unit in packets, of timestamp n; before[i] is what a
   depacketiser has gathered when it has seen all of them before the i-th. *)
Whole(P, before, n) ==
  /\ P \in Seq(Packet) /\ P # <<>>
  /\ before[1] = <<>> /\ P[1].part # "end"
  /\ \A i \in 1 .. Len(P) :
       /\ P[i].ts = n
       /\ i < Len(P) =>
            /\ ~P[i].marker
            /\ before[i + 1] = IF P[i].part = "start" THEN before[i]
                               ELSE before[i] \o P[i].nalus
            /\ P[i + 1].part = "end" =>
                 P[i].part = "start" /\ P[i].nalus = P[i + 1].nalus
       /\ i = Len(P) =>
            P[i].part # "start" /\ before[i] \o P[i].nalus = P[i].unit

(* P is the last access unit sent, and k of its packets have left. *)
Sent(P, before, k) ==
  /\ Whole(P, before, units)
  /\ k \in 0 .. Len(P)
  /\ Len(outgoing) = Len(P) - k
  /\ \A i \in 1 .. Len(outgoing) : outgoing[i] = P[k + i]

Intact(n) == {n - 1, n} \intersect damaged = {}

(* The packet held back, when it is of that access unit: it is the last that
   left, and the depacketiser has what comes before it, unless one was lost. *)
HeldOfLast(p, P, before, k) ==
  /\ \E j \in 1 .. k : p = P[j] /\ (units \notin damaged => j = k)
  /\ units \notin damaged /\ p.part = "end" => fragments = p.nalus
  /\ Intact(units) => frameBuffer = before[k]

(* The packet held back, when it is of an earlier access unit: it completes
   that one, unless a packet was lost. *)
HeldOfEarlier(p) ==
  /\ p.ts \in 1 .. units - 1
  /\ p.ts \notin damaged =>
       p.part # "start" /\ (p.part = "end" => fragments = p.nalus)
  /\ Intact(p.ts) => frameBuffer \o p.nalus = p.unit

Held(P, before, k) ==
  /\ pendingPkt = <<>> =>
       frameBuffer = <<>> /\ (k > 0 => units \in damaged)
  /\ \A p \in ToSet(pendingPkt) :
       \/ p.ts = units /\ HeldOfLast(p, P, before, k)
       \/ HeldOfEarlier(p) /\ (k > 0 => units \in damaged)
  (* What comes next follows an undamaged access unit at once. *)
  /\ outgoing # <<>> /\ units > 1 /\ units - 1 \notin damaged =>
       pendingPkt # <<>> /\ Head(pendingPkt).ts \in {units - 1, units}

Queued ==
  IF units = 0 THEN outgoing = <<>> /\ pendingPkt = <<>> /\ frameBuffer = <<>>
  ELSE \E P, before, k : Sent(P, before, k) /\ Held(P, before, k)

(* AccessUnitsAreWhole, with its LET unfolded. *)
Delivered ==
  /\ received.nalus # <<>> /\ Intact(received.ts)
       => received.nalus = received.unit
  /\ \A p \in ToSet(pendingPkt) :
       p.ts > 1 /\ Intact(p.ts - 1) => received.ts >= p.ts - 1

UnitsInv == Types /\ Queued /\ Delivered

Bare(nalus) == \A i \in DOMAIN nalus : ~IsPicture(nalus[i])

(* A packet has a picture, or one end of it, or none. *)
Shaped(p) ==
  \/ p.part = "whole" /\ Bare(p.nalus)
  \/ \E x \in NALU : IsPicture(x) /\ p.nalus = <<x>>

Closing(p) == p.part # "start" /\ ~Bare(p.nalus)

LastCloses(P) ==
  \A i \in 1 .. Len(P) :
    Shaped(P[i]) /\ (Closing(P[i]) => i = Len(P))

(* The picture is the last NAL unit of an access unit: no picture waits in a
   depacketiser for what comes after it, whatever was lost. *)
Ordered ==
  /\ frameBuffer \in AccessUnit /\ Bare(frameBuffer)
  /\ LastCloses(outgoing)
  /\ \A i \in 1 .. Len(outgoing) : outgoing[i].ts = units
  /\ \A p \in ToSet(pendingPkt) :
       /\ Shaped(p) /\ p.ts <= units
       /\ Closing(p) /\ outgoing # <<>> => p.ts # units

(* Two decoders that show the same from now on, if the second shows it well. *)
Same(d, e) ==
  /\ d.sets = e.sets
  /\ e.good => d.good /\ d.last = e.last /\ d.shown = e.shown

Complete(sets) == sets.sps # 0 /\ sets.pps # 0
Sees(d) == d.good => Complete(d.sets)

(* What decoding rc.au would make of the decoder is what decoding everything
   at once has made of it. *)
Postponing ==
  /\ initial \in KnownSets
  /\ decoder \in Decoder /\ eager \in Decoder /\ au \in Seq(AccessUnit)
  /\ Sees(eager)
  /\ ~config.lazy => au = <<>>
  /\ ~astray => Same(Consumed(decoder, au), eager)

(* The parameter sets of the format are the newest that arrived. *)
Tracked ==
  /\ format \in KnownSets /\ heard \in KnownSets
  /\ config.codec = "h264" => format = heard

DecodingInv == UnitsInv /\ Ordered /\ Postponing /\ Tracked

----------------------------------------------------------------------------
(* Induction, over a set instead of a predicate: what holds of a sequence is
   the set of the sequences it holds of. *)
LEMMA LeastNatural ==
  ASSUME NEW T, T \subseteq Nat, T # {}
  PROVE  \E n \in T : \A m \in T : n <= m
<1>1. PICK n \in T : \A m \in T : ~(<<m, n>> \in OpToRel(<, Nat))
  BY NatLessThanWellFounded, WFMin
<1>2. ASSUME NEW m \in T PROVE n <= m
  <2>1. m \in Nat /\ n \in Nat
    BY <1>2
  <2>2. m < n => <<m, n>> \in OpToRel(<, Nat)
    BY <2>1 DEF OpToRel
  <2>3. ~(m < n)
    BY <1>1, <2>2
  <2> QED
    BY <2>1, <2>3
<1>3. \A m \in T : n <= m
  BY <1>2
<1> QED
  BY <1>3

LEMMA Induction ==
  ASSUME NEW n \in Nat, NEW T, 0 \in T,
         \A i \in 0 .. n - 1 : i \in T => i + 1 \in T
  PROVE  \A i \in 0 .. n : i \in T
<1> DEFINE missing == (0 .. n) \ T
<1> SUFFICES ASSUME missing # {} PROVE FALSE
  OBVIOUS
<1>1. PICK m \in missing : \A i \in missing : m <= i
  <2>1. missing \subseteq Nat
    OBVIOUS
  <2> HIDE DEF missing
  <2> QED
    BY <2>1, LeastNatural
<1>2. m \in 0 .. n /\ m \notin T /\ m # 0
  OBVIOUS
<1>3. m - 1 \in 0 .. n - 1 /\ m - 1 \notin missing
  BY <1>1, <1>2
<1>4. m - 1 \in T
  BY <1>3
<1>5. (m - 1) + 1 \in T
  BY <1>3, <1>4
<1> QED
  BY <1>2, <1>5

LEMMA PrefixesGrow ==
  ASSUME NEW S, NEW s \in Seq(S)
  PROVE  /\ Len(s) \in Nat
         /\ SubSeq(s, 1, 0) = <<>> /\ SubSeq(s, 1, Len(s)) = s
         /\ \A i \in 0 .. Len(s) - 1 :
              /\ s[i + 1] \in S /\ SubSeq(s, 1, i) \in Seq(S)
              /\ SubSeq(s, 1, i + 1) = Append(SubSeq(s, 1, i), s[i + 1])
<1>1. Len(s) \in Nat /\ SubSeq(s, 1, 0) = <<>> /\ SubSeq(s, 1, Len(s)) = s
  BY SubSeqFull
<1>2. ASSUME NEW i \in 0 .. Len(s) - 1
      PROVE  /\ s[i + 1] \in S /\ SubSeq(s, 1, i) \in Seq(S)
             /\ SubSeq(s, 1, i + 1) = Append(SubSeq(s, 1, i), s[i + 1])
  <2>1. i + 1 \in 1 .. Len(s)
    BY <1>1
  <2>2. s[i + 1] \in S
    BY <2>1, ElementOfSeq
  <2>3. SubSeq(s, 1, i) \in Seq(S)
    BY <1>1, <2>1
  <2>4. SubSeq(s, 1, i + 1) = Append(SubSeq(s, 1, i), s[i + 1])
    BY <1>1, <2>1
  <2> QED
    BY <2>2, <2>3, <2>4
<1> QED
  BY <1>1, <1>2

LEMMA SequenceInduction ==
  ASSUME NEW S, NEW T, <<>> \in T,
         \A s \in Seq(S), x \in S : s \in T => Append(s, x) \in T
  PROVE  \A s \in Seq(S) : s \in T
<1> SUFFICES ASSUME NEW s \in Seq(S) PROVE s \in T
  OBVIOUS
<1>1. /\ Len(s) \in Nat
      /\ SubSeq(s, 1, 0) = <<>> /\ SubSeq(s, 1, Len(s)) = s
      /\ \A i \in 0 .. Len(s) - 1 :
           /\ s[i + 1] \in S /\ SubSeq(s, 1, i) \in Seq(S)
           /\ SubSeq(s, 1, i + 1) = Append(SubSeq(s, 1, i), s[i + 1])
  BY PrefixesGrow
<1> DEFINE P == {i \in 0 .. Len(s) : SubSeq(s, 1, i) \in T}
<1>2. 0 \in P
  <2>1. 0 \in 0 .. Len(s)
    BY <1>1
  <2>2. SubSeq(s, 1, 0) \in T
    BY <1>1, Zenon
  <2> QED
    BY <2>1, <2>2
<1>3. ASSUME NEW i \in 0 .. Len(s) - 1, i \in P PROVE i + 1 \in P
  <2>1. i + 1 \in 0 .. Len(s)
    BY <1>1
  <2>2. Append(SubSeq(s, 1, i), s[i + 1]) \in T
    BY <1>1, <1>3
  <2> QED
    BY <1>1, <2>1, <2>2
<1> HIDE DEF P
<1>4. \A i \in 0 .. Len(s) : i \in P
  BY <1>1, <1>2, <1>3, Induction
<1>5. Len(s) \in P
  BY <1>1, <1>4
<1> QED
  BY <1>1, <1>5 DEF P

(* A recursive function along a sequence exists: step[i] is what its i-th
   element does to what came before. *)
Iterates(f, start, n, step) ==
  f = [i \in 0 .. n |-> IF i = 0 THEN start ELSE step[i][f[i - 1]]]

LEMMA IteratesExist ==
  ASSUME NEW D, NEW start \in D, NEW n \in Nat,
         NEW step \in [1 .. n -> [D -> D]]
  PROVE  \E f \in [0 .. n -> D] : Iterates(f, start, n, step)
<1> DEFINE P == {m \in 0 .. n :
                   \E f \in [0 .. m -> D] : Iterates(f, start, m, step)}
<1>1. 0 \in P
  <2>1. Iterates([i \in 0 .. 0 |-> start], start, 0, step)
    BY DEF Iterates
  <2>2. [i \in 0 .. 0 |-> start] \in [0 .. 0 -> D]
    OBVIOUS
  <2> QED
    BY <2>1, <2>2
<1>2. ASSUME NEW m \in 0 .. n - 1, m \in P PROVE m + 1 \in P
  <2>1. PICK f \in [0 .. m -> D] : Iterates(f, start, m, step)
    BY <1>2
  <2>2. m \in 0 .. m /\ f[m] \in D /\ step[m + 1][f[m]] \in D
    OBVIOUS
  <2> DEFINE g == [i \in 0 .. m + 1 |->
                     IF i = m + 1 THEN step[m + 1][f[m]] ELSE f[i]]
  <2>3. g \in [0 .. m + 1 -> D]
    BY <2>2
  <2>4. ASSUME NEW i \in 0 .. m + 1
        PROVE  g[i] = IF i = 0 THEN start ELSE step[i][g[i - 1]]
    <3>1. CASE i = m + 1
      <4>1. g[i] = step[i][f[m]] /\ g[m] = f[m] /\ i # 0 /\ i - 1 = m
        BY <3>1
      <4> QED
        BY <4>1
    <3>2. CASE i # m + 1
      <4>1. i \in 0 .. m /\ g[i] = f[i]
        BY <3>2
      <4>2. i # 0 => g[i - 1] = f[i - 1]
        BY <4>1
      <4>3. f[i] = IF i = 0 THEN start ELSE step[i][f[i - 1]]
        BY <2>1, <4>1 DEF Iterates
      <4> QED
        BY <4>1, <4>2, <4>3
    <3> QED
      BY <3>1, <3>2
  <2> HIDE DEF g
  <2>5. Iterates(g, start, m + 1, step)
    <3>1. g = [i \in 0 .. m + 1 |-> g[i]]
      BY <2>3
    <3> QED
      BY <2>4, <3>1 DEF Iterates
  <2> QED
    BY <2>3, <2>5
<1> HIDE DEF P
<1>3. \A m \in 0 .. n : m \in P
  BY <1>1, <1>2, Induction
<1>4. n \in P
  BY <1>3
<1> QED
  BY <1>4 DEF P

(* Two functions that agree at 0, and at i when they do at i - 1, agree. *)
LEMMA Determined ==
  ASSUME NEW n \in Nat, NEW f, NEW g, f[0] = g[0],
         \A i \in 1 .. n : f[i - 1] = g[i - 1] => f[i] = g[i]
  PROVE  f[n] = g[n]
<1> DEFINE T == {i \in 0 .. n : f[i] = g[i]}
<1>1. 0 \in T
  OBVIOUS
<1>2. ASSUME NEW i \in 0 .. n - 1, i \in T PROVE i + 1 \in T
  <2>1. i + 1 \in 1 .. n /\ i + 1 \in 0 .. n /\ (i + 1) - 1 = i
    OBVIOUS
  <2>2. f[i + 1] = g[i + 1]
    BY <1>2, <2>1
  <2> QED
    BY <2>1, <2>2
<1> HIDE DEF T
<1>3. \A i \in 0 .. n : i \in T
  BY <1>1, <1>2, Induction
<1>4. n \in T
  BY <1>3
<1> QED
  BY <1>4 DEF T

----------------------------------------------------------------------------
(* The model's recursive operators, each by what it makes of no element and
   of one element more: the lemmas that induction over a sequence needs. *)
LEMMA ReplacedType ==
  ASSUME NEW sets \in KnownSets, NEW nalu \in NALU
  PROVE  Replaced(sets, nalu) \in KnownSets
<1>1. CASE nalu.kind = "sps"
  <2>1. nalu.v \in Nat
    BY <1>1 DEF NALU, Delimiter
  <2>2. Replaced(sets, nalu) = [sets EXCEPT !.sps = nalu.v]
    BY <1>1 DEF Replaced
  <2> QED
    BY <2>1, <2>2 DEF KnownSets
<1>2. CASE nalu.kind = "pps"
  <2>1. nalu.v \in Nat
    BY <1>2 DEF NALU, Delimiter
  <2>2. Replaced(sets, nalu) = [sets EXCEPT !.pps = nalu.v]
    BY <1>2 DEF Replaced
  <2> QED
    BY <2>1, <2>2 DEF KnownSets
<1>3. CASE nalu.kind \notin {"sps", "pps"}
  BY <1>3 DEF Replaced
<1> QED
  BY <1>1, <1>2, <1>3

(* What a NAL unit does to a decoder, by its kind. *)
LEMMA DecodeParameter ==
  ASSUME NEW d \in Decoder, NEW nalu \in NALU, IsParameter(nalu)
  PROVE  /\ DecodeNALU(d, nalu) = [d EXCEPT !.sets = Replaced(d.sets, nalu)]
         /\ DecodeNALU(d, nalu) \in Decoder
<1>1. DecodeNALU(d, nalu) = [d EXCEPT !.sets = Replaced(d.sets, nalu)]
  BY DEF DecodeNALU, IsParameter, IsPicture
<1>2. Replaced(d.sets, nalu) \in KnownSets
  BY ReplacedType DEF Decoder
<1> QED
  BY <1>1, <1>2 DEF Decoder

Intelligible(d, nalu) ==
  /\ d.sets = [sps |-> nalu.sps, pps |-> nalu.pps]
  /\ IsIDR(nalu) \/ (d.good /\ nalu.v = d.last + 1)

LEMMA DecodePicture ==
  ASSUME NEW d \in Decoder, NEW nalu \in NALU, IsPicture(nalu),
         d.sets.sps # 0, d.sets.pps # 0
  PROVE  /\ DecodeNALU(d, nalu) =
              [d EXCEPT !.last = nalu.v, !.good = Intelligible(d, nalu),
                        !.shown = [n |-> nalu.v, good |-> Intelligible(d, nalu)]]
         /\ DecodeNALU(d, nalu) \in Decoder
<1>1. ~IsParameter(nalu)
  BY DEF IsParameter, IsPicture
<1>2. DecodeNALU(d, nalu) =
        [d EXCEPT !.last = nalu.v, !.good = Intelligible(d, nalu),
                  !.shown = [n |-> nalu.v, good |-> Intelligible(d, nalu)]]
  BY <1>1 DEF DecodeNALU, Intelligible
<1>3. nalu.v \in Nat
  BY DEF NALU, Delimiter
<1>4. Intelligible(d, nalu) \in BOOLEAN
  BY DEF Intelligible
<1>5. ASSUME NEW v \in Nat, NEW b \in BOOLEAN
      PROVE  [d EXCEPT !.last = v, !.good = b,
                       !.shown = [n |-> v, good |-> b]] \in Decoder
  BY DEF Decoder
<1>6. DecodeNALU(d, nalu) \in Decoder
  BY <1>2, <1>3, <1>4, <1>5
<1> QED
  BY <1>2, <1>6

LEMMA DecodeOther ==
  ASSUME NEW d, NEW nalu, ~IsParameter(nalu),
         ~IsPicture(nalu) \/ d.sets.sps = 0 \/ d.sets.pps = 0
  PROVE  DecodeNALU(d, nalu) = d
BY DEF DecodeNALU

LEMMA DecodeType ==
  ASSUME NEW d \in Decoder, NEW nalu \in NALU
  PROVE  DecodeNALU(d, nalu) \in Decoder
BY DecodeParameter, DecodePicture, DecodeOther

----------------------------------------------------------------------------
(* Store, along the NAL units of an access unit. *)
Storing(f, d, nalus) ==
  f = [i \in 0 .. Len(nalus) |->
         IF i = 0 THEN d ELSE DecodeNALU(f[i - 1], nalus[i])]

LEMMA StoreRuns ==
  ASSUME NEW d \in Decoder, NEW nalus \in Seq(NALU)
  PROVE  \E f \in [0 .. Len(nalus) -> Decoder] :
           Storing(f, d, nalus) /\ Store(d, nalus) = f[Len(nalus)]
<1> DEFINE n == Len(nalus)
           step == [i \in 1 .. n |-> [x \in Decoder |-> DecodeNALU(x, nalus[i])]]
           F == CHOOSE f : Storing(f, d, nalus)
<1>1. n \in Nat /\ \A i \in 1 .. n : nalus[i] \in NALU
  BY ElementOfSeq
<1>2. step \in [1 .. n -> [Decoder -> Decoder]]
  BY <1>1, DecodeType
<1>3. ASSUME NEW i \in 1 .. n, NEW x \in Decoder
      PROVE  step[i][x] = DecodeNALU(x, nalus[i])
  OBVIOUS
<1> HIDE DEF step, n
<1>4. PICK g : g \in [0 .. n -> Decoder] /\ Iterates(g, d, n, step)
  BY <1>1, <1>2, IteratesExist
<1>5. ASSUME NEW i \in 0 .. n
      PROVE  g[i] = IF i = 0 THEN d ELSE DecodeNALU(g[i - 1], nalus[i])
  <2>1. i # 0 => i \in 1 .. n /\ g[i - 1] \in Decoder
    BY <1>1, <1>4
  <2> QED
    BY <1>3, <1>4, <2>1 DEF Iterates
<1>6. Storing(g, d, nalus)
  BY <1>4, <1>5 DEF Storing, n
<1>7. Store(d, nalus) = F[n]
  BY Zenon DEF Store, Storing, n
<1>8. Storing(F, d, nalus)
  BY <1>6
<1> HIDE DEF F
<1>9. F[n] = g[n]
  <2>1. F[0] = g[0]
    BY <1>1, <1>6, <1>8 DEF Storing, n
  <2>2. ASSUME NEW i \in 1 .. n, F[i - 1] = g[i - 1] PROVE F[i] = g[i]
    BY <1>1, <1>6, <1>8, <2>2 DEF Storing, n
  <2>3. n \in Nat
    BY <1>1
  <2> QED
    BY <2>1, <2>2, <2>3, Determined
<1>10. Store(d, nalus) = g[n]
  BY <1>1, <1>7, <1>9
<1> QED
  BY <1>4, <1>6, <1>10 DEF n

LEMMA StoreType ==
  ASSUME NEW d \in Decoder, NEW nalus \in Seq(NALU)
  PROVE  Store(d, nalus) \in Decoder
<1>1. PICK f : /\ f \in [0 .. Len(nalus) -> Decoder]
               /\ Store(d, nalus) = f[Len(nalus)]
  BY StoreRuns
<1> QED
  BY <1>1

LEMMA StoreEmpty ==
  ASSUME NEW d \in Decoder PROVE Store(d, <<>>) = d
<1>1. PICK f : Storing(f, d, <<>>) /\ Store(d, <<>>) = f[Len(<<>>)]
  BY StoreRuns, EmptySeq
<1> QED
  BY <1>1 DEF Storing

LEMMA StoreAppend ==
  ASSUME NEW d \in Decoder, NEW nalus \in Seq(NALU), NEW nalu \in NALU
  PROVE  Store(d, Append(nalus, nalu)) = DecodeNALU(Store(d, nalus), nalu)
<1> DEFINE n == Len(nalus)
           all == Append(nalus, nalu)
<1>1. /\ all \in Seq(NALU) /\ n \in Nat /\ Len(all) = n + 1
      /\ all[n + 1] = nalu /\ \A i \in 1 .. n : all[i] = nalus[i]
  OBVIOUS
<1> HIDE DEF all
<1>2. PICK f : Storing(f, d, nalus) /\ Store(d, nalus) = f[n]
  BY StoreRuns
<1> HIDE DEF n
<1>3. PICK g : Storing(g, d, all) /\ Store(d, all) = g[n + 1]
  BY <1>1, StoreRuns
<1>4. f[0] = g[0]
  BY <1>1, <1>2, <1>3 DEF Storing, n
<1>5. ASSUME NEW i \in 1 .. n, f[i - 1] = g[i - 1] PROVE f[i] = g[i]
  <2>1. f[i] = DecodeNALU(f[i - 1], nalus[i])
    BY <1>1, <1>2 DEF Storing, n
  <2>2. g[i] = DecodeNALU(g[i - 1], all[i])
    BY <1>1, <1>3 DEF Storing
  <2> QED
    BY <1>1, <1>5, <2>1, <2>2
<1>6. f[n] = g[n]
  <2>1. n \in Nat
    BY <1>1
  <2> QED
    BY <2>1, <1>4, <1>5, Determined
<1>7. g[n + 1] = DecodeNALU(g[n], nalu)
  BY <1>1, <1>3 DEF Storing
<1> QED
  BY <1>1, <1>2, <1>3, <1>6, <1>7 DEF all

(* Newest. *)
Renewing(f, sets, nalus) ==
  f = [i \in 0 .. Len(nalus) |->
         IF i = 0 THEN sets ELSE Replaced(f[i - 1], nalus[i])]

LEMMA NewestRuns ==
  ASSUME NEW sets \in KnownSets, NEW nalus \in Seq(NALU)
  PROVE  \E f \in [0 .. Len(nalus) -> KnownSets] :
           Renewing(f, sets, nalus) /\ Newest(sets, nalus) = f[Len(nalus)]
<1> DEFINE n == Len(nalus)
           step == [i \in 1 .. n |-> [x \in KnownSets |-> Replaced(x, nalus[i])]]
           F == CHOOSE f : Renewing(f, sets, nalus)
<1>1. n \in Nat /\ \A i \in 1 .. n : nalus[i] \in NALU
  BY ElementOfSeq
<1>2. step \in [1 .. n -> [KnownSets -> KnownSets]]
  BY <1>1, ReplacedType
<1>3. ASSUME NEW i \in 1 .. n, NEW x \in KnownSets
      PROVE  step[i][x] = Replaced(x, nalus[i])
  OBVIOUS
<1> HIDE DEF step, n
<1>4. PICK g : g \in [0 .. n -> KnownSets] /\ Iterates(g, sets, n, step)
  BY <1>1, <1>2, IteratesExist
<1>5. ASSUME NEW i \in 0 .. n
      PROVE  g[i] = IF i = 0 THEN sets ELSE Replaced(g[i - 1], nalus[i])
  <2>1. i # 0 => i \in 1 .. n /\ g[i - 1] \in KnownSets
    BY <1>1, <1>4
  <2> QED
    BY <1>3, <1>4, <2>1 DEF Iterates
<1>6. Renewing(g, sets, nalus)
  BY <1>4, <1>5 DEF Renewing, n
<1>7. Newest(sets, nalus) = F[n]
  BY Zenon DEF Newest, Renewing, n
<1>8. Renewing(F, sets, nalus)
  BY <1>6
<1> HIDE DEF F
<1>9. F[n] = g[n]
  <2>1. F[0] = g[0]
    BY <1>1, <1>6, <1>8 DEF Renewing, n
  <2>2. ASSUME NEW i \in 1 .. n, F[i - 1] = g[i - 1] PROVE F[i] = g[i]
    BY <1>1, <1>6, <1>8, <2>2 DEF Renewing, n
  <2>3. n \in Nat
    BY <1>1
  <2> QED
    BY <2>1, <2>2, <2>3, Determined
<1>10. Newest(sets, nalus) = g[n]
  BY <1>1, <1>7, <1>9
<1> QED
  BY <1>4, <1>6, <1>10 DEF n

LEMMA NewestType ==
  ASSUME NEW sets \in KnownSets, NEW nalus \in Seq(NALU)
  PROVE  Newest(sets, nalus) \in KnownSets
<1>1. PICK f : /\ f \in [0 .. Len(nalus) -> KnownSets]
               /\ Newest(sets, nalus) = f[Len(nalus)]
  BY NewestRuns
<1> QED
  BY <1>1

LEMMA NewestEmpty ==
  ASSUME NEW sets \in KnownSets PROVE Newest(sets, <<>>) = sets
<1>1. PICK f : Renewing(f, sets, <<>>) /\ Newest(sets, <<>>) = f[Len(<<>>)]
  BY NewestRuns, EmptySeq
<1> QED
  BY <1>1 DEF Renewing

LEMMA NewestAppend ==
  ASSUME NEW sets \in KnownSets, NEW nalus \in Seq(NALU), NEW nalu \in NALU
  PROVE  Newest(sets, Append(nalus, nalu)) = Replaced(Newest(sets, nalus), nalu)
<1> DEFINE n == Len(nalus)
           all == Append(nalus, nalu)
<1>1. /\ all \in Seq(NALU) /\ n \in Nat /\ Len(all) = n + 1
      /\ all[n + 1] = nalu /\ \A i \in 1 .. n : all[i] = nalus[i]
  OBVIOUS
<1> HIDE DEF all
<1>2. PICK f : Renewing(f, sets, nalus) /\ Newest(sets, nalus) = f[n]
  BY NewestRuns
<1> HIDE DEF n
<1>3. PICK g : Renewing(g, sets, all) /\ Newest(sets, all) = g[n + 1]
  BY <1>1, NewestRuns
<1>4. f[0] = g[0]
  BY <1>1, <1>2, <1>3 DEF Renewing, n
<1>5. ASSUME NEW i \in 1 .. n, f[i - 1] = g[i - 1] PROVE f[i] = g[i]
  <2>1. f[i] = Replaced(f[i - 1], nalus[i])
    BY <1>1, <1>2 DEF Renewing, n
  <2>2. g[i] = Replaced(g[i - 1], all[i])
    BY <1>1, <1>3 DEF Renewing
  <2> QED
    BY <1>1, <1>5, <2>1, <2>2
<1>6. f[n] = g[n]
  <2>1. n \in Nat
    BY <1>1
  <2> QED
    BY <2>1, <1>4, <1>5, Determined
<1>7. g[n + 1] = Replaced(g[n], nalu)
  BY <1>1, <1>3 DEF Renewing
<1> QED
  BY <1>1, <1>2, <1>3, <1>6, <1>7 DEF all

(* StoreType, of an access unit in rc.au. *)
LEMMA StoreUnitType ==
  ASSUME NEW d \in Decoder, NEW nalus \in AccessUnit
  PROVE  Store(d, nalus) \in Decoder
BY StoreType DEF AccessUnit

(* Consumed, along the access units of rc.au. *)
Consuming(f, d, aus) ==
  f = [i \in 0 .. Len(aus) |->
         IF i = 0 THEN d ELSE Store(f[i - 1], aus[i])]

LEMMA ConsumedRuns ==
  ASSUME NEW d \in Decoder, NEW aus \in Seq(AccessUnit)
  PROVE  \E f \in [0 .. Len(aus) -> Decoder] :
           Consuming(f, d, aus) /\ Consumed(d, aus) = f[Len(aus)]
<1> DEFINE n == Len(aus)
           step == [i \in 1 .. n |-> [x \in Decoder |-> Store(x, aus[i])]]
           F == CHOOSE f : Consuming(f, d, aus)
<1>1. n \in Nat /\ \A i \in 1 .. n : aus[i] \in AccessUnit
  BY ElementOfSeq
<1>2. step \in [1 .. n -> [Decoder -> Decoder]]
  BY <1>1, StoreUnitType
<1>3. ASSUME NEW i \in 1 .. n, NEW x \in Decoder
      PROVE  step[i][x] = Store(x, aus[i])
  OBVIOUS
<1> HIDE DEF step, n
<1>4. PICK g : g \in [0 .. n -> Decoder] /\ Iterates(g, d, n, step)
  BY <1>1, <1>2, IteratesExist
<1>5. ASSUME NEW i \in 0 .. n
      PROVE  g[i] = IF i = 0 THEN d ELSE Store(g[i - 1], aus[i])
  <2>1. i # 0 => i \in 1 .. n /\ g[i - 1] \in Decoder
    BY <1>1, <1>4
  <2> QED
    BY <1>3, <1>4, <2>1 DEF Iterates
<1>6. Consuming(g, d, aus)
  BY <1>4, <1>5 DEF Consuming, n
<1>7. Consumed(d, aus) = F[n]
  BY Zenon DEF Consumed, Consuming, n
<1>8. Consuming(F, d, aus)
  BY <1>6
<1> HIDE DEF F
<1>9. F[n] = g[n]
  <2>1. F[0] = g[0]
    BY <1>1, <1>6, <1>8 DEF Consuming, n
  <2>2. ASSUME NEW i \in 1 .. n, F[i - 1] = g[i - 1] PROVE F[i] = g[i]
    BY <1>1, <1>6, <1>8, <2>2 DEF Consuming, n
  <2>3. n \in Nat
    BY <1>1
  <2> QED
    BY <2>1, <2>2, <2>3, Determined
<1>10. Consumed(d, aus) = g[n]
  BY <1>1, <1>7, <1>9
<1> QED
  BY <1>4, <1>6, <1>10 DEF n

LEMMA ConsumedType ==
  ASSUME NEW d \in Decoder, NEW aus \in Seq(AccessUnit)
  PROVE  Consumed(d, aus) \in Decoder
<1>1. PICK f : /\ f \in [0 .. Len(aus) -> Decoder]
               /\ Consumed(d, aus) = f[Len(aus)]
  BY ConsumedRuns
<1> QED
  BY <1>1

LEMMA ConsumedEmpty ==
  ASSUME NEW d \in Decoder PROVE Consumed(d, <<>>) = d
<1>1. PICK f : Consuming(f, d, <<>>) /\ Consumed(d, <<>>) = f[Len(<<>>)]
  BY ConsumedRuns, EmptySeq
<1> QED
  BY <1>1 DEF Consuming

LEMMA ConsumedAppend ==
  ASSUME NEW d \in Decoder, NEW aus \in Seq(AccessUnit), NEW nalus \in AccessUnit
  PROVE  Consumed(d, Append(aus, nalus)) = Store(Consumed(d, aus), nalus)
<1> DEFINE n == Len(aus)
           all == Append(aus, nalus)
<1>1. /\ all \in Seq(AccessUnit) /\ n \in Nat /\ Len(all) = n + 1
      /\ all[n + 1] = nalus /\ \A i \in 1 .. n : all[i] = aus[i]
  OBVIOUS
<1> HIDE DEF all
<1>2. PICK f : Consuming(f, d, aus) /\ Consumed(d, aus) = f[n]
  BY ConsumedRuns
<1> HIDE DEF n
<1>3. PICK g : Consuming(g, d, all) /\ Consumed(d, all) = g[n + 1]
  BY <1>1, ConsumedRuns
<1>4. f[0] = g[0]
  BY <1>1, <1>2, <1>3 DEF Consuming, n
<1>5. ASSUME NEW i \in 1 .. n, f[i - 1] = g[i - 1] PROVE f[i] = g[i]
  <2>1. f[i] = Store(f[i - 1], aus[i])
    BY <1>1, <1>2 DEF Consuming, n
  <2>2. g[i] = Store(g[i - 1], all[i])
    BY <1>1, <1>3 DEF Consuming
  <2> QED
    BY <1>1, <1>5, <2>1, <2>2
<1>6. f[n] = g[n]
  <2>1. n \in Nat
    BY <1>1
  <2> QED
    BY <2>1, <1>4, <1>5, Determined
<1>7. g[n + 1] = Store(g[n], nalus)
  BY <1>1, <1>3 DEF Consuming
<1> QED
  BY <1>1, <1>2, <1>3, <1>6, <1>7 DEF all

Chosen(kinds, kept, nalu) ==
  IF nalu.kind \in kinds THEN Append(kept, nalu) ELSE kept

LEMMA ChosenType ==
  ASSUME NEW kinds, NEW kept \in AccessUnit, NEW nalu \in NALU
  PROVE  Chosen(kinds, kept, nalu) \in AccessUnit
BY DEF Chosen, AccessUnit

(* Only. *)
Choosing(f, kinds, nalus) ==
  f = [i \in 0 .. Len(nalus) |->
         IF i = 0 THEN <<>> ELSE Chosen(kinds, f[i - 1], nalus[i])]

LEMMA OnlyRuns ==
  ASSUME NEW kinds, NEW nalus \in Seq(NALU)
  PROVE  \E f \in [0 .. Len(nalus) -> AccessUnit] :
           Choosing(f, kinds, nalus) /\ Only(kinds, nalus) = f[Len(nalus)]
<1> DEFINE n == Len(nalus)
           step == [i \in 1 .. n |-> [x \in AccessUnit |-> Chosen(kinds, x, nalus[i])]]
           F == CHOOSE f : Choosing(f, kinds, nalus)
<1>1. n \in Nat /\ \A i \in 1 .. n : nalus[i] \in NALU
  BY ElementOfSeq
<1>2. step \in [1 .. n -> [AccessUnit -> AccessUnit]]
  BY <1>1, ChosenType
<1>3. ASSUME NEW i \in 1 .. n, NEW x \in AccessUnit
      PROVE  step[i][x] = Chosen(kinds, x, nalus[i])
  OBVIOUS
<1> HIDE DEF step, n
<1>4. PICK g : g \in [0 .. n -> AccessUnit] /\ Iterates(g, <<>>, n, step)
  <2>1. <<>> \in AccessUnit
    BY EmptySeq DEF AccessUnit
  <2> QED
    BY <2>1, <1>1, <1>2, IteratesExist
<1>5. ASSUME NEW i \in 0 .. n
      PROVE  g[i] = IF i = 0 THEN <<>> ELSE Chosen(kinds, g[i - 1], nalus[i])
  <2>1. i # 0 => i \in 1 .. n /\ g[i - 1] \in AccessUnit
    BY <1>1, <1>4
  <2> QED
    BY <1>3, <1>4, <2>1 DEF Iterates
<1>6. Choosing(g, kinds, nalus)
  BY <1>4, <1>5 DEF Choosing, n
<1>7. Only(kinds, nalus) = F[n]
  BY Zenon DEF Only, Chosen, Choosing, n
<1>8. Choosing(F, kinds, nalus)
  BY <1>6
<1> HIDE DEF F
<1>9. F[n] = g[n]
  <2>1. F[0] = g[0]
    BY <1>1, <1>6, <1>8 DEF Choosing, n
  <2>2. ASSUME NEW i \in 1 .. n, F[i - 1] = g[i - 1] PROVE F[i] = g[i]
    BY <1>1, <1>6, <1>8, <2>2 DEF Choosing, n
  <2>3. n \in Nat
    BY <1>1
  <2> QED
    BY <2>1, <2>2, <2>3, Determined
<1>10. Only(kinds, nalus) = g[n]
  BY <1>1, <1>7, <1>9
<1> QED
  BY <1>4, <1>6, <1>10 DEF n

LEMMA OnlyType ==
  ASSUME NEW kinds, NEW nalus \in Seq(NALU)
  PROVE  Only(kinds, nalus) \in AccessUnit
<1>1. PICK f : /\ f \in [0 .. Len(nalus) -> AccessUnit]
               /\ Only(kinds, nalus) = f[Len(nalus)]
  BY OnlyRuns
<1> QED
  BY <1>1

LEMMA OnlyEmpty ==
  ASSUME NEW kinds PROVE Only(kinds, <<>>) = <<>>
<1>1. PICK f : Choosing(f, kinds, <<>>) /\ Only(kinds, <<>>) = f[Len(<<>>)]
  BY OnlyRuns, EmptySeq
<1> QED
  BY <1>1 DEF Choosing

LEMMA OnlyAppend ==
  ASSUME NEW kinds, NEW nalus \in Seq(NALU), NEW nalu \in NALU
  PROVE  Only(kinds, Append(nalus, nalu)) =
           Chosen(kinds, Only(kinds, nalus), nalu)
<1> DEFINE n == Len(nalus)
           all == Append(nalus, nalu)
<1>1. /\ all \in Seq(NALU) /\ n \in Nat /\ Len(all) = n + 1
      /\ all[n + 1] = nalu /\ \A i \in 1 .. n : all[i] = nalus[i]
  OBVIOUS
<1> HIDE DEF all
<1>2. PICK f : Choosing(f, kinds, nalus) /\ Only(kinds, nalus) = f[n]
  BY OnlyRuns
<1> HIDE DEF n
<1>3. PICK g : Choosing(g, kinds, all) /\ Only(kinds, all) = g[n + 1]
  BY <1>1, OnlyRuns
<1>4. f[0] = g[0]
  BY <1>1, <1>2, <1>3 DEF Choosing, n
<1>5. ASSUME NEW i \in 1 .. n, f[i - 1] = g[i - 1] PROVE f[i] = g[i]
  <2>1. f[i] = Chosen(kinds, f[i - 1], nalus[i])
    BY <1>1, <1>2 DEF Choosing, n
  <2>2. g[i] = Chosen(kinds, g[i - 1], all[i])
    BY <1>1, <1>3 DEF Choosing
  <2> QED
    BY <1>1, <1>5, <2>1, <2>2
<1>6. f[n] = g[n]
  <2>1. n \in Nat
    BY <1>1
  <2> QED
    BY <2>1, <1>4, <1>5, Determined
<1>7. g[n + 1] = Chosen(kinds, g[n], nalu)
  BY <1>1, <1>3 DEF Choosing
<1> QED
  BY <1>1, <1>2, <1>3, <1>6, <1>7 DEF all

----------------------------------------------------------------------------
LEMMA DecodeSets ==
  ASSUME NEW d \in Decoder, NEW nalu \in NALU
  PROVE  DecodeNALU(d, nalu).sets = Replaced(d.sets, nalu)
<1>1. CASE IsParameter(nalu)
  BY <1>1, DecodeParameter DEF Decoder
<1>2. CASE ~IsParameter(nalu)
  <2>1. Replaced(d.sets, nalu) = d.sets
    BY <1>2 DEF Replaced, IsParameter
  <2>2. DecodeNALU(d, nalu).sets = d.sets
    <3>1. CASE IsPicture(nalu) /\ d.sets.sps # 0 /\ d.sets.pps # 0
      <4> DEFINE a == Intelligible(d, nalu)
      <4>1. DecodeNALU(d, nalu) =
              [d EXCEPT !.last = nalu.v, !.good = a,
                        !.shown = [n |-> nalu.v, good |-> a]]
        BY <3>1, DecodePicture
      <4> HIDE DEF a
      <4> QED
        BY <4>1 DEF Decoder
    <3> QED
      BY <1>2, <3>1, DecodeOther
  <2> QED
    BY <2>1, <2>2
<1> QED
  BY <1>1, <1>2

(* The decoder has the newest parameter sets it was given. *)
LEMMA StoreSets ==
  ASSUME NEW d \in Decoder, NEW nalus \in Seq(NALU)
  PROVE  Store(d, nalus).sets = Newest(d.sets, nalus)
<1> DEFINE T == {s \in Seq(NALU) : Store(d, s).sets = Newest(d.sets, s)}
<1>1. d.sets \in KnownSets
  BY DEF Decoder
<1>2. <<>> \in T
  BY <1>1, EmptySeq, StoreEmpty, NewestEmpty
<1>3. ASSUME NEW s \in Seq(NALU), NEW x \in NALU, s \in T
      PROVE  Append(s, x) \in T
  <2>1. Append(s, x) \in Seq(NALU)
    OBVIOUS
  <2>2. Store(d, Append(s, x)) = DecodeNALU(Store(d, s), x)
    BY StoreAppend
  <2>3. Newest(d.sets, Append(s, x)) = Replaced(Newest(d.sets, s), x)
    BY <1>1, NewestAppend
  <2>4. Store(d, Append(s, x)).sets = Replaced(Store(d, s).sets, x)
    BY <2>2, StoreType, DecodeSets
  <2> QED
    BY <1>3, <2>1, <2>3, <2>4
<1> HIDE DEF T
<1>4. \A s \in Seq(NALU) : s \in T
  BY <1>2, <1>3, SequenceInduction
<1> QED
  BY <1>4 DEF T

(* Decoding the same keeps two decoders the same. *)
LEMMA SameDecode ==
  ASSUME NEW d \in Decoder, NEW e \in Decoder, Same(d, e), NEW nalu \in NALU
  PROVE  Same(DecodeNALU(d, nalu), DecodeNALU(e, nalu))
<1>1. DecodeNALU(d, nalu).sets = DecodeNALU(e, nalu).sets
  BY DecodeSets DEF Same
<1>2. CASE IsParameter(nalu)
  <2>1. DecodeNALU(d, nalu) = [d EXCEPT !.sets = Replaced(d.sets, nalu)]
    BY <1>2, DecodeParameter
  <2>2. DecodeNALU(e, nalu) = [e EXCEPT !.sets = Replaced(e.sets, nalu)]
    BY <1>2, DecodeParameter
  <2> QED
    BY <1>1, <2>1, <2>2 DEF Same, Decoder
<1>3. CASE IsPicture(nalu) /\ d.sets.sps # 0 /\ d.sets.pps # 0
  <2> DEFINE a == Intelligible(d, nalu)
             b == Intelligible(e, nalu)
  <2>1. DecodeNALU(d, nalu) =
          [d EXCEPT !.last = nalu.v, !.good = a,
                    !.shown = [n |-> nalu.v, good |-> a]]
    BY <1>3, DecodePicture
  <2>2. DecodeNALU(e, nalu) =
          [e EXCEPT !.last = nalu.v, !.good = b,
                    !.shown = [n |-> nalu.v, good |-> b]]
    BY <1>3, DecodePicture DEF Same
  <2>3. a \in BOOLEAN /\ b \in BOOLEAN /\ (b => a)
    BY DEF Intelligible, Same
  <2> HIDE DEF a, b
  <2>4. /\ DecodeNALU(d, nalu).good = a /\ DecodeNALU(d, nalu).last = nalu.v
        /\ DecodeNALU(d, nalu).shown = [n |-> nalu.v, good |-> a]
    BY <2>1 DEF Decoder
  <2>5. /\ DecodeNALU(e, nalu).good = b /\ DecodeNALU(e, nalu).last = nalu.v
        /\ DecodeNALU(e, nalu).shown = [n |-> nalu.v, good |-> b]
    BY <2>2 DEF Decoder
  <2>6. b => a = b
    BY <2>3
  <2> QED
    BY <1>1, <2>4, <2>5, <2>6 DEF Same
<1>4. CASE ~IsParameter(nalu) /\ ~(IsPicture(nalu) /\ Complete(d.sets))
  <2>1. DecodeNALU(d, nalu) = d /\ DecodeNALU(e, nalu) = e
    BY <1>4, DecodeOther DEF Same, Complete
  <2> QED
    BY <2>1
<1> QED
  BY <1>2, <1>3, <1>4 DEF Complete

LEMMA SameStore ==
  ASSUME NEW d \in Decoder, NEW e \in Decoder, Same(d, e),
         NEW nalus \in Seq(NALU)
  PROVE  Same(Store(d, nalus), Store(e, nalus))
<1> DEFINE T == {s \in Seq(NALU) : Same(Store(d, s), Store(e, s))}
<1>1. <<>> \in T
  BY EmptySeq, StoreEmpty
<1>2. ASSUME NEW s \in Seq(NALU), NEW x \in NALU, s \in T
      PROVE  Append(s, x) \in T
  <2>1. Append(s, x) \in Seq(NALU)
    OBVIOUS
  <2>2. /\ Store(d, Append(s, x)) = DecodeNALU(Store(d, s), x)
        /\ Store(e, Append(s, x)) = DecodeNALU(Store(e, s), x)
        /\ Store(d, s) \in Decoder /\ Store(e, s) \in Decoder
    BY StoreAppend, StoreType
  <2>3. Same(Store(d, s), Store(e, s))
    BY <1>2
  <2> QED
    BY <2>1, <2>2, <2>3, SameDecode
<1> HIDE DEF T
<1>3. \A s \in Seq(NALU) : s \in T
  BY <1>1, <1>2, SequenceInduction
<1> QED
  BY <1>3 DEF T

(* A decoder that shows a picture well has both parameter sets. *)
LEMMA SeesDecode ==
  ASSUME NEW d \in Decoder, Sees(d), NEW nalu \in NALU
  PROVE  Sees(DecodeNALU(d, nalu))
<1>1. CASE IsParameter(nalu)
  <2>1. DecodeNALU(d, nalu).good = d.good
    BY <1>1, DecodeParameter DEF Decoder
  <2>2. Complete(d.sets) => Complete(Replaced(d.sets, nalu))
    <3>1. d.sets \in KnownSets /\ nalu.v # 0
      BY <1>1 DEF Decoder, NALU, IsParameter, Delimiter
    <3> QED
      BY <1>1, <3>1 DEF Complete, Replaced, IsParameter, KnownSets
  <2> QED
    BY <2>1, <2>2, DecodeSets DEF Sees
<1>2. CASE ~IsParameter(nalu)
  <2>1. DecodeNALU(d, nalu).sets = d.sets
    BY <1>2, DecodeSets DEF Replaced, IsParameter
  <2>2. CASE Complete(d.sets)
    BY <2>1, <2>2 DEF Sees
  <2>3. CASE ~Complete(d.sets)
    <3>1. DecodeNALU(d, nalu) = d
      BY <1>2, <2>3, DecodeOther DEF Complete
    <3> QED
      BY <3>1
  <2> QED
    BY <2>2, <2>3
<1> QED
  BY <1>1, <1>2

LEMMA SeesStore ==
  ASSUME NEW d \in Decoder, Sees(d), NEW nalus \in Seq(NALU)
  PROVE  Sees(Store(d, nalus))
<1> DEFINE T == {s \in Seq(NALU) : Sees(Store(d, s))}
<1>1. <<>> \in T
  BY EmptySeq, StoreEmpty
<1>2. ASSUME NEW s \in Seq(NALU), NEW x \in NALU, s \in T
      PROVE  Append(s, x) \in T
  <2>1. Append(s, x) \in Seq(NALU) /\ Sees(Store(d, s))
    BY <1>2
  <2> QED
    BY <2>1, StoreAppend, StoreType, SeesDecode
<1> HIDE DEF T
<1>3. \A s \in Seq(NALU) : s \in T
  BY <1>1, <1>2, SequenceInduction
<1> QED
  BY <1>3 DEF T

(* What a decoder makes of an IDR picture depends on its parameter sets alone. *)
LEMMA FreshPicture ==
  ASSUME NEW d \in Decoder, NEW e \in Decoder, d.sets = e.sets, Sees(e),
         NEW idr \in NALU, IsIDR(idr)
  PROVE  Same(DecodeNALU(d, idr), DecodeNALU(e, idr))
<1>1. IsPicture(idr) /\ ~IsParameter(idr)
  BY DEF IsPicture, IsIDR, IsParameter
<1>2. CASE Complete(d.sets)
  <2> DEFINE a == Intelligible(d, idr)
  <2>1. a \in BOOLEAN /\ Intelligible(e, idr) = a
    BY DEF Intelligible
  <2>2. DecodeNALU(d, idr) =
          [d EXCEPT !.last = idr.v, !.good = a,
                    !.shown = [n |-> idr.v, good |-> a]]
    BY <1>1, <1>2, DecodePicture DEF Complete
  <2>3. DecodeNALU(e, idr) =
          [e EXCEPT !.last = idr.v, !.good = a,
                    !.shown = [n |-> idr.v, good |-> a]]
    BY <1>1, <1>2, <2>1, DecodePicture DEF Complete
  <2> HIDE DEF a
  <2>4. /\ DecodeNALU(d, idr).good = a /\ DecodeNALU(d, idr).last = idr.v
        /\ DecodeNALU(d, idr).shown = [n |-> idr.v, good |-> a]
        /\ DecodeNALU(d, idr).sets = d.sets
    BY <2>2 DEF Decoder
  <2>5. /\ DecodeNALU(e, idr).good = a /\ DecodeNALU(e, idr).last = idr.v
        /\ DecodeNALU(e, idr).shown = [n |-> idr.v, good |-> a]
        /\ DecodeNALU(e, idr).sets = e.sets
    BY <2>3 DEF Decoder
  <2> QED
    BY <2>4, <2>5 DEF Same
<1>3. CASE ~Complete(d.sets)
  <2>1. DecodeNALU(d, idr) = d /\ DecodeNALU(e, idr) = e
    BY <1>1, <1>3, DecodeOther DEF Complete
  <2>2. ~e.good
    BY <1>3 DEF Sees
  <2> QED
    BY <2>1, <2>2 DEF Same
<1> QED
  BY <1>2, <1>3

----------------------------------------------------------------------------
LEMMA ToSetEmpty == ToSet(<<>>) = {}
BY DEF ToSet

LEMMA ToSetOne == ASSUME NEW x PROVE ToSet(<<x>>) = {x}
BY DEF ToSet

LEMMA BareConcat ==
  ASSUME NEW s \in Seq(NALU), NEW t \in Seq(NALU), Bare(s), Bare(t)
  PROVE  s \o t \in Seq(NALU) /\ Bare(s \o t)
<1>1. s \o t \in Seq(NALU) /\ Len(s \o t) = Len(s) + Len(t)
  BY ConcatProperties
<1>2. ASSUME NEW i \in 1 .. Len(s \o t) PROVE ~IsPicture((s \o t)[i])
  BY <1>1 DEF Bare
<1> QED
  BY <1>1, <1>2 DEF Bare

(* What the camera sends keeps its type and is whole. *)
LEMMA ParametersType ==
  ASSUME NEW sets \in KnownSets
  PROVE  ParametersOf(sets) \in Seq(NALU) /\ Bare(ParametersOf(sets))
<1> DEFINE sps == IF sets.sps # 0 THEN <<Parameter("sps", sets.sps)>> ELSE <<>>
           pps == IF sets.pps # 0 THEN <<Parameter("pps", sets.pps)>> ELSE <<>>
<1>1. /\ sets.sps # 0 => Parameter("sps", sets.sps) \in NALU
      /\ sets.pps # 0 => Parameter("pps", sets.pps) \in NALU
      /\ ~IsPicture(Parameter("sps", sets.sps))
      /\ ~IsPicture(Parameter("pps", sets.pps))
  BY DEF KnownSets, NALU, Parameter, IsPicture
<1>2. sps \in Seq(NALU) /\ Bare(sps)
  BY <1>1 DEF Bare
<1>3. pps \in Seq(NALU) /\ Bare(pps)
  BY <1>1 DEF Bare
<1> HIDE DEF sps, pps
<1>4. sps \o pps \in Seq(NALU) /\ Bare(sps \o pps)
  BY <1>2, <1>3, BareConcat
<1> QED
  BY <1>4 DEF ParametersOf, sps, pps

LEMMA PictureType ==
  ASSUME NEW kind \in {"idr", "slice"}, NEW n \in Nat,
         NEW sets \in ParameterSets
  PROVE  /\ Picture(kind, n, sets) \in NALU
         /\ IsPicture(Picture(kind, n, sets))
<1>1. sets.sps \in Nat \ {0} /\ sets.pps \in Nat \ {0}
  BY DEF ParameterSets
<1>2. Picture(kind, n, sets)
        \in [kind : {"idr", "slice"}, v : Nat, sps : Nat \ {0},
             pps : Nat \ {0}]
  BY <1>1 DEF Picture
<1>3. IsPicture(Picture(kind, n, sets))
  BY DEF Picture, IsPicture
<1> QED
  BY <1>2, <1>3 DEF NALU

LEMMA PackSingle ==
  ASSUME config.layout = "single", config.marks \in BOOLEAN,
         NEW n \in Nat, NEW head \in Seq(NALU), NEW picture \in NALU,
         Bare(head), IsPicture(picture)
  PROVE  /\ \E before : Whole(Packetised(n, head, picture), before, n)
         /\ LastCloses(Packetised(n, head, picture))
<1> DEFINE L == Len(head)
           U == Append(head, picture)
           P == Packetised(n, head, picture)
           B == [i \in 1 .. L + 1 |-> SubSeq(head, 1, i - 1)]
           pkt(nalus, last) ==
             [ts |-> n, part |-> "whole", nalus |-> nalus,
              marker |-> last /\ config.marks, unit |-> U]
           front == [i \in 1 .. L |-> pkt(<<head[i]>>, FALSE)]
<1>1. L \in Nat /\ DOMAIN head = 1 .. L /\ U \in Seq(NALU)
  OBVIOUS
<1>2. P = front \o <<pkt(<<picture>>, TRUE)>>
  BY <1>1 DEF Packetised
<1>3. /\ \A i \in 1 .. L : pkt(<<head[i]>>, FALSE) \in Packet
      /\ pkt(<<picture>>, TRUE) \in Packet
  <2>1. \A i \in 1 .. L : <<head[i]>> \in Seq(NALU)
    <3>1. \A i \in 1 .. L : head[i] \in NALU
      BY <1>1
    <3> QED
      BY <3>1
  <2>2. <<picture>> \in Seq(NALU)
    OBVIOUS
  <2> HIDE DEF U
  <2>3. ASSUME NEW s \in Seq(NALU), NEW m \in BOOLEAN PROVE pkt(s, m) \in Packet
    BY <1>1, <2>3 DEF Packet
  <2> QED
    BY <2>1, <2>2, <2>3
<1> HIDE DEF P, U
<1>4. front \in Seq(Packet) /\ Len(front) = L
  BY <1>1, <1>3
<1> HIDE DEF front
<1>5. /\ P \in Seq(Packet) /\ Len(P) = L + 1
      /\ \A i \in 1 .. L : P[i] = front[i]
      /\ P[L + 1] = pkt(<<picture>>, TRUE)
  <2> DEFINE final == pkt(<<picture>>, TRUE)
  <2>1. final \in Packet
    BY <1>3
  <2>2. P = front \o <<final>>
    BY <1>2
  <2> HIDE DEF final, L
  <2>3. P = Append(front, final)
    BY <2>1, <2>2, <1>4, AppendIsConcat
  <2>4. /\ Append(front, final) \in Seq(Packet)
        /\ Len(Append(front, final)) = Len(front) + 1
        /\ \A i \in 1 .. Len(front) : Append(front, final)[i] = front[i]
        /\ Append(front, final)[Len(front) + 1] = final
    BY <2>1, <1>4, AppendProperties
  <2> QED
    BY <2>3, <2>4, <1>1, <1>4 DEF final
<1>6. \A i \in 1 .. L : P[i] = pkt(<<head[i]>>, FALSE)
  BY <1>5 DEF front
<1>7. \A i \in 1 .. L : SubSeq(head, 1, i) = SubSeq(head, 1, i - 1) \o <<head[i]>>
  BY <1>1
<1>8. SubSeq(head, 1, L) \o <<picture>> = U
  BY <1>1, SubSeqFull, AppendIsConcat DEF U
<1>9. B[1] = <<>>
  BY <1>1
<1>10. \A i \in 1 .. L : B[i + 1] = B[i] \o <<head[i]>>
  BY <1>1, <1>7
<1>11. B[L + 1] \o <<picture>> = U
  BY <1>1, <1>8
<1> HIDE DEF B, L
<1>12. Whole(P, B, n)
  <2>1. ASSUME NEW i \in 1 .. L
        PROVE  /\ P[i].ts = n /\ P[i].part = "whole" /\ ~P[i].marker
               /\ P[i].nalus = <<head[i]>>
    <3>1. P[i] = pkt(<<head[i]>>, FALSE)
      BY <1>6
    <3>2. P[i].ts = n /\ P[i].part = "whole"
      BY <3>1
    <3>3. P[i].nalus = <<head[i]>>
      BY <3>1
    <3>4. ~P[i].marker
      <4>1. P[i].marker = (FALSE /\ config.marks)
        BY <3>1
      <4> QED
        BY <4>1
    <3> QED
      BY <3>2, <3>3, <3>4
  <2>2. /\ P[L + 1].ts = n /\ P[L + 1].part = "whole"
        /\ P[L + 1].nalus = <<picture>> /\ P[L + 1].unit = U
    BY <1>5
  <2> HIDE DEF pkt
  <2>3. P \in Seq(Packet) /\ P # <<>> /\ L \in Nat
    BY <1>1, <1>5
  <2>4. ASSUME NEW i \in 1 .. L + 1, i < L + 1
        PROVE  /\ ~P[i].marker /\ B[i + 1] = B[i] \o P[i].nalus
               /\ P[i].part = "whole" /\ P[i + 1].part = "whole"
    <3>1. i \in 1 .. L /\ (i + 1 \in 1 .. L \/ i + 1 = L + 1)
      BY <2>3, <2>4
    <3> QED
      BY <2>1, <2>2, <3>1, <1>10
  <2>5. P[1].part # "end"
    BY <2>1, <2>2, <2>3
  <2>6. \A i \in 1 .. L + 1 : P[i].ts = n
    BY <2>1, <2>2, <2>3
  <2> QED
    BY <2>2, <2>3, <2>4, <2>5, <2>6, <1>5, <1>9, <1>11 DEF Whole
<1>13. LastCloses(P)
  <2>1. ASSUME NEW i \in 1 .. L PROVE Shaped(P[i]) /\ ~Closing(P[i])
    <3>1. P[i].part = "whole" /\ P[i].nalus = <<head[i]>>
      <4>1. P[i] = pkt(<<head[i]>>, FALSE)
        BY <1>6
      <4>2. P[i].part = "whole"
        BY <4>1
      <4>3. P[i].nalus = <<head[i]>>
        BY <4>1
      <4> QED
        BY <4>2, <4>3
    <3>2. ~IsPicture(head[i])
      BY <1>1 DEF Bare
    <3> QED
      BY <3>1, <3>2 DEF Shaped, Closing, Bare
  <2>2. Shaped(P[L + 1])
    BY <1>5 DEF Shaped
  <2> QED
    BY <1>1, <1>5, <2>1, <2>2 DEF LastCloses
<1> QED
  BY <1>12, <1>13 DEF P

LEMMA PackAggregated ==
  ASSUME config.layout = "aggregated", config.marks \in BOOLEAN,
         NEW n \in Nat, NEW head \in Seq(NALU), NEW picture \in NALU,
         Bare(head), IsPicture(picture)
  PROVE  /\ \E before : Whole(Packetised(n, head, picture), before, n)
         /\ LastCloses(Packetised(n, head, picture))
<1> DEFINE leading == <<Delimiter>> \o head
           U == Append(leading, picture)
           P == Packetised(n, head, picture)
           B == <<<<>>, leading, leading>>
           pkt(part, nalus, last) ==
             [ts |-> n, part |-> part, nalus |-> nalus,
              marker |-> last /\ config.marks, unit |-> U]
<1>1. /\ leading \in Seq(NALU) /\ <<picture>> \in Seq(NALU)
      /\ U \in Seq(NALU) /\ U = leading \o <<picture>>
  <2>1. Delimiter \in NALU
    BY DEF Delimiter, NALU
  <2>2. <<Delimiter>> \in Seq(NALU)
    BY <2>1
  <2>3. leading \in Seq(NALU)
    BY <2>2
  <2> HIDE DEF leading
  <2> QED
    BY <2>3
<1>2. P = <<pkt("whole", leading, FALSE), pkt("start", <<picture>>, FALSE),
            pkt("end", <<picture>>, TRUE)>>
  BY DEF Packetised
<1>3. <<>> \o leading = leading
  BY <1>1
<1>0. Bare(leading)
  <2>1. Delimiter \in NALU /\ ~IsPicture(Delimiter)
    BY DEF Delimiter, NALU, IsPicture
  <2>2. <<Delimiter>> \in Seq(NALU) /\ Bare(<<Delimiter>>)
    BY <2>1 DEF Bare
  <2> QED
    BY <2>2, BareConcat
<1> HIDE DEF leading, P, U
<1>4. /\ pkt("whole", leading, FALSE) \in Packet
      /\ pkt("start", <<picture>>, FALSE) \in Packet
      /\ pkt("end", <<picture>>, TRUE) \in Packet
  BY <1>1 DEF Packet
<1>5. P \in Seq(Packet) /\ Len(P) = 3
  BY <1>2, <1>4
<1>6. Whole(P, B, n)
  <2>1. /\ P[1].ts = n /\ P[1].part = "whole" /\ P[1].nalus = leading
        /\ ~P[1].marker
    BY <1>2
  <2>2. /\ P[2].ts = n /\ P[2].part = "start" /\ P[2].nalus = <<picture>>
        /\ ~P[2].marker
    BY <1>2
  <2>3. /\ P[3].ts = n /\ P[3].part = "end" /\ P[3].nalus = <<picture>>
        /\ P[3].unit = U
    BY <1>2
  <2>4. B[1] = <<>> /\ B[2] = leading /\ B[3] = leading
    OBVIOUS
  <2> HIDE DEF B, pkt
  <2>5. P # <<>> /\ 1 .. Len(P) = {1, 2, 3}
    <3>1. Len(P) = 3 /\ 1 .. 3 = {1, 2, 3} /\ Len(<<>>) = 0
      BY <1>5
    <3>2. Len(P) # Len(<<>>)
      BY <3>1
    <3>3. P # <<>>
      BY <3>2, Zenon
    <3> QED
      BY <3>1, <3>3
  <2>6. \A i \in {1, 2, 3} :
          /\ P[i].ts = n
          /\ i < 3 =>
               /\ ~P[i].marker
               /\ B[i + 1] = IF P[i].part = "start" THEN B[i]
                             ELSE B[i] \o P[i].nalus
               /\ P[i + 1].part = "end" =>
                    P[i].part = "start" /\ P[i].nalus = P[i + 1].nalus
          /\ i = 3 => P[i].part # "start" /\ B[i] \o P[i].nalus = P[i].unit
    <3>1. B[2] = B[1] \o P[1].nalus /\ B[3] = B[2]
      BY <2>1, <2>4, <1>3
    <3>2. B[3] \o P[3].nalus = P[3].unit
      BY <2>3, <2>4, <1>1
    <3> DEFINE Good(i) ==
          /\ P[i].ts = n
          /\ i < 3 =>
               /\ ~P[i].marker
               /\ B[i + 1] = IF P[i].part = "start" THEN B[i]
                             ELSE B[i] \o P[i].nalus
               /\ P[i + 1].part = "end" =>
                    P[i].part = "start" /\ P[i].nalus = P[i + 1].nalus
          /\ i = 3 => P[i].part # "start" /\ B[i] \o P[i].nalus = P[i].unit
    <3>3. Good(1)
      BY <2>1, <2>2, <3>1
    <3>4. Good(2)
      <4>1. 2 + 1 = 3 /\ B[3] = B[2] /\ P[2].nalus = P[3].nalus
        BY <2>2, <2>3, <3>1
      <4> QED
        BY <2>2, <4>1
    <3>5. Good(3)
      BY <2>3, <3>2
    <3> HIDE DEF Good
    <3>6. \A i \in {1, 2, 3} : Good(i)
      BY <3>3, <3>4, <3>5
    <3> QED
      BY <3>6 DEF Good
  <2> QED
    BY <2>1, <2>4, <2>5, <2>6, <1>5 DEF Whole
<1>7. LastCloses(P)
  <2>1. Shaped(P[1]) /\ ~Closing(P[1])
    BY <1>0, <1>2 DEF Shaped, Closing
  <2>2. Shaped(P[2]) /\ ~Closing(P[2])
    BY <1>2 DEF Shaped, Closing
  <2>3. Shaped(P[3])
    BY <1>2 DEF Shaped
  <2> QED
    BY <1>5, <2>1, <2>2, <2>3 DEF LastCloses
<1> QED
  BY <1>6, <1>7 DEF P

LEMMA CodeSends ==
  ASSUME Types, Code
  PROVE  /\ units' = units + 1 /\ coded' \in ParameterSets
         /\ outgoing' \in Seq(Packet) /\ LastCloses(outgoing')
         /\ \E before : Whole(outgoing', before, units')
<1> DEFINE Leading(hd) == hd \in Seq(NALU) /\ Bare(hd)
           Coded(pic) == pic \in NALU /\ IsPicture(pic)
<1>1. units' = units + 1 /\ units' \in Nat
  BY DEF Types, Code
<1>2. /\ coded' \in ParameterSets
      /\ \E hd, pic : /\ Leading(hd) /\ Coded(pic)
                      /\ outgoing' = Packetised(units', hd, pic)
  <2>1. CASE /\ outgoing' = Packetised(units', <<>>,
                                      Picture("slice", units', coded))
             /\ UNCHANGED coded
    <3>1. Coded(Picture("slice", units', coded))
      BY <1>1, PictureType DEF Types
    <3>2. Leading(<<>>)
      BY EmptySeq DEF Bare
    <3> QED
      BY <2>1, <3>1, <3>2 DEF Types
  <2>2. ASSUME NEW sets \in {coded, [coded EXCEPT !.sps = 3 - @],
                             [coded EXCEPT !.pps = 3 - @]},
               NEW hd \in {<<>>, ParametersOf(sets)}, coded' = sets,
               outgoing' = Packetised(units', hd,
                                      Picture("idr", units', sets))
        PROVE  /\ coded' \in ParameterSets
               /\ \E head, pic : /\ Leading(head) /\ Coded(pic)
                                 /\ outgoing' = Packetised(units', head, pic)
    <3>1. sets \in ParameterSets /\ sets \in KnownSets
      BY DEF Types, ParameterSets, KnownSets
    <3>2. Coded(Picture("idr", units', sets))
      BY <3>1, <1>1, PictureType
    <3>3. Leading(hd)
      <4>1. Leading(ParametersOf(sets))
        BY <3>1, ParametersType
      <4>2. Leading(<<>>)
        BY EmptySeq DEF Bare
      <4> QED
        BY <4>1, <4>2
    <3> QED
      BY <2>2, <3>1, <3>2, <3>3
  <2> QED
    BY <2>1, <2>2 DEF Code
<1>3. PICK head, picture :
        /\ Leading(head) /\ Coded(picture)
        /\ outgoing' = Packetised(units', head, picture)
  BY <1>2
<1>4. /\ \E before : Whole(outgoing', before, units')
      /\ LastCloses(outgoing')
  BY <1>1, <1>3, PackSingle, PackAggregated DEF Types
<1>5. outgoing' \in Seq(Packet)
  BY <1>4 DEF Whole
<1> QED
  BY <1>1, <1>2, <1>4, <1>5

(* When a packet leaves, it is the next one of its access unit. *)
LEMMA Leaves ==
  ASSUME Types, NEW P, NEW before, NEW k, Sent(P, before, k),
         outgoing # <<>>, outgoing' = Tail(outgoing), units' = units
  PROVE  /\ k + 1 \in 1 .. Len(P)
         /\ Head(outgoing) = P[k + 1]
         /\ P[k + 1] \in Packet /\ P[k + 1].ts = units
         /\ outgoing' \in Seq(Packet)
         /\ Sent(P, before, k + 1)'
<1>1. /\ outgoing \in Seq(Packet) /\ P \in Seq(Packet) /\ Len(P) \in Nat
      /\ k \in 0 .. Len(P) /\ Len(outgoing) = Len(P) - k
  BY DEF Types, Sent, Whole
<1>2. Len(outgoing) > 0
  BY <1>1
<1>3. /\ outgoing' \in Seq(Packet) /\ Len(outgoing') = Len(outgoing) - 1
      /\ Head(outgoing) = outgoing[1]
      /\ \A i \in 1 .. Len(outgoing') : outgoing'[i] = outgoing[i + 1]
  BY <1>1, <1>2
<1>4. k + 1 \in 1 .. Len(P) /\ Head(outgoing) = P[k + 1]
  BY <1>1, <1>2, <1>3 DEF Sent
<1>5. P[k + 1] \in Packet /\ P[k + 1].ts = units
  <2>1. P[k + 1] \in Packet
    BY <1>1, <1>4, ElementOfSeq
  <2> QED
    BY <2>1, <1>4 DEF Sent, Whole
<1>6. \A i \in 1 .. Len(outgoing') : outgoing'[i] = P[k + 1 + i]
  BY <1>1, <1>2, <1>3 DEF Sent
<1> QED
  BY <1>1, <1>2, <1>3, <1>4, <1>5, <1>6 DEF Sent

(* What is damaged stays damaged. *)
LEMMA IntactBefore ==
  ASSUME damaged \subseteq damaged', NEW n
  PROVE  Intact(n)' => Intact(n)
BY DEF Intact

(* What the depacketisers make of the packet q that was held back. *)
LEMMA Depacketised ==
  ASSUME NEW q \in Packet, NEW h, Depacketise(Marked(q, h))
  PROVE  /\ q.part = "start" =>
              /\ fragments' = q.nalus /\ frameBuffer' = frameBuffer
              /\ received'.nalus = <<>> /\ received'.ts = received.ts
         /\ q.part # "start" /\ (q.part = "end" => fragments = q.nalus) =>
              /\ q.marker \/ q.ts # h.ts =>
                   /\ frameBuffer' = <<>>
                   /\ received'.nalus = frameBuffer \o q.nalus
                   /\ received'.ts = q.ts /\ received'.unit = q.unit
              /\ ~(q.marker \/ q.ts # h.ts) =>
                   /\ frameBuffer' = frameBuffer \o q.nalus
                   /\ received'.nalus = <<>> /\ received'.ts = received.ts
         /\ \/ received'.nalus = <<>> /\ received'.ts = received.ts
            \/ received'.ts = q.ts
<1>1. PICK m : m = Marked(q, h)
  OBVIOUS
<1>2. /\ m.ts = q.ts /\ m.part = q.part /\ m.nalus = q.nalus
      /\ m.unit = q.unit
  BY <1>1 DEF Packet, Marked
<1>3. m.marker = (q.marker \/ q.ts # h.ts)
  BY <1>1 DEF Packet, Marked
<1>4. Depacketise(m)
  BY <1>1
<1>5. NoUnit.nalus = <<>> /\ [NoUnit EXCEPT !.ts = received.ts].nalus = <<>>
      /\ [NoUnit EXCEPT !.ts = received.ts].ts = received.ts
  BY DEF NoUnit
<1>6. CASE q.part = "start"
  BY <1>2, <1>4, <1>5, <1>6 DEF Depacketise, Completes, Gathered
<1>7. CASE q.part # "start" /\ ~(q.part = "end" => fragments = q.nalus)
  BY <1>2, <1>4, <1>5, <1>7 DEF Depacketise, Completes, Gathered, Refused
<1>8. CASE /\ q.part # "start" /\ (q.part = "end" => fragments = q.nalus)
           /\ q.marker \/ q.ts # h.ts
  <2>1. Completes(m) /\ Gathered(m) = frameBuffer \o q.nalus
    BY <1>2, <1>3, <1>8 DEF Completes, Gathered, Refused
  <2> QED
    BY <1>2, <1>4, <1>8, <2>1 DEF Depacketise
<1>9. CASE /\ q.part # "start" /\ (q.part = "end" => fragments = q.nalus)
           /\ ~(q.marker \/ q.ts # h.ts)
  <2>1. ~Completes(m) /\ Gathered(m) = frameBuffer \o q.nalus
    BY <1>2, <1>3, <1>9 DEF Completes, Gathered, Refused
  <2> QED
    BY <1>2, <1>4, <1>5, <1>9, <2>1 DEF Depacketise
<1> QED
  BY <1>6, <1>7, <1>8, <1>9

(* A packet that arrives is held back; what it needs to have been done with
   the one before is its part of Held. *)
LEMMA HoldsBack ==
  ASSUME NEW P, NEW before, NEW k \in Nat, NEW h,
         h = P[k + 1], h.ts = units', pendingPkt' = <<h>>,
         units' \notin damaged' /\ h.part = "end" => fragments' = h.nalus,
         Intact(units)' => frameBuffer' = before[k + 1]
  PROVE  Held(P, before, k + 1)'
<1>1. ToSet(pendingPkt') = {h}
  BY ToSetOne
<1>2. k + 1 \in 1 .. k + 1
  OBVIOUS
<1>3. HeldOfLast(h, P, before, k + 1)'
  BY <1>2 DEF HeldOfLast
<1>4. pendingPkt' # <<>> /\ Head(pendingPkt') = h
  OBVIOUS
<1> QED
  BY <1>1, <1>3, <1>4 DEF Held

(* One packet arrives, another one is done with. *)
LEMMA ArriveStep ==
  ASSUME UnitsInv, Arrive
  PROVE  UnitsInv'
<1>1. /\ outgoing # <<>> /\ outgoing' = Tail(outgoing)
      /\ pendingPkt' = <<Head(outgoing)>>
      /\ UNCHANGED <<config, coded, units>>
      /\ units \in Nat /\ units # 0
  BY DEF Arrive, UnitsInv, Types, Queued
<1>u. PICK u \in Nat : units = u /\ units' = u /\ u # 0
  BY <1>1
<1>2. PICK P, before, k : Sent(P, before, k) /\ Held(P, before, k)
  BY <1>1 DEF UnitsInv, Queued
<1>3. PICK h \in Packet : h = P[k + 1] /\ Head(outgoing) = h /\ h.ts = u
  BY <1>1, <1>u, <1>2, Leaves DEF UnitsInv
<1>4. outgoing' \in Seq(Packet) /\ Sent(P, before, k + 1)'
  BY <1>1, <1>2, Leaves DEF UnitsInv
<1>5. k \in Nat /\ P[1].part # "end" /\ before[1] = <<>>
  BY <1>2 DEF Sent, Whole, UnitsInv, Types
<1>6. ToSet(pendingPkt') = {h} /\ pendingPkt' = <<h>>
  BY <1>1, <1>3, ToSetOne
<1> DEFINE Goal ==
      /\ received'.ts \in Nat
      /\ received'.nalus # <<>> /\ Intact(received.ts)'
           => received'.nalus = received'.unit
      /\ u > 1 /\ Intact(u - 1)' => received'.ts >= u - 1
      /\ u \notin damaged' /\ h.part = "end" => fragments' = h.nalus
      /\ Intact(u)' => frameBuffer' = before[k + 1]
<1>7. Goal => UnitsInv'
  <2> SUFFICES ASSUME Goal PROVE UnitsInv'
    OBVIOUS
  <2>1. Held(P, before, k + 1)'
    BY <1>u, <1>3, <1>5, <1>6, HoldsBack
  <2>2. Types'
    BY <1>1, <1>3, <1>4, <1>6 DEF UnitsInv, Types
  <2>3. Queued'
    BY <1>1, <1>4, <2>1 DEF Queued
  <2>4. Delivered'
    BY <1>u, <1>3, <1>6 DEF Delivered
  <2> QED
    BY <2>2, <2>3, <2>4 DEF UnitsInv
<1>8. u > 1 /\ u - 1 \notin damaged
        => pendingPkt # <<>> /\ Head(pendingPkt).ts \in {u - 1, u}
  BY <1>u, <1>1, <1>2 DEF Held
(* The first packet of an undamaged access unit finds nothing buffered. *)
<1>9. k = 0 => h.part # "end" /\ before[k + 1] = <<>>
  BY <1>3, <1>5
<1>10. CASE /\ pendingPkt = <<>>
            /\ UNCHANGED <<damaged, frameBuffer, fragments, received>>
  <2>1. frameBuffer' = <<>> /\ (u \notin damaged => k = 0)
    BY <1>10, <1>u, <1>2, <1>5 DEF Held
  <2>2. u > 1 => u - 1 \in damaged
    BY <1>8, <1>10
  <2>3. /\ received'.ts \in Nat
        /\ received'.nalus # <<>> /\ Intact(received.ts)'
              => received'.nalus = received'.unit
    BY <1>10 DEF UnitsInv, Types, Delivered, Intact
  <2>4. u > 1 => ~Intact(u - 1)'
    BY <1>10, <2>2 DEF Intact
  <2>5. Intact(u)' => u \notin damaged
    BY <1>10 DEF Intact
  <2>6. UNCHANGED damaged
    BY <1>10
  <2> QED
    BY <1>7, <1>9, <2>1, <2>3, <2>4, <2>5, <2>6
<1>11. ASSUME NEW q \in Packet, pendingPkt = <<q>>
       PROVE  \/ q.ts = u /\ HeldOfLast(q, P, before, k)
              \/ HeldOfEarlier(q) /\ (u \notin damaged => k = 0)
  <2>1. ToSet(pendingPkt) = {q}
    BY <1>11, ToSetOne
  <2> QED
    BY <1>u, <1>2, <1>5, <2>1 DEF Held
<1>12. ASSUME NEW q \in Packet, pendingPkt = <<q>>,
              damaged' = damaged \union {q.ts},
              UNCHANGED <<frameBuffer, fragments, received>>
       PROVE  UnitsInv'
  <2>1. damaged \subseteq damaged'
    BY <1>12
  <2>2. /\ received'.ts \in Nat
        /\ received'.nalus # <<>> /\ Intact(received.ts)'
              => received'.nalus = received'.unit
    BY <1>12, <2>1 DEF UnitsInv, Types, Delivered, Intact
  <2>3. CASE q.ts = u
    <3>1. u \in damaged' /\ ~Intact(u)'
      BY <1>12, <2>3 DEF Intact
    <3>2. u > 1 /\ Intact(u - 1)' => received'.ts >= u - 1
      <4>1. Intact(u - 1)' => Intact(u - 1)
        BY <2>1, IntactBefore
      <4>2. q \in ToSet(pendingPkt)
        BY <1>12, ToSetOne
      <4> QED
        BY <1>12, <2>3, <4>1, <4>2 DEF UnitsInv, Delivered
    <3> QED
      BY <1>7, <2>2, <3>1, <3>2
  <2>4. CASE HeldOfEarlier(q) /\ (u \notin damaged => k = 0)
    <3>1. q.ts \in 1 .. u - 1 /\ u > 1
      BY <1>u, <2>4 DEF HeldOfEarlier
    <3>2. u - 1 \in damaged'
      BY <1>8, <1>12, <3>1
    <3>3. ~Intact(u)' /\ ~Intact(u - 1)'
      BY <3>2 DEF Intact
    <3>4. u \notin damaged' => k = 0
      BY <2>1, <2>4
    <3> QED
      BY <1>7, <1>9, <2>2, <3>3, <3>4
  <2> QED
    BY <1>11, <1>12, <2>3, <2>4
<1>13. ASSUME NEW q \in Packet, pendingPkt = <<q>>,
              Depacketise(Marked(q, h)), UNCHANGED damaged
       PROVE  UnitsInv'
  <2>1. q \in ToSet(pendingPkt) /\ received.ts \in Nat /\ q.ts \in Nat
    BY <1>13, ToSetOne DEF UnitsInv, Types, Packet
  <2>2. \/ received'.nalus = <<>> /\ received'.ts = received.ts
        \/ received'.ts = q.ts
    BY <1>13, Depacketised
  <2>3. received'.ts \in Nat
    BY <2>1, <2>2
  <2>4. Intact(u)' <=> Intact(u)
    BY <1>13 DEF Intact
  <2>5. q.ts > 1 /\ Intact(q.ts - 1) => received.ts >= q.ts - 1
    BY <2>1 DEF UnitsInv, Delivered
  <2>6. CASE q.ts = u /\ HeldOfLast(q, P, before, k)
    <3>1. u > 1 /\ Intact(u - 1)' => received'.ts >= u - 1
      BY <1>13, <2>1, <2>2, <2>5, <2>6 DEF Intact
    <3>2. CASE u \in damaged
      <4>1. ~Intact(u)' /\ u \in damaged'
        BY <1>13, <3>2 DEF Intact
      <4>2. received'.nalus # <<>> => ~Intact(received.ts)'
        BY <1>13, <2>2, <2>6, <3>2 DEF Intact
      <4> QED
        BY <1>7, <2>3, <3>1, <4>1, <4>2
    <3>3. CASE u \notin damaged
      <4>1. k \in 1 .. Len(P) /\ k < Len(P) /\ q = P[k] /\ h = P[k + 1]
        BY <1>u, <1>2, <1>3, <1>4, <1>5, <2>6, <3>3 DEF HeldOfLast, Sent
      <4>2. /\ ~q.marker
            /\ before[k + 1] = IF q.part = "start" THEN before[k]
                              ELSE before[k] \o q.nalus
            /\ h.part = "end" => q.part = "start" /\ q.nalus = h.nalus
        BY <1>2, <4>1 DEF Sent, Whole
      <4>3. /\ q.part = "end" => fragments = q.nalus
            /\ Intact(u) => frameBuffer = before[k]
        BY <1>u, <2>6, <3>3 DEF HeldOfLast
      <4>4. ~(q.marker \/ q.ts # h.ts)
        BY <1>3, <2>6, <4>2
      <4>5. received'.nalus = <<>>
        BY <1>13, <4>3, <4>4, Depacketised
      <4>6. h.part = "end" => fragments' = h.nalus
        BY <1>13, <4>2, Depacketised
      <4>7. frameBuffer' = IF q.part = "start" THEN frameBuffer
                           ELSE frameBuffer \o q.nalus
        BY <1>13, <4>3, <4>4, Depacketised
      <4>8. Intact(u)' => frameBuffer' = before[k + 1]
        BY <2>4, <4>2, <4>3, <4>7
      <4> QED
        BY <1>7, <2>3, <3>1, <4>5, <4>6, <4>8
    <3> QED
      BY <3>2, <3>3
  <2>7. CASE HeldOfEarlier(q) /\ (u \notin damaged => k = 0)
    <3>1. q.ts \in 1 .. u - 1 /\ u > 1
      BY <1>u, <2>7 DEF HeldOfEarlier
    <3>2. u - 1 \notin damaged => q.ts = u - 1
      BY <1>8, <1>13, <3>1
    <3>3. q.ts \notin damaged =>
            /\ frameBuffer' = <<>> /\ received'.nalus = frameBuffer \o q.nalus
            /\ received'.ts = q.ts /\ received'.unit = q.unit
      <4> SUFFICES ASSUME q.ts \notin damaged
                   PROVE  /\ frameBuffer' = <<>>
                          /\ received'.nalus = frameBuffer \o q.nalus
                          /\ received'.ts = q.ts /\ received'.unit = q.unit
        OBVIOUS
      <4>1. q.part # "start" /\ (q.part = "end" => fragments = q.nalus)
        BY <2>7 DEF HeldOfEarlier
      <4>2. q.ts # h.ts
        BY <1>3, <3>1
      <4> QED
        BY <1>13, <4>1, <4>2, Depacketised
    <3>4. received'.nalus # <<>> /\ Intact(received.ts)'
            => received'.nalus = received'.unit
      <4> SUFFICES ASSUME received'.nalus # <<>>, Intact(received.ts)'
                   PROVE  received'.nalus = received'.unit
        OBVIOUS
      <4>1. received'.ts = q.ts
        BY <2>2
      <4>2. Intact(q.ts) /\ q.ts \notin damaged
        BY <1>13, <2>1, <4>1 DEF Intact
      <4> QED
        BY <2>7, <3>3, <4>2 DEF HeldOfEarlier
    <3>5. u > 1 /\ Intact(u - 1)' => received'.ts >= u - 1
      <4>1. Intact(u - 1)' => u - 1 \notin damaged
        BY <1>13 DEF Intact
      <4> QED
        BY <3>2, <3>3, <4>1
    <3>6. Intact(u)' => frameBuffer' = <<>> /\ k = 0
      <4>1. Intact(u) => u - 1 \notin damaged /\ u \notin damaged
        BY DEF Intact
      <4> QED
        BY <2>4, <2>7, <3>2, <3>3, <4>1
    <3>7. u \notin damaged' => k = 0
      BY <1>13, <2>7
    <3> QED
      BY <1>7, <1>9, <2>3, <3>4, <3>5, <3>6, <3>7
  <2> QED
    BY <1>11, <1>13, <2>6, <2>7
<1> QED
  BY <1>1, <1>u, <1>3, <1>10, <1>12, <1>13 DEF Arrive, Handle, UnitsInv, Types

(* The camera codes the next picture when all packets of the last have left:
   the one that is held back completes that access unit. *)
LEMMA CodeStep ==
  ASSUME UnitsInv, Code
  PROVE  UnitsInv'
<1>1. /\ outgoing = <<>> /\ units' = units + 1 /\ units' \in Nat
      /\ UNCHANGED <<config, damaged, pendingPkt, frameBuffer, fragments,
                     received>>
  BY DEF Code, UnitsInv, Types, networkVars, rtpVars
<1>2. PICK P, before : Whole(P, before, units') /\ outgoing' = P
  BY CodeSends DEF UnitsInv
<1>3. Types'
  BY <1>1, CodeSends DEF UnitsInv, Types
<1>4. Delivered'
  BY <1>1 DEF UnitsInv, Delivered, Intact
<1>5. P \in Seq(Packet) /\ Len(P) \in Nat /\ 0 \in 0 .. Len(P)
  BY <1>2 DEF Whole
<1>6. Sent(P, before, 0)'
  BY <1>2, <1>5 DEF Sent
<1>7. CASE units = 0
  <2>1. pendingPkt' = <<>> /\ frameBuffer' = <<>> /\ units' = 1
    BY <1>1, <1>7 DEF UnitsInv, Queued
  <2>2. Held(P, before, 0)'
    BY <2>1, ToSetEmpty DEF Held
  <2> QED
    BY <1>3, <1>4, <1>6, <2>1, <2>2 DEF UnitsInv, Queued
<1>8. CASE units # 0
  <2>1. PICK Q, gathered, k :
          Sent(Q, gathered, k) /\ Held(Q, gathered, k)
    BY <1>8 DEF UnitsInv, Queued
  <2>2. k = Len(Q) /\ k > 0 /\ k \in Nat
    <3>1. Q \in Seq(Packet) /\ Q # <<>> /\ Len(outgoing) = 0
      BY <1>1, <2>1 DEF Sent, Whole
    <3> QED
      BY <2>1, <3>1 DEF Sent
  <2>3. ASSUME NEW p \in ToSet(pendingPkt)
        PROVE  HeldOfEarlier(p)'
    <3>1. units \in Nat \ {0} /\ p.ts \in Nat
      BY <1>8, <2>3, ToSetOne, ToSetEmpty DEF UnitsInv, Types, Packet
    <3>2. CASE HeldOfEarlier(p)
      BY <1>1, <3>1, <3>2 DEF HeldOfEarlier, Intact
    <3>3. CASE p.ts = units /\ HeldOfLast(p, Q, gathered, k)
      <4>1. units \notin damaged =>
              /\ p.part # "start" /\ gathered[k] \o p.nalus = p.unit
        BY <2>1, <2>2, <3>3 DEF HeldOfLast, Sent, Whole
      <4>2. p.ts \in 1 .. units' - 1
        BY <1>1, <3>1, <3>3
      <4>3. p.ts \notin damaged =>
              p.part # "start" /\ (p.part = "end" => fragments = p.nalus)
        BY <3>3, <4>1 DEF HeldOfLast
      <4>4. Intact(p.ts) => frameBuffer \o p.nalus = p.unit
        <5>1. Intact(units) => units \notin damaged
          BY DEF Intact
        <5> QED
          BY <3>3, <4>1, <5>1 DEF HeldOfLast
      <4> QED
        BY <1>1, <4>2, <4>3, <4>4 DEF HeldOfEarlier, Intact
    <3> QED
      BY <2>1, <2>3, <3>2, <3>3 DEF Held
  <2>4. pendingPkt = <<>> => frameBuffer = <<>>
    BY <2>1 DEF Held
  <2>5. units \notin damaged =>
          pendingPkt # <<>> /\ Head(pendingPkt).ts = units
    <3> SUFFICES ASSUME units \notin damaged
                 PROVE  pendingPkt # <<>> /\ Head(pendingPkt).ts = units
      OBVIOUS
    <3>1. pendingPkt # <<>>
      BY <2>1, <2>2 DEF Held
    <3>2. PICK p \in Packet : pendingPkt = <<p>>
      BY <3>1 DEF UnitsInv, Types
    <3>3. p \in ToSet(pendingPkt)
      BY <3>2, ToSetOne
    <3>4. p.ts = units
      BY <2>1, <2>2, <3>3 DEF Held
    <3> QED
      BY <3>1, <3>2, <3>4
  <2>6. units' - 1 = units /\ units' # 0
    BY <1>1, <1>8 DEF UnitsInv, Types
  <2>7. Held(P, before, 0)'
    BY <1>1, <2>3, <2>4, <2>5, <2>6 DEF Held
  <2> QED
    BY <1>3, <1>4, <1>6, <2>6, <2>7 DEF UnitsInv, Queued
<1> QED
  BY <1>7, <1>8

(* A packet is lost on its way: its access unit is damaged. *)
LEMMA LoseStep ==
  ASSUME UnitsInv, Lose
  PROVE  UnitsInv'
<1>1. /\ outgoing # <<>> /\ outgoing' = Tail(outgoing)
      /\ UNCHANGED <<config, coded, units, pendingPkt, frameBuffer, fragments,
                     received>>
      /\ damaged' = damaged \union {Head(outgoing).ts}
      /\ units \in Nat /\ units # 0
  BY DEF Lose, UnitsInv, Types, Queued, rtpVars
<1>2. PICK P, before, k : Sent(P, before, k) /\ Held(P, before, k)
  BY <1>1 DEF UnitsInv, Queued
<1>3. /\ Head(outgoing).ts = units /\ k \in Nat
      /\ outgoing' \in Seq(Packet) /\ Sent(P, before, k + 1)'
  <2>1. Head(outgoing) = P[k + 1] /\ P[k + 1].ts = units
    BY <1>1, <1>2, Leaves DEF UnitsInv
  <2>2. outgoing' \in Seq(Packet) /\ Sent(P, before, k + 1)'
    BY <1>1, <1>2, Leaves DEF UnitsInv
  <2>3. k \in Nat
    BY <1>2 DEF Sent
  <2> QED
    BY <2>1, <2>2, <2>3
<1>4. units' \in damaged' /\ ~Intact(units)' /\ damaged \subseteq damaged'
  BY <1>1, <1>3 DEF Intact
<1>5. Types'
  BY <1>1, <1>3 DEF UnitsInv, Types
<1>6. Delivered'
  BY <1>1, <1>4 DEF UnitsInv, Delivered, Intact
<1>7. ASSUME NEW p \in ToSet(pendingPkt)
      PROVE  (p.ts = units /\ HeldOfLast(p, P, before, k + 1))'
               \/ HeldOfEarlier(p)'
  <2>1. CASE p.ts = units /\ HeldOfLast(p, P, before, k)
    <3>1. \E j \in 1 .. k + 1 : p = P[j]
      BY <1>3, <2>1 DEF HeldOfLast
    <3> QED
      BY <1>1, <1>4, <2>1, <3>1 DEF HeldOfLast
  <2>2. CASE HeldOfEarlier(p)
    BY <1>1, <1>4, <2>2 DEF HeldOfEarlier, Intact
  <2> QED
    BY <1>2, <1>7, <2>1, <2>2 DEF Held
<1>8. Held(P, before, k + 1)'
  BY <1>1, <1>2, <1>4, <1>7 DEF Held
<1> QED
  BY <1>1, <1>3, <1>5, <1>6, <1>8 DEF UnitsInv, Queued

(* A reconnection empties what the depacketisers have, and cuts off the access
   unit that is on its way. *)
LEMMA ReconnectStep ==
  ASSUME UnitsInv, Reconnect
  PROVE  UnitsInv'
<1>1. /\ outgoing' = <<>> /\ pendingPkt' = <<>> /\ frameBuffer' = <<>>
      /\ UNCHANGED <<config, coded, units, received>>
      /\ units \in damaged' /\ damaged \subseteq damaged'
  BY DEF Reconnect
<1>2. Types'
  BY <1>1, EmptySeq DEF UnitsInv, Types
<1>3. Delivered'
  BY <1>1, ToSetEmpty DEF UnitsInv, Delivered, Intact
<1>4. CASE units = 0
  BY <1>1, <1>2, <1>3, <1>4 DEF UnitsInv, Queued
<1>5. CASE units # 0
  <2>1. PICK P, before, k : Sent(P, before, k)
    BY <1>5 DEF UnitsInv, Queued
  <2>2. P \in Seq(Packet) /\ Len(P) \in 0 .. Len(P) /\ Len(outgoing') = 0
    BY <1>1, <2>1 DEF Sent, Whole
  <2>3. Sent(P, before, Len(P))'
    BY <1>1, <2>1, <2>2 DEF Sent
  <2>4. Held(P, before, Len(P))'
    BY <1>1, ToSetEmpty DEF Held
  <2> QED
    BY <1>1, <1>2, <1>3, <1>5, <2>3, <2>4 DEF UnitsInv, Queued
<1> QED
  BY <1>4, <1>5

(* Steps that leave packets alone. *)
LEMMA OtherStep ==
  ASSUME UnitsInv, Image \/ UNCHANGED vars
  PROVE  UnitsInv'
<1>1. UNCHANGED <<config, coded, units, outgoing, damaged, pendingPkt,
                  frameBuffer, fragments, received>>
  BY DEF Image, vars, cameraVars, networkVars, rtpVars
<1> QED
  <2>1. Types' /\ Delivered'
    BY <1>1 DEF UnitsInv, Types, Delivered, Intact
  <2>2. ASSUME NEW P, NEW before, NEW k, Sent(P, before, k), Held(P, before, k)
        PROVE  Sent(P, before, k)' /\ Held(P, before, k)'
    <3>1. Sent(P, before, k)'
      BY <1>1, <2>2 DEF Sent
    <3>2. ASSUME NEW p
          PROVE  /\ HeldOfLast(p, P, before, k) => HeldOfLast(p, P, before, k)'
                 /\ HeldOfEarlier(p) => HeldOfEarlier(p)'
      BY <1>1 DEF HeldOfLast, HeldOfEarlier, Intact
    <3>3. Held(P, before, k)'
      BY <1>1, <2>2, <3>2 DEF Held
    <3> QED
      BY <3>1, <3>3
  <2>3. Queued'
    BY <1>1, <2>2 DEF UnitsInv, Queued
  <2> QED
    BY <2>1, <2>3 DEF UnitsInv

LEMMA InitUnits == Init => UnitsInv
<1> SUFFICES ASSUME Init PROVE UnitsInv
  OBVIOUS
<1>1. Types
  <2>1. config.layout \in {"single", "aggregated"} /\ config.marks \in BOOLEAN
    BY UnitsAssumption DEF Init
  <2>2. coded \in ParameterSets
    BY DEF Init, ParameterSets
  <2>3. outgoing \in Seq(Packet)
    BY EmptySeq DEF Init
  <2>4. pendingPkt = <<>> /\ units \in Nat /\ received.ts \in Nat
    BY DEF Init, NoUnit
  <2> QED
    BY <2>1, <2>2, <2>3, <2>4 DEF Types
<1> QED
  BY <1>1, ToSetEmpty DEF Init, UnitsInv, Queued, Delivered, NoUnit

LEMMA UnitsInvariant == Spec => []UnitsInv
<1>1. UnitsInv /\ [Next]_vars => UnitsInv'
  BY CodeStep, LoseStep, ArriveStep, ReconnectStep, OtherStep DEF Next
<1> QED
  BY <1>1, InitUnits, PTL DEF Spec

(* What is handed to the decoder, to video storage and to the format processor
   is one whole access unit of the camera, in time, with and without marker bits
   and however it is packetised, unless a packet of it, or of the one before, is
   lost: for any number of access units, losses and reconnections. *)
THEOREM UnitsAreWhole == Spec => []AccessUnitsAreWhole
<1>1. UnitsInv => AccessUnitsAreWhole
  BY DEF UnitsInv, Delivered, AccessUnitsAreWhole, Intact
<1> QED
  BY <1>1, UnitsInvariant, PTL

----------------------------------------------------------------------------
(* Where pictures are, on the way to the decoder. *)
(* An access unit that reaches the decoder ends with its picture, if that is a
   random access point. *)
Ends(nalus) ==
  /\ nalus \in AccessUnit
  /\ IDRPresent(nalus) =>
       \E front \in AccessUnit, idr \in NALU :
         IsIDR(idr) /\ nalus = Append(front, idr)

LEMMA BareEnds ==
  ASSUME NEW nalus \in AccessUnit, Bare(nalus)
  PROVE  Ends(nalus)
BY DEF Ends, Bare, IDRPresent, IsIDR, IsPicture

LEMMA AppendEnds ==
  ASSUME NEW front \in AccessUnit, Bare(front), NEW x \in NALU
  PROVE  Ends(Append(front, x))
<1> DEFINE all == Append(front, x)
<1>1. /\ all \in Seq(NALU) /\ DOMAIN all = 1 .. Len(front) + 1
      /\ Len(front) \in Nat /\ DOMAIN front = 1 .. Len(front)
      /\ all[Len(front) + 1] = x
      /\ \A i \in 1 .. Len(front) : all[i] = front[i]
  BY DEF AccessUnit
<1> HIDE DEF all
<1>2. ASSUME IDRPresent(all) PROVE IsIDR(x)
  <2>1. PICK i \in 1 .. Len(front) + 1 : IsIDR(all[i])
    BY <1>1, <1>2 DEF IDRPresent
  <2>2. i \in 1 .. Len(front) => ~IsIDR(all[i])
    BY <1>1 DEF Bare, IsPicture, IsIDR
  <2>3. i = Len(front) + 1
    BY <1>1, <2>1, <2>2
  <2> QED
    BY <1>1, <2>1, <2>3
<1> QED
  BY <1>1, <1>2 DEF Ends, AccessUnit, all

LEMMA Gathers ==
  ASSUME NEW q \in Packet, NEW h, Ordered, Shaped(q)
  PROVE  /\ Ends(Gathered(Marked(q, h)))
         /\ ~Closing(q) \/ Refused(Marked(q, h)) => Bare(Gathered(Marked(q, h)))
<1>1. PICK m : m = Marked(q, h)
  OBVIOUS
<1>2. m.part = q.part /\ m.nalus = q.nalus /\ q.nalus \in Seq(NALU)
  BY <1>1 DEF Packet, Marked
<1>3. frameBuffer \in AccessUnit /\ Bare(frameBuffer)
  BY DEF Ordered
<1>4. CASE q.part = "start" \/ Refused(m)
  <2>1. Gathered(m) = frameBuffer
    BY <1>2, <1>4 DEF Gathered
  <2> QED
    BY <1>1, <1>3, <2>1, BareEnds
<1>5. CASE q.part # "start" /\ ~Refused(m) /\ Bare(q.nalus)
  <2>1. Gathered(m) = frameBuffer \o q.nalus
    BY <1>2, <1>5 DEF Gathered
  <2>2. Gathered(m) \in AccessUnit /\ Bare(Gathered(m))
    BY <1>2, <1>3, <1>5, <2>1, BareConcat DEF AccessUnit
  <2> QED
    BY <1>1, <2>2, BareEnds
<1>6. CASE q.part # "start" /\ ~Refused(m) /\ ~Bare(q.nalus)
  <2>1. PICK x \in NALU : q.nalus = <<x>>
    BY <1>6 DEF Shaped
  <2>2. Gathered(m) = frameBuffer \o <<x>>
    BY <1>2, <1>6, <2>1 DEF Gathered
  <2>3. Gathered(m) = Append(frameBuffer, x)
    BY <1>3, <2>2, AppendIsConcat DEF AccessUnit
  <2>4. Closing(q)
    BY <1>6 DEF Closing
  <2> QED
    BY <1>1, <1>3, <1>6, <2>3, <2>4, AppendEnds
<1> QED
  BY <1>4, <1>5, <1>6

(* The packet held back is done with: no picture stays in the depacketiser. *)
LEMMA GathersBare ==
  ASSUME NEW q \in Packet, NEW h, Ordered, Shaped(q),
         Closing(q) => q.ts # h.ts, Depacketise(Marked(q, h))
  PROVE  frameBuffer' \in AccessUnit /\ Bare(frameBuffer')
<1>1. PICK m : m = Marked(q, h)
  OBVIOUS
<1>2. m.part = q.part /\ m.marker = (q.marker \/ q.ts # h.ts)
  BY <1>1 DEF Packet, Marked
<1>3. frameBuffer' = IF Completes(m) THEN <<>> ELSE Gathered(m)
  BY <1>1 DEF Depacketise
<1>4. CASE Completes(m)
  BY <1>3, <1>4, EmptySeq DEF Bare, AccessUnit
<1>5. CASE ~Completes(m)
  <2>1. ~Closing(q) \/ Refused(m)
    BY <1>2, <1>5 DEF Completes, Closing
  <2> QED
    BY <1>1, <1>3, <1>5, <2>1, Gathers DEF Ends
<1> QED
  BY <1>4, <1>5

LEMMA TailCloses ==
  ASSUME Types, Ordered, outgoing # <<>>, outgoing' = Tail(outgoing),
         units' = units
  PROVE  /\ LastCloses(outgoing')
         /\ \A i \in 1 .. Len(outgoing') : outgoing'[i].ts = units'
         /\ Shaped(Head(outgoing)) /\ Head(outgoing).ts = units
         /\ Closing(Head(outgoing)) => outgoing' = <<>>
<1>1. /\ outgoing \in Seq(Packet) /\ Len(outgoing) \in Nat /\ Len(outgoing) > 0
  BY DEF Types
<1>2. /\ outgoing' \in Seq(Packet) /\ Len(outgoing') = Len(outgoing) - 1
      /\ Head(outgoing) = outgoing[1]
      /\ \A i \in 1 .. Len(outgoing') : outgoing'[i] = outgoing[i + 1]
  BY <1>1
<1>3. LastCloses(outgoing')
  <2>1. ASSUME NEW i \in 1 .. Len(outgoing')
        PROVE  /\ Shaped(outgoing'[i])
               /\ Closing(outgoing'[i]) => i = Len(outgoing')
    <3>1. i + 1 \in 1 .. Len(outgoing) /\ outgoing'[i] = outgoing[i + 1]
      BY <1>1, <1>2
    <3>2. /\ Shaped(outgoing[i + 1])
          /\ Closing(outgoing[i + 1]) => i + 1 = Len(outgoing)
      BY <3>1 DEF Ordered, LastCloses
    <3>3. i + 1 = Len(outgoing) => i = Len(outgoing')
      <4>1. PICK n \in Nat : n = Len(outgoing) /\ n - 1 = Len(outgoing')
        BY <1>1, <1>2
      <4>2. i \in 1 .. n - 1
        BY <4>1
      <4>3. i + 1 = n => i = n - 1
        BY <4>2
      <4> QED
        BY <4>1, <4>3, Zenon
    <3>4. PICK p : p = outgoing[i + 1] /\ outgoing'[i] = p
      BY <3>1
    <3>5. Shaped(p) /\ (Closing(p) => i = Len(outgoing'))
      BY <3>2, <3>3, <3>4
    <3> QED
      BY <3>4, <3>5
  <2> QED
    BY <2>1 DEF LastCloses
<1>4. \A i \in 1 .. Len(outgoing') : outgoing'[i].ts = units'
  BY <1>1, <1>2 DEF Ordered
<1>5. 1 \in 1 .. Len(outgoing)
  BY <1>1
<1>6. Shaped(Head(outgoing)) /\ Head(outgoing).ts = units
  BY <1>2, <1>5 DEF Ordered, LastCloses
<1>7. Closing(Head(outgoing)) => outgoing' = <<>>
  <2>1. Closing(outgoing[1]) => 1 = Len(outgoing)
    BY <1>5 DEF Ordered, LastCloses
  <2>2. Len(outgoing') = 0 => outgoing' = <<>>
    BY <1>2
  <2> QED
    BY <1>2, <2>1, <2>2
<1> QED
  BY <1>3, <1>4, <1>6, <1>7

LEMMA OrderedArrive ==
  ASSUME UnitsInv, Ordered, Arrive
  PROVE  Ordered'
<1>1. /\ outgoing # <<>> /\ outgoing' = Tail(outgoing)
      /\ pendingPkt' = <<Head(outgoing)>> /\ units' = units /\ units \in Nat
  BY DEF Arrive, UnitsInv, Types
<1>2. PICK h : h = Head(outgoing)
  OBVIOUS
<1>3. /\ LastCloses(outgoing')
      /\ \A i \in 1 .. Len(outgoing') : outgoing'[i].ts = units'
      /\ Shaped(h) /\ h.ts = units
      /\ Closing(h) => outgoing' = <<>>
  BY <1>1, <1>2, TailCloses DEF UnitsInv
<1>4. \A p \in ToSet(pendingPkt') :
        /\ Shaped(p) /\ p.ts <= units'
        /\ Closing(p) /\ outgoing' # <<>> => p.ts # units'
  BY <1>1, <1>2, <1>3, ToSetOne
<1>5. frameBuffer' \in AccessUnit /\ Bare(frameBuffer')
  <2>1. CASE UNCHANGED frameBuffer
    BY <2>1 DEF Ordered
  <2>2. CASE pendingPkt # <<>> /\ Handle(Marked(Head(pendingPkt), h))
    <3>1. PICK q \in Packet : pendingPkt = <<q>>
      BY <2>2 DEF UnitsInv, Types
    <3>2. Shaped(q) /\ (Closing(q) => q.ts # h.ts)
      BY <1>1, <1>3, <3>1, ToSetOne DEF Ordered
    <3>3. Depacketise(Marked(q, h))
      BY <2>2, <3>1 DEF Handle
    <3> QED
      BY <3>2, <3>3, GathersBare
  <2> QED
    BY <1>2, <2>1, <2>2 DEF Arrive
<1> QED
  BY <1>3, <1>4, <1>5 DEF Ordered

LEMMA OrderedStep ==
  ASSUME UnitsInv, Ordered, [Next]_vars
  PROVE  Ordered'
<1>1. CASE Code
  <2>1. /\ units' = units + 1 /\ units \in Nat /\ outgoing' \in Seq(Packet)
        /\ LastCloses(outgoing')
    BY <1>1, CodeSends DEF UnitsInv, Types
  <2>2. \A i \in 1 .. Len(outgoing') : outgoing'[i].ts = units'
    <3>1. PICK before : Whole(outgoing', before, units')
      BY <1>1, CodeSends DEF UnitsInv
    <3> QED
      BY <3>1 DEF Whole
  <2>3. UNCHANGED <<pendingPkt, frameBuffer>>
    BY <1>1 DEF Code, rtpVars
  <2>4. ASSUME NEW p \in ToSet(pendingPkt) PROVE p.ts \in Nat /\ p.ts <= units
    BY <2>4, ToSetOne, ToSetEmpty DEF UnitsInv, Types, Packet, Ordered
  <2> QED
    BY <2>1, <2>2, <2>3, <2>4 DEF Ordered
<1>2. CASE Lose
  <2>1. /\ outgoing # <<>> /\ outgoing' = Tail(outgoing) /\ units' = units
        /\ UNCHANGED <<pendingPkt, frameBuffer>>
    BY <1>2 DEF Lose, rtpVars
  <2> QED
    BY <2>1, TailCloses DEF Ordered, UnitsInv
<1>3. CASE Arrive
  BY <1>3, OrderedArrive
<1>4. CASE Reconnect
  <2>1. /\ outgoing' = <<>> /\ pendingPkt' = <<>> /\ frameBuffer' = <<>>
    BY <1>4 DEF Reconnect
  <2> QED
    BY <2>1, ToSetEmpty, EmptySeq DEF Ordered, LastCloses, Bare, AccessUnit
<1>5. CASE Image \/ UNCHANGED vars
  <2>1. UNCHANGED <<outgoing, units, pendingPkt, frameBuffer>>
    BY <1>5 DEF Image, vars, cameraVars, rtpVars
  <2> QED
    BY <2>1 DEF Ordered
<1> QED
  BY <1>1, <1>2, <1>3, <1>4, <1>5 DEF Next

----------------------------------------------------------------------------
(* Lazy and eager decoding. *)
(* What Image() would show after one more access unit was appended. *)
LEMMA AppendedSame ==
  ASSUME NEW d \in Decoder, NEW e \in Decoder, NEW aus \in Seq(AccessUnit),
         Same(Consumed(d, aus), e), NEW nalus \in AccessUnit
  PROVE  Same(Consumed(d, Append(aus, nalus)), Store(e, nalus))
<1>1. Consumed(d, Append(aus, nalus)) = Store(Consumed(d, aus), nalus)
  BY ConsumedAppend
<1>2. Consumed(d, aus) \in Decoder /\ nalus \in Seq(NALU)
  BY ConsumedType DEF AccessUnit
<1> QED
  BY <1>1, <1>2, SameStore

LEMMA ConsumedOne ==
  ASSUME NEW d \in Decoder, NEW nalus \in AccessUnit
  PROVE  Consumed(d, <<nalus>>) = Store(d, nalus)
<1>1. <<>> \in Seq(AccessUnit) /\ Append(<<>>, nalus) = <<nalus>>
  BY EmptySeq
<1>2. Consumed(d, Append(<<>>, nalus)) = Store(Consumed(d, <<>>), nalus)
  BY <1>1, ConsumedAppend
<1> QED
  BY <1>1, <1>2, ConsumedEmpty

(* A random access point makes up for everything that is dropped before it,
   if no parameter set is missing. *)
LEMMA ResetSame ==
  ASSUME NEW d \in Decoder, NEW e \in Decoder, Sees(e),
         NEW nalus, Ends(nalus), IDRPresent(nalus),
         Newest(d.sets, nalus) = Newest(e.sets, nalus)
  PROVE  Same(Consumed(d, <<nalus>>), Store(e, nalus))
<1>1. PICK front \in AccessUnit, idr \in NALU :
        IsIDR(idr) /\ nalus = Append(front, idr)
  BY DEF Ends
<1>2. front \in Seq(NALU) /\ nalus \in Seq(NALU)
  BY DEF Ends, AccessUnit
<1> DEFINE df == Store(d, front)
           ef == Store(e, front)
<1>3. df \in Decoder /\ ef \in Decoder /\ Sees(ef)
  BY <1>2, StoreType, SeesStore
<1>4. /\ Store(d, nalus) = DecodeNALU(df, idr)
      /\ Store(e, nalus) = DecodeNALU(ef, idr)
  BY <1>1, <1>2, StoreAppend
<1> HIDE DEF df, ef
<1>5. DecodeNALU(df, idr).sets = df.sets /\ DecodeNALU(ef, idr).sets = ef.sets
  <2>1. \A s : Replaced(s, idr) = s
    BY <1>1 DEF Replaced, IsIDR
  <2> QED
    BY <1>3, <2>1, DecodeSets
<1>6. df.sets = ef.sets
  BY <1>2, <1>4, <1>5, StoreSets
<1>7. Consumed(d, <<nalus>>) = Store(d, nalus)
  BY ConsumedOne DEF Ends
<1> QED
  BY <1>1, <1>3, <1>4, <1>6, <1>7, FreshPicture

(* What First, Skipped and Postponed say of an access unit is not changed by
   it, and whoever decodes it decodes the same. *)
LEMMA DecodedAsStore ==
  ASSUME initial \in KnownSets, NEW nalus \in AccessUnit
  PROVE  \E all \in AccessUnit : \A d : Decoded(d, nalus) = Store(d, all)
<1>1. ParametersOf(initial) \in Seq(NALU)
  BY ParametersType
<1>2. ParametersOf(initial) \o nalus \in AccessUnit
  BY <1>1 DEF AccessUnit
<1> QED
  BY <1>2 DEF Decoded

LEMMA StoreImageStep ==
  ASSUME Postponing, NEW nalus, Ends(nalus), StoreImage(nalus),
         UNCHANGED <<config, initial>>
  PROVE  Postponing'
<1>1. nalus \in AccessUnit /\ nalus \in Seq(NALU)
  BY DEF Ends, AccessUnit
<1>2. /\ decoder \in Decoder /\ eager \in Decoder /\ au \in Seq(AccessUnit)
      /\ Sees(eager) /\ initial' \in KnownSets
      /\ ~config.lazy => au = <<>>
      /\ ~astray => Same(Consumed(decoder, au), eager)
  BY DEF Postponing
<1>3. PICK all \in AccessUnit : \A d : Decoded(d, nalus) = Store(d, all)
  BY <1>1, DecodedAsStore DEF Postponing
<1>4. all \in Seq(NALU)
  BY <1>3 DEF AccessUnit
<1>5. CASE Skipped(nalus)
  <2>1. ~First(nalus) /\ ~Postponed(nalus)
    BY <1>5 DEF Skipped, Postponed
  <2>2. /\ decoder' = decoder /\ eager' = eager /\ au' = au
        /\ astray' = (astray \/ FALSE)
    BY <1>5, <2>1 DEF StoreImage
  <2> QED
    BY <1>2, <2>2 DEF Postponing
<1>6. CASE Postponed(nalus)
  <2>1. /\ ~Skipped(nalus) /\ ~First(nalus) /\ config.lazy
    BY <1>6 DEF Postponed
  <2>2. decoder' = decoder /\ eager' = Store(eager, nalus)
        /\ au' = Appended(nalus)
    BY <1>6, <2>1 DEF StoreImage, Decoded
  <2>3. eager' \in Decoder /\ Sees(eager')
    BY <1>1, <1>2, <2>2, StoreType, SeesStore
  <2>4. CASE IDRPresent(nalus)
    <3>1. au' = <<nalus>> /\ au' \in Seq(AccessUnit)
      BY <1>1, <2>2, <2>4 DEF Appended
    <3>2. astray' = (Newest(decoder.sets, nalus) # Newest(eager.sets, nalus))
      BY <1>6, <2>4 DEF StoreImage
    <3>3. ~astray' => Same(Consumed(decoder, <<nalus>>), Store(eager, nalus))
      BY <1>2, <2>4, <3>2, ResetSame
    <3>4. ~astray' => Same(Consumed(decoder', au'), eager')
      BY <2>2, <3>1, <3>3
    <3> QED
      BY <1>2, <2>1, <2>2, <2>3, <3>1, <3>4 DEF Postponing
  <2>5. CASE ~IDRPresent(nalus)
    <3>1. au' = Append(au, nalus) /\ au' \in Seq(AccessUnit)
      BY <1>1, <1>2, <2>2, <2>5 DEF Appended
    <3>2. ~astray' => ~astray
      BY <1>6, <2>1, <2>5 DEF StoreImage
    <3>3. ~astray' => Same(Consumed(decoder, Append(au, nalus)),
                           Store(eager, nalus))
      BY <1>1, <1>2, <3>2, AppendedSame
    <3>4. ~astray' => Same(Consumed(decoder', au'), eager')
      BY <2>2, <3>1, <3>3
    <3> QED
      BY <1>2, <2>1, <2>2, <2>3, <3>1, <3>4 DEF Postponing
  <2> QED
    BY <2>4, <2>5
<1>7. CASE ~Skipped(nalus) /\ ~Postponed(nalus)
  <2>1. /\ decoder' = Store(decoder, all) /\ eager' = Store(eager, all)
        /\ au' = au
    BY <1>3, <1>7 DEF StoreImage
  <2>2. /\ decoder' \in Decoder /\ eager' \in Decoder /\ Sees(eager')
    BY <1>2, <1>4, <2>1, StoreType, SeesStore
  <2>3. ~astray' => ~astray /\ au = <<>>
    <3>1. ~astray' => ~astray /\ (First(nalus) => au = <<>>)
      BY <1>7 DEF StoreImage
    <3>2. First(nalus) \/ ~config.lazy
      BY <1>7 DEF Postponed
    <3> QED
      BY <1>2, <3>1, <3>2
  <2>4. ~astray' => Same(Consumed(decoder', au'), eager')
    <3> SUFFICES ASSUME ~astray' PROVE Same(Consumed(decoder', au'), eager')
      OBVIOUS
    <3>1. Same(decoder, eager)
      BY <1>2, <2>3, ConsumedEmpty
    <3>2. Same(Store(decoder, all), Store(eager, all))
      BY <1>2, <1>4, <3>1, SameStore
    <3>3. Consumed(Store(decoder, all), <<>>) = Store(decoder, all)
      BY <2>1, <2>2, ConsumedEmpty
    <3> QED
      BY <2>1, <2>3, <3>2, <3>3
  <2> QED
    BY <1>2, <2>1, <2>2, <2>4 DEF Postponing
<1> QED
  BY <1>5, <1>6, <1>7

(* H264 fragments are pictures, which say nothing of parameter sets. *)
LEMMA ProcessStep ==
  ASSUME Tracked, NEW pkt, Shaped(pkt), pkt.nalus \in Seq(NALU), Process(pkt),
         config' = config
  PROVE  Tracked'
<1>1. heard' = Newest(heard, pkt.nalus) /\ heard' \in KnownSets
  BY NewestType DEF Process, Tracked
<1>2. CASE pkt.part = "whole"
  <2>1. Updated(pkt) = Newest(format, pkt.nalus)
    BY <1>2 DEF Updated
  <2>2. Newest(format, pkt.nalus) \in KnownSets
    BY NewestType DEF Tracked
  <2> QED
    BY <1>1, <2>1, <2>2 DEF Process, Tracked
<1>3. CASE pkt.part # "whole"
  <2>1. PICK x \in NALU : IsPicture(x) /\ pkt.nalus = <<x>>
    BY <1>3 DEF Shaped
  <2>2. Replaced(heard, x) = heard
    BY <2>1 DEF Replaced, IsPicture
  <2>3. <<>> \in Seq(NALU) /\ Append(<<>>, x) = <<x>> /\ heard \in KnownSets
    BY EmptySeq DEF Tracked
  <2>4. Newest(heard, Append(<<>>, x)) = Replaced(Newest(heard, <<>>), x)
    BY <2>3, NewestAppend
  <2>5. heard' = heard
    BY <1>1, <2>1, <2>2, <2>3, <2>4, NewestEmpty
  <2>6. Updated(pkt) = format
    BY <1>3 DEF Updated
  <2> QED
    BY <1>1, <2>5, <2>6 DEF Process, Tracked
<1> QED
  BY <1>2, <1>3

LEMMA SameOpened ==
  ASSUME NEW sets \in KnownSets, NEW s \in [n : Nat, good : BOOLEAN],
         NEW t \in [n : Nat, good : BOOLEAN]
  PROVE  /\ Opened(sets, s) \in Decoder /\ Opened(sets, t) \in Decoder
         /\ Sees(Opened(sets, t)) /\ Same(Opened(sets, s), Opened(sets, t))
<1>1. NoSets \in KnownSets
  BY DEF NoSets, KnownSets
<1>2. NewDecoder(s) \in Decoder /\ NewDecoder(t) \in Decoder
  BY <1>1 DEF NewDecoder, Decoder
<1>3. /\ Opened(sets, s) \in Decoder /\ Opened(sets, t) \in Decoder
  BY <1>2 DEF Opened, Decoder
<1>4. Opened(sets, s).sets = Opened(sets, t).sets
  BY DEF Opened, NewDecoder
<1>5. ~Opened(sets, t).good
  BY DEF Opened, NewDecoder
<1> QED
  BY <1>3, <1>4, <1>5 DEF Sees, Same

LEMMA DecodingArrive ==
  ASSUME DecodingInv, Arrive
  PROVE  (Postponing /\ Tracked)'
<1>1. /\ UnitsInv /\ Ordered /\ Postponing /\ Tracked
      /\ config' = config /\ outgoing # <<>>
  BY DEF DecodingInv, Arrive
<1>2. CASE UNCHANGED <<formatVars, imageVars>>
  <2>1. /\ UNCHANGED <<config, initial, decoder, eager, au, astray>>
        /\ UNCHANGED <<format, heard>>
    BY <1>1, <1>2 DEF formatVars, imageVars
  <2> QED
    BY <1>1, <2>1 DEF Postponing, Tracked
<1>3. CASE pendingPkt # <<>> /\ Handle(Marked(Head(pendingPkt), Head(outgoing)))
  <2>1. PICK h : h = Head(outgoing)
    OBVIOUS
  <2>2. PICK q \in Packet : pendingPkt = <<q>>
    BY <1>1, <1>3 DEF UnitsInv, Types
  <2>3. PICK m : m = Marked(q, h)
    OBVIOUS
  <2>4. Shaped(q)
    BY <1>1, <2>2, ToSetOne DEF Ordered
  <2>5. m.part = q.part /\ m.nalus = q.nalus /\ q.nalus \in Seq(NALU)
    BY <2>3 DEF Packet, Marked
  <2>6. Shaped(m)
    BY <2>4, <2>5 DEF Shaped
  <2>7. Ends(Gathered(m))
    BY <1>1, <2>3, <2>4, Gathers
  <2>8. Process(m) /\ UNCHANGED initial
    BY <1>3, <2>1, <2>2, <2>3 DEF Handle, Process
  <2>9. Tracked'
    BY <1>1, <2>5, <2>6, <2>8, ProcessStep
  <2>10. CASE Completes(m)
    <3>1. StoreImage(Gathered(m))
      BY <1>3, <2>1, <2>2, <2>3, <2>10 DEF Handle
    <3> QED
      BY <1>1, <2>7, <2>8, <2>9, <3>1, StoreImageStep
  <2>11. CASE ~Completes(m)
    <3>1. UNCHANGED <<config, initial, decoder, eager, au, astray>>
      BY <1>1, <1>3, <2>1, <2>2, <2>3, <2>8, <2>11 DEF Handle, imageVars
    <3> QED
      BY <1>1, <2>9, <3>1 DEF Postponing
  <2> QED
    BY <2>10, <2>11
<1> QED
  BY <1>2, <1>3 DEF Arrive

LEMMA DecodingStep ==
  ASSUME DecodingInv, [Next]_vars
  PROVE  DecodingInv'
<1>1. UnitsInv /\ Ordered /\ Postponing /\ Tracked
  BY DEF DecodingInv
<1>2. UnitsInv'
  BY <1>1, CodeStep, LoseStep, ArriveStep, ReconnectStep, OtherStep DEF Next
<1>3. Ordered'
  BY <1>1, OrderedStep
<1>4. CASE Code \/ Lose \/ UNCHANGED vars
  <2>1. /\ UNCHANGED <<config, initial, decoder, eager, au, astray>>
        /\ UNCHANGED <<format, heard>>
    BY <1>4 DEF Code, Lose, vars, cameraVars, formatVars, imageVars
  <2>2. Postponing' /\ Tracked'
    BY <1>1, <2>1 DEF Postponing, Tracked
  <2> QED
    BY <1>2, <1>3, <2>2 DEF DecodingInv
<1>5. CASE Arrive
  BY <1>2, <1>3, <1>5, DecodingArrive DEF DecodingInv
<1>6. CASE Reconnect
  <2>1. /\ initial' \in Described /\ format' = initial' /\ heard' = initial'
        /\ au' = <<>> /\ config' = config
        /\ decoder' = Opened(initial', decoder.shown)
        /\ eager' = Opened(initial', eager.shown)
    BY <1>6 DEF Reconnect
  <2>2. initial' \in KnownSets
    BY <1>1, <2>1 DEF Described, NoSets, KnownSets, ParameterSets, UnitsInv,
                      Types
  <2>3. /\ decoder' \in Decoder /\ eager' \in Decoder /\ Sees(eager')
        /\ Same(decoder', eager')
    BY <1>1, <2>1, <2>2, SameOpened DEF Postponing, Decoder
  <2>4. Consumed(decoder', au') = decoder' /\ au' \in Seq(AccessUnit)
    BY <2>1, <2>3, ConsumedEmpty, EmptySeq
  <2>5. Postponing' /\ Tracked'
    BY <2>1, <2>2, <2>3, <2>4 DEF Postponing, Tracked
  <2> QED
    BY <1>2, <1>3, <2>5 DEF DecodingInv
<1>7. CASE Image
  <2>1. /\ decoder' = Consumed(decoder, au) /\ au' = <<>>
        /\ UNCHANGED <<config, initial, format, heard, eager, astray>>
    BY <1>7 DEF Image, cameraVars, formatVars
  <2>2. decoder' \in Decoder /\ au' \in Seq(AccessUnit)
    BY <1>1, <2>1, ConsumedType, EmptySeq DEF Postponing
  <2>3. Consumed(decoder', au') = Consumed(decoder, au)
    BY <2>1, <2>2, ConsumedEmpty
  <2>4. Postponing' /\ Tracked'
    BY <1>1, <2>1, <2>2, <2>3 DEF Postponing, Tracked
  <2> QED
    BY <1>2, <1>3, <2>4 DEF DecodingInv
<1> QED
  BY <1>4, <1>5, <1>6, <1>7 DEF Next

LEMMA InitDecoding == Init => DecodingInv
<1> SUFFICES ASSUME Init PROVE DecodingInv
  OBVIOUS
<1>1. UnitsInv
  BY InitUnits
<1>2. Ordered
  BY ToSetEmpty, EmptySeq DEF Init, Ordered, LastCloses, Bare, AccessUnit
<1>3. initial \in KnownSets
  BY DEF Init, Described, NoSets, KnownSets
<1>4. NoPicture \in [n : Nat, good : BOOLEAN]
  BY DEF NoPicture
<1>5. /\ decoder \in Decoder /\ eager \in Decoder /\ Sees(eager)
      /\ Same(decoder, eager)
  BY <1>3, <1>4, SameOpened DEF Init
<1>6. au = <<>> /\ au \in Seq(AccessUnit) /\ Consumed(decoder, au) = decoder
  BY <1>5, ConsumedEmpty, EmptySeq DEF Init
<1>7. Postponing
  BY <1>3, <1>5, <1>6 DEF Postponing
<1>8. Tracked
  BY <1>3 DEF Init, Tracked
<1> QED
  BY <1>1, <1>2, <1>7, <1>8 DEF DecodingInv

LEMMA DecodingInvariant == Spec => []DecodingInv
BY InitDecoding, DecodingStep, PTL DEF Spec

(* With lazy_decode, Image() always shows what decoding everything as it came
   would have shown, if that is intact: the access units that rc.au keeps are
   enough, in their order, for any number of them, of losses and of connections,
   until the first IDR or a reset leaves a parameter set out. *)
THEOREM LazyDecodingIsEnough == Spec => []PostponedIsEnough
<1>1. DecodingInv => PostponedIsEnough
  BY DEF DecodingInv, Postponing, Same, PostponedIsEnough
<1> QED
  BY <1>1, DecodingInvariant, PTL

----------------------------------------------------------------------------
(* What is published. *)
PictureKinds == {"idr", "slice"}

(* What Only keeps are elements of what it is given, of the given kinds. *)
LEMMA OnlyElements ==
  ASSUME NEW kinds, NEW nalus \in Seq(NALU)
  PROVE  \A i \in DOMAIN Only(kinds, nalus) :
           /\ Only(kinds, nalus)[i].kind \in kinds
           /\ \E j \in DOMAIN nalus : Only(kinds, nalus)[i] = nalus[j]
<1> DEFINE Kept(s) ==
             \A i \in DOMAIN Only(kinds, s) :
               /\ Only(kinds, s)[i].kind \in kinds
               /\ \E j \in DOMAIN s : Only(kinds, s)[i] = s[j]
           T == {s \in Seq(NALU) : Kept(s)}
<1>1. <<>> \in T
  BY EmptySeq, OnlyEmpty
<1>2. ASSUME NEW s \in Seq(NALU), NEW x \in NALU, Kept(s)
      PROVE  Kept(Append(s, x))
  <2>1. PICK all : all = Append(s, x)
    OBVIOUS
  <2>2. /\ DOMAIN all = 1 .. Len(s) + 1 /\ Len(s) \in Nat
        /\ DOMAIN s = 1 .. Len(s)
        /\ all[Len(s) + 1] = x /\ \A i \in 1 .. Len(s) : all[i] = s[i]
    BY <2>1
  <2>3. PICK old \in Seq(NALU) : old = Only(kinds, s)
    BY OnlyType DEF AccessUnit
  <2>4. Only(kinds, all) = IF x.kind \in kinds THEN Append(old, x) ELSE old
    BY <2>1, <2>3, OnlyAppend DEF Chosen
  <2>5. \A i \in DOMAIN old :
          old[i].kind \in kinds /\ \E j \in DOMAIN s : old[i] = s[j]
    BY <1>2, <2>3
  <2>6. \A i \in DOMAIN old :
          old[i].kind \in kinds /\ \E j \in DOMAIN all : old[i] = all[j]
    BY <2>2, <2>5
  <2>7. CASE x.kind \in kinds
    <3>1. PICK new : new = Append(old, x)
      OBVIOUS
    <3>2. /\ DOMAIN new = 1 .. Len(old) + 1 /\ Len(old) \in Nat
          /\ DOMAIN old = 1 .. Len(old)
          /\ new[Len(old) + 1] = x /\ \A i \in 1 .. Len(old) : new[i] = old[i]
      BY <3>1
    <3>3. ASSUME NEW i \in DOMAIN new
          PROVE  new[i].kind \in kinds /\ \E j \in DOMAIN all : new[i] = all[j]
      <4>1. CASE i \in 1 .. Len(old)
        BY <2>6, <3>2, <4>1
      <4>2. CASE i = Len(old) + 1
        <5>1. Len(s) + 1 \in DOMAIN all
          BY <2>2
        <5> QED
          BY <2>2, <2>7, <3>2, <4>2, <5>1
      <4> QED
        BY <3>2, <4>1, <4>2
    <3>4. Only(kinds, all) = new
      BY <2>4, <2>7, <3>1
    <3> QED
      BY <2>1, <3>3, <3>4
  <2>8. CASE x.kind \notin kinds
    BY <2>1, <2>4, <2>6, <2>8
  <2> QED
    BY <2>7, <2>8
<1>3. ASSUME NEW s \in Seq(NALU), NEW x \in NALU, s \in T
      PROVE  Append(s, x) \in T
  <2>1. Append(s, x) \in Seq(NALU)
    OBVIOUS
  <2> HIDE DEF Kept
  <2> QED
    BY <1>2, <1>3, <2>1
<1> HIDE DEF T
<1>4. \A s \in Seq(NALU) : s \in T
  BY <1>1, <1>3, SequenceInduction
<1> QED
  BY <1>4 DEF T

(* Nothing but pictures: Pictures changes nothing. *)
LEMMA PicturesOnly ==
  ASSUME NEW nalus \in Seq(NALU)
  PROVE  Pictures(Pictures(nalus)) = Pictures(nalus)
<1> DEFINE T == {s \in Seq(NALU) : Pictures(Pictures(s)) = Pictures(s)}
<1>1. <<>> \in T
  BY EmptySeq, OnlyEmpty DEF Pictures
<1>2. ASSUME NEW s \in Seq(NALU), NEW x \in NALU, s \in T
      PROVE  Append(s, x) \in T
  <2>1. Append(s, x) \in Seq(NALU)
    OBVIOUS
  <2>2. PICK old \in Seq(NALU) : old = Pictures(s) /\ Pictures(old) = old
    BY <1>2, OnlyType DEF Pictures, AccessUnit
  <2>3. /\ Pictures(Append(s, x)) =
             IF x.kind \in PictureKinds THEN Append(old, x) ELSE old
        /\ Pictures(Append(old, x)) =
             IF x.kind \in PictureKinds THEN Append(old, x) ELSE old
    BY <2>2, OnlyAppend DEF Pictures, Chosen, PictureKinds
  <2>4. Pictures(Pictures(Append(s, x))) = Pictures(Append(s, x))
    <3>1. CASE x.kind \in PictureKinds
      BY <2>3, <3>1
    <3>2. CASE x.kind \notin PictureKinds
      BY <2>2, <2>3, <3>2
    <3> QED
      BY <3>1, <3>2
  <2> QED
    BY <2>1, <2>4
<1> HIDE DEF T
<1>3. \A s \in Seq(NALU) : s \in T
  BY <1>1, <1>2, SequenceInduction
<1> QED
  BY <1>3 DEF T

LEMMA BarePictures ==
  ASSUME NEW nalus \in Seq(NALU), Bare(nalus)
  PROVE  Pictures(nalus) = <<>>
<1>1. PICK kept \in Seq(NALU) : kept = Pictures(nalus)
  BY OnlyType DEF Pictures, AccessUnit
<1>2. \A i \in DOMAIN kept : FALSE
  BY <1>1, OnlyElements DEF Pictures, Bare, IsPicture
<1>3. DOMAIN kept = 1 .. Len(kept) /\ Len(kept) \in Nat
  BY <1>1
<1>4. Len(kept) = 0
  <2>1. Len(kept) > 0 => Len(kept) \in 1 .. Len(kept)
    BY <1>3
  <2> QED
    BY <1>2, <1>3, <2>1
<1> QED
  BY <1>1, <1>4

LEMMA PicturesAfterBare ==
  ASSUME NEW front \in Seq(NALU), Bare(front), NEW nalus \in Seq(NALU)
  PROVE  Pictures(front \o nalus) = Pictures(nalus)
<1> DEFINE T == {s \in Seq(NALU) : Pictures(front \o s) = Pictures(s)}
<1>1. <<>> \in T
  <2>1. front \o <<>> = front /\ <<>> \in Seq(NALU)
    BY EmptySeq
  <2>2. Pictures(<<>>) = <<>>
    BY OnlyEmpty DEF Pictures
  <2> QED
    BY <2>1, <2>2, BarePictures
<1>2. ASSUME NEW s \in Seq(NALU), NEW x \in NALU, s \in T
      PROVE  Append(s, x) \in T
  <2>1. /\ Append(s, x) \in Seq(NALU) /\ front \o s \in Seq(NALU)
        /\ front \o Append(s, x) = Append(front \o s, x)
    OBVIOUS
  <2>2. Pictures(front \o s) = Pictures(s)
    BY <1>2
  <2>3. Pictures(Append(front \o s, x)) = Pictures(Append(s, x))
    <3>1. PICK r \in Seq(NALU) : r = front \o s
      BY <2>1
    <3>2. /\ Pictures(Append(r, x)) = Chosen({"idr", "slice"}, Pictures(r), x)
          /\ Pictures(Append(s, x)) = Chosen({"idr", "slice"}, Pictures(s), x)
      BY OnlyAppend DEF Pictures
    <3> QED
      BY <2>2, <3>1, <3>2
  <2> QED
    BY <2>1, <2>3
<1> HIDE DEF T
<1>3. \A s \in Seq(NALU) : s \in T
  BY <1>1, <1>2, SequenceInduction
<1> QED
  BY <1>3 DEF T

(* remuxAccessUnit keeps the pictures, and a key frame among them begins with
   the parameter sets of the format. *)
LEMMA RemuxedUnit ==
  ASSUME NEW nalus \in AccessUnit, NEW sets \in KnownSets
  PROVE  /\ Pictures(Remuxed(nalus, sets)) = Pictures(nalus)
         /\ Remuxed(nalus, sets) \in AccessUnit
         /\ \A i \in DOMAIN Remuxed(nalus, sets) :
              IsIDR(Remuxed(nalus, sets)[i]) /\ Complete(sets)
                => IsPrefix(ParametersOf(sets), Remuxed(nalus, sets))
<1>1. nalus \in Seq(NALU)
  BY DEF AccessUnit
<1>2. Kinds \ {"sps", "pps", "aud"} = {"idr", "slice"}
  BY DEF Kinds
<1>3. PICK kept \in Seq(NALU) : kept = Pictures(nalus)
  BY <1>1, OnlyType DEF Pictures, AccessUnit
<1>4. Remuxed(nalus, sets) =
        IF IDRPresent(nalus) /\ Complete(sets)
        THEN ParametersOf(sets) \o kept ELSE kept
  BY <1>2, <1>3, Zenon DEF Remuxed, Pictures, Complete
<1>5. PICK params \in Seq(NALU) : params = ParametersOf(sets) /\ Bare(params)
  BY ParametersType
<1>6. Pictures(kept) = kept
  BY <1>1, <1>3, PicturesOnly
<1>7. CASE IDRPresent(nalus) /\ Complete(sets)
  <2>1. Remuxed(nalus, sets) = params \o kept
    BY <1>4, <1>5, <1>7
  <2>2. Pictures(params \o kept) = kept /\ params \o kept \in AccessUnit
    BY <1>5, <1>6, PicturesAfterBare DEF AccessUnit
  <2>3. IsPrefix(params, params \o kept)
    <3>1. /\ Len(params \o kept) = Len(params) + Len(kept)
          /\ Len(params) \in Nat /\ Len(kept) \in Nat
      OBVIOUS
    <3>2. SubSeq(params \o kept, 1, Len(params)) = SubSeq(params, 1, Len(params))
      OBVIOUS
    <3> QED
      BY <3>1, <3>2 DEF IsPrefix
  <2> QED
    BY <1>3, <1>5, <2>1, <2>2, <2>3
<1>8. CASE ~(IDRPresent(nalus) /\ Complete(sets))
  <2>1. Remuxed(nalus, sets) = kept
    BY <1>4, <1>8
  <2>2. ASSUME NEW i \in DOMAIN kept, IsIDR(kept[i]) PROVE IDRPresent(nalus)
    <3>1. \E j \in DOMAIN nalus : kept[i] = nalus[j]
      BY <1>1, <1>3, OnlyElements DEF Pictures
    <3> QED
      BY <2>2, <3>1 DEF IDRPresent
  <2> QED
    BY <1>3, <1>6, <1>8, <2>1, <2>2 DEF AccessUnit
<1> QED
  BY <1>7, <1>8

Decodable ==
  published' # published /\ published' # NoUnit =>
    /\ published'.ts = received'.ts
    /\ Pictures(published'.nalus) = Pictures(received'.nalus)
    /\ \A i \in DOMAIN published'.nalus :
         LET nalu == published'.nalus[i]
             sets == [sps |-> nalu.sps, pps |-> nalu.pps]
         IN IsIDR(nalu) /\ sets = heard'
              => IsPrefix(ParametersOf(sets), published'.nalus)

LEMMA PublishedStep ==
  ASSUME DecodingInv, [Next]_vars
  PROVE  Decodable
<1> SUFFICES ASSUME published' # published, published' # NoUnit
             PROVE  Decodable
  BY DEF Decodable
<1>1. UnitsInv /\ Ordered /\ Tracked /\ Tracked'
  BY DecodingStep DEF DecodingInv
<1>2. /\ Arrive /\ pendingPkt # <<>>
      /\ Handle(Marked(Head(pendingPkt), Head(outgoing)))
  BY DEF Next, Code, Lose, Reconnect, Image, Arrive, vars, formatVars
<1>3. PICK h : h = Head(outgoing)
  OBVIOUS
<1>4. PICK q \in Packet : pendingPkt = <<q>>
  BY <1>1, <1>2 DEF UnitsInv, Types
<1>5. PICK m : m = Marked(q, h)
  OBVIOUS
<1>6. Depacketise(m) /\ Process(m)
  BY <1>2, <1>3, <1>4, <1>5 DEF Handle
<1>7. PICK g \in AccessUnit : g = Gathered(m)
  BY <1>1, <1>4, <1>5, ToSetOne, Gathers DEF Ordered, Ends
<1>8. /\ config.codec = "h264" /\ Completes(m)
      /\ published' = [ts |-> m.ts, nalus |-> Remuxed(g, format'),
                       unit |-> m.unit]
  BY <1>6, <1>7 DEF Process
<1>9. received' = [ts |-> m.ts, nalus |-> g, unit |-> m.unit]
  BY <1>6, <1>7, <1>8 DEF Depacketise
<1>10. format' = heard' /\ format' \in KnownSets
  <2>1. config' = config
    BY <1>2 DEF Arrive
  <2> QED
    BY <1>1, <1>8, <2>1 DEF Tracked
<1>11. PICK sets \in KnownSets : format' = sets /\ heard' = sets
  BY <1>10
<1>12. PICK out \in AccessUnit :
         /\ out = Remuxed(g, sets) /\ Pictures(out) = Pictures(g)
         /\ \A i \in DOMAIN out : IsIDR(out[i]) /\ Complete(sets)
              => IsPrefix(ParametersOf(sets), out)
  BY RemuxedUnit
<1>13. /\ published'.ts = m.ts /\ published'.nalus = out
       /\ received'.ts = m.ts /\ received'.nalus = g
  BY <1>8, <1>9, <1>11, <1>12
<1>14. ASSUME NEW i \in DOMAIN out, IsIDR(out[i]),
              [sps |-> out[i].sps, pps |-> out[i].pps] = sets
       PROVE  IsPrefix(ParametersOf(sets), out)
  <2>1. out[i] \in NALU
    BY DEF AccessUnit
  <2>2. out[i].sps # 0 /\ out[i].pps # 0
    BY <1>14, <2>1 DEF NALU, IsIDR, Delimiter
  <2>3. sets.sps = out[i].sps /\ sets.pps = out[i].pps
    BY <1>14
  <2>4. Complete(sets)
    BY <2>2, <2>3 DEF Complete
  <2> QED
    BY <1>12, <1>14, <2>4
<1> QED
  BY <1>11, <1>12, <1>13, <1>14 DEF Decodable

(* A key frame that is published to WebRTC begins with the parameter sets it was
   coded with, once these have arrived, and every published unit has the pictures
   and the timestamp of the access unit it is made of: for any number of access
   units, losses, reconnections and changes of the parameter sets. *)
THEOREM KeyFramesCanStart == Spec => PublishedUnitsAreDecodable
<1>1. DecodingInv /\ [Next]_vars => [Decodable]_vars
  BY PublishedStep
<1> QED
  BY <1>1, DecodingInvariant, PTL DEF Spec, PublishedUnitsAreDecodable, Decodable
=============================================================================
