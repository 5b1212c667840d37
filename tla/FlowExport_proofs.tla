--------------------------- MODULE FlowExport_proofs ---------------------------
(* Proofs about FlowExport, for any exporters, programmes of datagrams and     *)
(* queue sizes.                                                                *)
EXTENDS FlowExport, FiniteSetTheorems, TLAPS

-----------------------------------------------------------------------------
(* The inductive invariant *)

Typed ==
    /\ sent \in [Exporters -> Nat]
    /\ wire \subseteq Datagrams
    /\ queue \in Seq(Datagrams)
    /\ busy \in Datagrams \cup {Idle}
    /\ pos \in Nat \ {0}
    /\ fate \in [Datagrams -> Fates]
    /\ store \in [Stateful -> [Tids -> Seq(Fields)]]

\* Where a datagram can be before something becomes of it.
Unsent(d) == sent[d[1]] < d[2]
Queued(d) == \E i \in DOMAIN queue : queue[i] = d
Pending(d) == Unsent(d) \/ d \in wire \/ Queued(d) \/ d = busy

\* It is in one of these places, once, and nothing has become of it yet.
OnePlace ==
    /\ \A d \in Datagrams : /\ Pending(d) => fate[d] = "none"
                            /\ Unsent(d) => d \notin wire /\ ~Queued(d) /\ d # busy
                            /\ d \in wire => ~Queued(d) /\ d # busy
                            /\ Queued(d) => d # busy
    /\ \A i, j \in DOMAIN queue : queue[i] = queue[j] => i = j

\* A template that was loaded is a template set, of a datagram that is done with
\* or of the one at hand, before the next set.
LoadedInTurn ==
    \A x \in loaded :
        /\ x[1] \in Datagrams /\ x[2] \in DOMAIN Sets(x[1])
        /\ Set(x[1], x[2]).kind = "template"
        /\ (x[1] = busy /\ x[2] < pos) \/ fate[x[1]] # "none"

Named(v, t) == {x \in loaded : Version(x[1]) = v /\ Set(x[1], x[2]).tid = t}

\* What is on file for an id was loaded under that id.
StoreHasSource ==
    \A v \in Stateful : \A t \in Tids :
        \/ Named(v, t) = {} /\ store[v][t] = <<>>
        \/ \E x \in Named(v, t) : Set(x[1], x[2]).read = store[v][t]

\* The records decoded so far belong to the datagram at hand.
OutIsOfBusy ==
    /\ \A r \in out : r.from = busy /\ r.set \in 1 .. (pos - 1)
    /\ busy = Idle => out = {}

Whole == \A r \in entered : r.from \in Datagrams /\ fate[r.from] \in {"ingested", "posted"}

IInv ==
    /\ Typed /\ OnePlace /\ LoadedInTurn /\ StoreHasSource /\ OutIsOfBusy /\ Whole
    /\ MisreadHasCause /\ DecodableIsDecoded

-----------------------------------------------------------------------------
(* Numbers *)

LEMMA Quotient ==
    ASSUME NEW w \in Nat \ {0}, NEW a \in Nat, NEW b \in 0 .. (w - 1)
    PROVE  (a * w + b) \div w = a /\ (a * w + b) % w = b
<1>1. (a * w + b) \div w = a
  OBVIOUS
<1>2. (a * w + b) % w = b
  OBVIOUS
<1> QED BY <1>1, <1>2

LEMMA LargestExists ==
    ASSUME NEW S \in SUBSET Int, IsFiniteSet(S), S # {}
    PROVE  \E m \in S : \A x \in S : x <= m
<1> DEFINE Above(m) == {x \in S : x > m}
           T == {Above(m) : m \in S}
<1>1. ASSUME NEW m \in S PROVE Above(m) \in FiniteSubsetsOf(S)
  <2>1. Above(m) \subseteq S
    OBVIOUS
  <2>2. IsFiniteSet(Above(m))
    <3> HIDE DEF Above
    <3> QED BY <2>1, FS_Subset
  <2> QED BY <2>1, <2>2 DEF FiniteSubsetsOf
<1>2. T \subseteq FiniteSubsetsOf(S) /\ T # {}
  <2> HIDE DEF Above
  <2> QED BY <1>1
<1>3. \E t \in T : \A u \in T : <<u, t>> \notin StrictSubsetOrdering(S)
  <2> HIDE DEF T
  <2> QED BY <1>2, FS_StrictSubsetOrderingWellFounded, WFMin
<1>4. PICK m \in S : \A u \in T : <<u, Above(m)>> \notin StrictSubsetOrdering(S)
  BY <1>3
<1>5. ASSUME NEW x \in S, x > m PROVE FALSE
  <2>1. m \in Int /\ x \in Int
    OBVIOUS
  <2>2. x \in Above(m) /\ x \notin Above(x)
    BY <1>5, <2>1
  <2>3. ASSUME NEW y \in Above(x) PROVE y \in Above(m)
    BY <1>5, <2>1, <2>3
  <2>4. Above(x) \in SUBSET S /\ Above(m) \in SUBSET S /\ Above(x) \in T
    OBVIOUS
  <2>5. <<Above(x), Above(m)>> \in StrictSubsetOrdering(S)
    <3> HIDE DEF Above
    <3> QED BY <2>2, <2>3, <2>4 DEF StrictSubsetOrdering
  <2> QED BY <1>4, <2>4, <2>5
<1>6. ASSUME NEW x \in S PROVE x <= m
  BY <1>5
<1> QED BY <1>6

-----------------------------------------------------------------------------
(* Datagrams and their sets *)

SetRecord ==
    [kind : Kinds, tid : Tids, layout : Seq(Fields), read : Seq(Fields), flows : Seq(Nat)]

LEMMA DatagramShape ==
    ASSUME NEW d \in Datagrams
    PROVE  /\ d = <<d[1], d[2]>> /\ d[1] \in Exporters /\ d[2] \in Nat \ {0}
           /\ Version(d) \in {"v5", "sflow"} \cup Stateful
           /\ Sets(d) \in Seq(SetRecord)
<1>1. PICK e \in Exporters : \E n \in DOMAIN Programme[e] : d = <<e, n>>
  BY DEF Datagrams
<1>2. PICK n \in DOMAIN Programme[e] : d = <<e, n>>
  BY <1>1
<1> DEFINE D == [version : {"v5", "sflow"} \cup Stateful, sets : Seq(SetRecord)]
<1>3. Programme[e] \in Seq(D)
  BY ExportAssumption DEF SetRecord
<1>4. n \in Nat \ {0} /\ Programme[e][n] \in D
  <2> HIDE DEF D
  <2> QED BY <1>2, <1>3
<1> QED BY <1>2, <1>4 DEF Version, Sets

LEMMA SetShape ==
    ASSUME NEW d \in Datagrams, NEW i \in DOMAIN Sets(d)
    PROVE  /\ i \in Nat \ {0}
           /\ Set(d, i).kind \in Kinds /\ Set(d, i).tid \in Tids
           /\ Set(d, i).layout \in Seq(Fields) /\ Set(d, i).read \in Seq(Fields)
           /\ Set(d, i).flows \in Seq(Nat)
           /\ Version(d) \notin Stateful /\ Set(d, i).kind = "data"
                => Set(d, i).layout = FixedLayout
<1>1. Sets(d) \in Seq(SetRecord)
  BY DatagramShape
<1>2. i \in Nat \ {0} /\ Set(d, i) \in SetRecord
  BY <1>1 DEF Set
<1>3. Version(d) \notin Stateful /\ Set(d, i).kind = "data" => Set(d, i).layout = FixedLayout
  BY ExportAssumption DEF Set
<1> QED BY <1>2, <1>3 DEF SetRecord

LEMMA BodyCells ==
    ASSUME NEW s, s.layout \in Seq(Fields), s.flows \in Seq(Nat), s.layout # <<>>
    PROVE  /\ Len(Body(s)) \div Len(s.layout) = Len(s.flows)
           /\ \A row \in 1 .. Len(s.flows) : \A p \in 1 .. Len(s.layout) :
                Body(s)[(row - 1) * Len(s.layout) + p] = <<s.flows[row], s.layout[p]>>
<1> DEFINE w == Len(s.layout)
           n == Len(s.flows)
<1>1. w \in Nat \ {0} /\ n \in Nat
  OBVIOUS
<1>3. Body(s) = [k \in 1 .. n * w |->
                   <<s.flows[((k - 1) \div w) + 1], s.layout[((k - 1) % w) + 1]>>]
  BY DEF Body
<1> HIDE DEF w, n
<1>2. n * w \in Nat
  BY <1>1
<1>4. Len(Body(s)) = n * w
  BY <1>2, <1>3
<1>5. (n * w + 0) \div w = n
  BY <1>1, Quotient
<1>6. ASSUME NEW row \in 1 .. n, NEW p \in 1 .. w
      PROVE  Body(s)[(row - 1) * w + p] = <<s.flows[row], s.layout[p]>>
  <2>1. (row - 1) \in Nat /\ (p - 1) \in 0 .. (w - 1)
    BY <1>1
  <2>2. ((row - 1) * w + (p - 1)) \div w = row - 1 /\ ((row - 1) * w + (p - 1)) % w = p - 1
    BY <1>1, <2>1, Quotient
  <2>3. (row - 1) * w + p \in 1 .. n * w
    <3>1. (row - 1) * w \in Nat
      BY <1>1, <2>1
    <3>2. (row - 1) * w + w = row * w
      BY <1>1
    <3>3. row * w <= n * w
      BY <1>1
    <3> QED BY <1>1, <1>2, <3>1, <3>2, <3>3
  <2>4. ((row - 1) * w + p) - 1 = (row - 1) * w + (p - 1)
    BY <1>1, <2>1
  <2>5. (row - 1) + 1 = row /\ (p - 1) + 1 = p
    BY <1>1
  <2> DEFINE k == (row - 1) * w + p
  <2>6. Body(s)[k] = <<s.flows[((k - 1) \div w) + 1], s.layout[((k - 1) % w) + 1]>>
    BY <1>3, <2>3
  <2>7. (k - 1) \div w = row - 1 /\ (k - 1) % w = p - 1
    BY <2>2, <2>4
  <2> HIDE DEF k
  <2>8. Body(s)[k] = <<s.flows[row], s.layout[p]>>
    BY <2>5, <2>6, <2>7
  <2> QED BY <2>8 DEF k
<1>7. n * w = n * w + 0
  BY <1>2
<1> QED BY <1>4, <1>5, <1>6, <1>7 DEF w, n

LEMMA LastInIs ==
    ASSUME NEW fields \in Seq(Fields), NEW what, what \in {fields[p] : p \in DOMAIN fields}
    PROVE  LastIn(fields, what) \in DOMAIN fields /\ fields[LastIn(fields, what)] = what
<1> DEFINE S == {p \in DOMAIN fields : fields[p] = what}
<1>1. DOMAIN fields = 1 .. Len(fields) /\ Len(fields) \in Nat
  OBVIOUS
<1>2. S \subseteq 1 .. Len(fields) /\ S # {}
  BY <1>1
<1>3. IsFiniteSet(S) /\ S \in SUBSET Int
  <2> HIDE DEF S
  <2>1. IsFiniteSet(1 .. Len(fields))
    BY <1>1, FS_Interval
  <2>2. IsFiniteSet(S)
    BY <1>2, <2>1, FS_Subset
  <2>3. S \in SUBSET Int
    BY <1>1, <1>2
  <2> QED BY <2>2, <2>3
<1>4. \E m \in S : \A x \in S : x <= m
  <2> HIDE DEF S
  <2> QED BY <1>2, <1>3, LargestExists
<1>5. \E p \in DOMAIN fields :
          fields[p] = what /\ \A q \in DOMAIN fields : fields[q] = what => q <= p
  BY <1>4
<1> QED BY <1>5 DEF LastIn

-----------------------------------------------------------------------------
(* Decoding *)

\* A set decoded with the layout it was written in yields its flows, each as the
\* exporter saw it.
LEMMA RowsFaithful ==
    ASSUME NEW d \in Datagrams, NEW i \in DOMAIN Sets(d),
           Addresses(Set(d, i).layout)
    PROVE  /\ \A r \in Rows(d, i, Set(d, i).layout) : Faithful(r)
           /\ \A k \in 1 .. RowsRead(d, Len(Set(d, i).flows)) :
                \E r \in Rows(d, i, Set(d, i).layout) :
                    Faithful(r) /\ r.src[1] = Set(d, i).flows[k]
<1> DEFINE s == Set(d, i)
           w == Len(s.layout)
           n == Len(s.flows)
           m == RowsRead(d, n)
           ps == LastIn(s.layout, "src")
           pd == LastIn(s.layout, "dst")
           Row(row) == RecordOf(d, i, row, <<s.flows[row], "src">>, <<s.flows[row], "dst">>)
<1>1. s.layout \in Seq(Fields) /\ s.flows \in Seq(Nat)
  BY SetShape
<1>2. /\ ps \in DOMAIN s.layout /\ s.layout[ps] = "src"
      /\ pd \in DOMAIN s.layout /\ s.layout[pd] = "dst"
  <2>1. {"src", "dst"} \subseteq {s.layout[p] : p \in DOMAIN s.layout}
    BY DEF Addresses
  <2>2. "src" \in {s.layout[p] : p \in DOMAIN s.layout}
        /\ "dst" \in {s.layout[p] : p \in DOMAIN s.layout}
    BY <2>1
  <2> HIDE DEF s
  <2> QED BY <1>1, <2>2, LastInIs
<1>3. DOMAIN s.layout = 1 .. w /\ s.layout # <<>> /\ w \in Nat /\ n \in Nat
      /\ DOMAIN s.flows = 1 .. n
  <2> HIDE DEF s
  <2> QED BY <1>1, <1>2
<1>4. /\ Len(Body(s)) \div w = n
      /\ \A row \in 1 .. n : \A p \in 1 .. w :
            Body(s)[(row - 1) * w + p] = <<s.flows[row], s.layout[p]>>
  <2> HIDE DEF s
  <2> QED BY <1>1, <1>3, BodyCells
<1>5. ASSUME NEW row \in 1 .. n
      PROVE  /\ Body(s)[(row - 1) * w + ps] = <<s.flows[row], "src">>
             /\ Body(s)[(row - 1) * w + pd] = <<s.flows[row], "dst">>
  <2> HIDE DEF s, w, n, ps, pd
  <2> QED BY <1>2, <1>3, <1>4
<1>6. Rows(d, i, s.layout) =
        {RecordOf(d, i, row, Body(s)[(row - 1) * w + ps], Body(s)[(row - 1) * w + pd]) :
           row \in 1 .. m}
  BY <1>4 DEF Rows
<1>7. 1 .. m \subseteq 1 .. n
  <2> HIDE DEF n
  <2> QED BY <1>3, ExportAssumption DEF RowsRead
<1>8. Rows(d, i, s.layout) = {Row(row) : row \in 1 .. m}
  <2> HIDE DEF m, n, ps, pd, w
  <2> QED BY <1>5, <1>6, <1>7
<1>9. ASSUME NEW row \in 1 .. n
      PROVE  Faithful(Row(row)) /\ Row(row).src[1] = s.flows[row]
  <2> HIDE DEF s, n
  <2> QED BY DEF Faithful, RecordOf
<1> QED BY <1>7, <1>8, <1>9

\* What is decoded with fields that some template of X declares: whole flows, or
\* cells of a set that this template contradicts.
LEMMA DecodedExplained ==
    ASSUME NEW d \in Datagrams, NEW i \in DOMAIN Sets(d), NEW fields, NEW X,
           Version(d) \in Stateful /\ fields # <<>>
             => \E x \in X : /\ Set(x[1], x[2]).kind = "template"
                             /\ Version(x[1]) = Version(d)
                             /\ Set(x[1], x[2]).tid = Set(d, i).tid
                             /\ Set(x[1], x[2]).read = fields
    PROVE  \A r \in Decoded(d, i, fields) :
               /\ r.from = d /\ r.set = i
               /\ \/ Faithful(r)
                  \/ Set(d, i).kind = "counters"
                  \/ \E x \in X : Contradicts(x, d, i)
<1> SUFFICES ASSUME NEW r \in Decoded(d, i, fields)
             PROVE  /\ r.from = d /\ r.set = i
                    /\ \/ Faithful(r)
                       \/ Set(d, i).kind = "counters"
                       \/ \E x \in X : Contradicts(x, d, i)
  OBVIOUS
<1> DEFINE f == IF Version(d) \in Stateful THEN fields ELSE FixedLayout
<1>1. CASE Set(d, i).kind = "counters"
  BY <1>1 DEF Decoded, CounterRecord, RecordOf
<1>2. CASE Set(d, i).kind # "counters"
  <2>1. Set(d, i).kind = "data" /\ r \in Rows(d, i, f)
    BY <1>2 DEF Decoded
  <2>2. r.from = d /\ r.set = i /\ Addresses(f)
    <3> HIDE DEF f
    <3> QED BY <2>1 DEF Rows, RecordOf
  <2>3. CASE f = Set(d, i).layout
    <3> HIDE DEF f
    <3> QED BY <2>1, <2>2, <2>3, RowsFaithful
  <2>4. CASE f # Set(d, i).layout
    <3>1. Version(d) \in Stateful /\ f = fields
      BY <2>1, <2>4, SetShape
    <3>2. fields # <<>>
      BY <2>2, <3>1 DEF Addresses
    <3>3. \E x \in X : Contradicts(x, d, i)
      BY <2>4, <3>1, <3>2 DEF Contradicts, Defines
    <3> QED BY <2>2, <3>3
  <2> QED BY <2>3, <2>4
<1> QED BY <1>1, <1>2

-----------------------------------------------------------------------------
(* Queues *)

LEMMA AppendPlaces ==
    ASSUME NEW q \in Seq(Datagrams), NEW d \in Datagrams,
           \A i \in DOMAIN q : q[i] # d,
           \A i, j \in DOMAIN q : q[i] = q[j] => i = j
    PROVE  /\ Append(q, d) \in Seq(Datagrams)
           /\ \A x : (\E i \in DOMAIN Append(q, d) : Append(q, d)[i] = x)
                        <=> ((\E i \in DOMAIN q : q[i] = x) \/ x = d)
           /\ \A i, j \in DOMAIN Append(q, d) :
                Append(q, d)[i] = Append(q, d)[j] => i = j
<1>1. /\ DOMAIN q = 1 .. Len(q) /\ DOMAIN Append(q, d) = 1 .. (Len(q) + 1)
      /\ Len(q) \in Nat /\ Append(q, d) \in Seq(Datagrams)
  OBVIOUS
<1>2. /\ \A i \in 1 .. Len(q) : Append(q, d)[i] = q[i]
      /\ Append(q, d)[Len(q) + 1] = d
  OBVIOUS
<1>3. \A x : (\E i \in DOMAIN Append(q, d) : Append(q, d)[i] = x)
                <=> ((\E i \in DOMAIN q : q[i] = x) \/ x = d)
  BY <1>1, <1>2
<1>4. \A i, j \in DOMAIN Append(q, d) : Append(q, d)[i] = Append(q, d)[j] => i = j
  BY <1>1, <1>2
<1> QED BY <1>1, <1>3, <1>4

LEMMA TailPlaces ==
    ASSUME NEW q \in Seq(Datagrams), q # <<>>,
           \A i, j \in DOMAIN q : q[i] = q[j] => i = j
    PROVE  /\ Tail(q) \in Seq(Datagrams) /\ Head(q) \in Datagrams
           /\ \E i \in DOMAIN q : q[i] = Head(q)
           /\ \A x : (\E i \in DOMAIN Tail(q) : Tail(q)[i] = x)
                        => ((\E i \in DOMAIN q : q[i] = x) /\ x # Head(q))
           /\ \A i, j \in DOMAIN Tail(q) : Tail(q)[i] = Tail(q)[j] => i = j
<1>1. /\ Tail(q) \in Seq(Datagrams) /\ Head(q) \in Datagrams
      /\ Len(q) \in Nat /\ Len(q) >= 1
  OBVIOUS
<1>2. /\ DOMAIN q = 1 .. Len(q) /\ DOMAIN Tail(q) = 1 .. (Len(q) - 1)
      /\ Head(q) = q[1]
      /\ \A i \in 1 .. (Len(q) - 1) : Tail(q)[i] = q[i + 1]
  BY <1>1
<1>3. ASSUME NEW x, NEW i \in DOMAIN Tail(q), Tail(q)[i] = x
      PROVE  (\E j \in DOMAIN q : q[j] = x) /\ x # Head(q)
  BY <1>1, <1>2, <1>3
<1>4. \A i, j \in DOMAIN Tail(q) : Tail(q)[i] = Tail(q)[j] => i = j
  BY <1>1, <1>2
<1>5. \E i \in DOMAIN q : q[i] = Head(q)
  BY <1>1, <1>2
<1> QED BY <1>1, <1>3, <1>4, <1>5

-----------------------------------------------------------------------------
(* Steps outside the decoder *)

Decoding ==
    /\ LoadedInTurn /\ StoreHasSource /\ OutIsOfBusy /\ Whole
    /\ MisreadHasCause /\ DecodableIsDecoded

\* What becomes of a datagram outside the decoder is no concern of it.
LEMMA AsideSafe ==
    ASSUME IInv, UNCHANGED <<decoderVars, entered>>,
           \/ fate' = fate
           \/ \E d \in Datagrams : fate[d] = "none" /\ fate' = [fate EXCEPT ![d] = "dropped"]
    PROVE  Decoding'
<1> USE DEF decoderVars
<1>1. \A x \in Datagrams : fate'[x] = fate[x] \/ (fate[x] = "none" /\ fate'[x] = "dropped")
  BY DEF IInv, Typed
<1>2. LoadedInTurn'
  BY <1>1 DEF IInv, LoadedInTurn
<1>3. StoreHasSource'
  BY DEF IInv, StoreHasSource, Named
<1>4. OutIsOfBusy' /\ DecodableIsDecoded'
  BY DEF IInv, OutIsOfBusy, DecodableIsDecoded, Decodable
<1>5. Whole'
  BY <1>1 DEF IInv, Whole
<1>6. ASSUME NEW r \in entered \cup out PROVE TemplatesFor(r)' = TemplatesFor(r)
  <2>1. CASE r \in entered
    BY <1>1, <2>1 DEF IInv, Whole, TemplatesFor
  <2>2. CASE r \in out
    <3>1. r.from \in Datagrams
      BY <2>2 DEF IInv, Typed, OutIsOfBusy
    <3>2. fate[r.from] = "none"
      BY <2>2, <3>1 DEF IInv, OutIsOfBusy, OnePlace, Pending
    <3>3. fate'[r.from] # "posted" /\ fate[r.from] # "posted"
      BY <1>1, <3>1, <3>2
    <3> QED BY <3>3 DEF TemplatesFor
  <2> QED BY <2>1, <2>2
<1>7. MisreadHasCause'
  BY <1>6 DEF IInv, MisreadHasCause
<1> QED BY <1>2, <1>3, <1>4, <1>5, <1>7 DEF Decoding

LEMMA SendSafe == ASSUME IInv, NEW e \in Exporters, Send(e) PROVE IInv'
<1> USE DEF Send
<1>0. PICK d : d = <<e, sent[e] + 1>>
  OBVIOUS
<1>1. d \in Datagrams /\ d[1] = e /\ d[2] = sent[e] + 1 /\ sent[e] \in Nat
  BY <1>0 DEF IInv, Typed
<1>2. \A x \in Datagrams : Unsent(x)' <=> Unsent(x) /\ x # d
  <2> SUFFICES ASSUME NEW x \in Datagrams PROVE Unsent(x)' <=> Unsent(x) /\ x # d
    OBVIOUS
  <2>1. x = <<x[1], x[2]>> /\ x[1] \in Exporters /\ x[2] \in Nat
    BY DatagramShape
  <2>2. sent'[x[1]] = IF x[1] = e THEN sent[e] + 1 ELSE sent[x[1]]
    BY <2>1 DEF IInv, Typed
  <2>3. CASE x[1] = e
    <3>1. x = d <=> x[2] = sent[e] + 1
      BY <1>0, <1>1, <2>1, <2>3
    <3> QED BY <1>1, <2>1, <2>2, <2>3, <3>1 DEF Unsent
  <2>4. CASE x[1] # e
    BY <1>1, <2>1, <2>2, <2>4 DEF Unsent
  <2> QED BY <2>3, <2>4
<1>3. Unsent(d)
  BY <1>1 DEF Unsent
<1>4. fate[d] = "none" /\ d \notin wire /\ ~Queued(d) /\ d # busy
  BY <1>1, <1>3 DEF IInv, OnePlace, Pending
<1>5. /\ UNCHANGED <<queue, decoderVars, entered, waiting>>
      /\ \/ wire' = wire \cup {d} /\ fate' = fate
         \/ wire' = wire /\ fate' = [fate EXCEPT ![d] = "dropped"]
  BY <1>0 DEF queueVars
<1>6. Decoding'
  BY <1>1, <1>4, <1>5, AsideSafe
<1>7. Typed'
  BY <1>1, <1>5 DEF IInv, Typed, Fates, decoderVars
<1>8. OnePlace'
  <2>1. \A x : Queued(x)' <=> Queued(x)
    BY <1>5 DEF Queued
  <2>2. busy' = busy /\ queue' = queue
    BY <1>5 DEF decoderVars
  <2>3. CASE wire' = wire \cup {d} /\ fate' = fate
    BY <1>2, <1>3, <1>4, <2>1, <2>2, <2>3 DEF IInv, OnePlace, Pending
  <2>4. CASE wire' = wire /\ fate' = [fate EXCEPT ![d] = "dropped"]
    <3>1. \A x \in Datagrams : x # d => fate'[x] = fate[x]
      BY <2>4 DEF IInv, Typed
    <3>2. ~Pending(d)'
      BY <1>1, <1>2, <1>4, <2>1, <2>2, <2>4 DEF Pending
    <3> QED BY <1>2, <2>1, <2>2, <2>4, <3>1, <3>2 DEF IInv, OnePlace, Pending
  <2> QED BY <1>5, <2>3, <2>4
<1> QED BY <1>6, <1>7, <1>8 DEF IInv, Decoding

LEMMA ReceiveSafe == ASSUME IInv, NEW d \in wire, Receive(d) PROVE IInv'
<1> USE DEF Receive
<1>1. /\ d \in Datagrams /\ fate[d] = "none" /\ ~Unsent(d) /\ ~Queued(d) /\ d # busy
  BY DEF IInv, Typed, OnePlace, Pending
<1>2. /\ UNCHANGED <<sent, decoderVars, entered, waiting>> /\ wire' = wire \ {d}
      /\ \/ queue' = Append(queue, d) /\ fate' = fate
         \/ queue' = queue /\ fate' = [fate EXCEPT ![d] = "dropped"]
  BY DEF queueVars
<1>3. Decoding'
  BY <1>1, <1>2, AsideSafe
<1>4. /\ queue' \in Seq(Datagrams)
      /\ \A x : Queued(x)' => Queued(x) \/ (x = d /\ fate' = fate)
      /\ \A i, j \in DOMAIN queue' : queue'[i] = queue'[j] => i = j
  <2>1. queue \in Seq(Datagrams) /\ \A i, j \in DOMAIN queue : queue[i] = queue[j] => i = j
    BY DEF IInv, Typed, OnePlace
  <2>2. CASE queue' = Append(queue, d) /\ fate' = fate
    BY <1>1, <2>1, <2>2, AppendPlaces DEF Queued
  <2>3. CASE queue' = queue
    BY <2>1, <2>3 DEF Queued
  <2> QED BY <1>2, <2>2, <2>3
<1>5. Typed'
  BY <1>1, <1>2, <1>4 DEF IInv, Typed, Fates, decoderVars
<1>6. OnePlace'
  <2>1. /\ \A x \in Datagrams : Unsent(x)' <=> Unsent(x)
        /\ busy' = busy
    BY <1>2 DEF Unsent, decoderVars
  <2>2. CASE fate' = fate
    BY <1>1, <1>2, <1>4, <2>1, <2>2 DEF IInv, OnePlace, Pending
  <2>3. CASE fate' # fate
    <3>1. \A x \in Datagrams : x # d => fate'[x] = fate[x]
      BY <1>2, <2>3 DEF IInv, Typed
    <3>2. ~Pending(d)'
      BY <1>1, <1>2, <1>4, <2>1, <2>3 DEF Pending
    <3> QED BY <1>2, <1>4, <2>1, <2>3, <3>1, <3>2 DEF IInv, OnePlace, Pending
  <2> QED BY <2>2, <2>3
<1> QED BY <1>3, <1>5, <1>6 DEF IInv, Decoding

LEMMA DrainSafe == ASSUME IInv, Drain PROVE IInv'
<1>1. UNCHANGED <<sent, wire, queue, decoderVars, fate, entered>>
  BY DEF Drain, Consume
<1>2. Decoding'
  BY <1>1, AsideSafe
<1>3. Typed' /\ OnePlace'
  BY <1>1 DEF IInv, Typed, OnePlace, Pending, Queued, Unsent, decoderVars
<1> QED BY <1>2, <1>3 DEF IInv, Decoding

-----------------------------------------------------------------------------
(* Steps of the decoder *)

LEMMA TakeSafe == ASSUME IInv, Take PROVE IInv'
<1> USE DEF Take
<1>1. queue \in Seq(Datagrams) /\ \A i, j \in DOMAIN queue : queue[i] = queue[j] => i = j
  BY DEF IInv, Typed, OnePlace
<1>2. /\ queue' \in Seq(Datagrams) /\ busy' \in Datagrams /\ Queued(busy')
      /\ \A x : Queued(x)' => Queued(x) /\ x # busy'
      /\ \A i, j \in DOMAIN queue' : queue'[i] = queue'[j] => i = j
  BY <1>1, TailPlaces DEF Queued
<1>3. Idle \notin Datagrams
  BY ExportAssumption
<1>4. Typed'
  BY <1>2 DEF IInv, Typed
<1>5. OnePlace'
  <2>1. \A x \in Datagrams : Unsent(x)' <=> Unsent(x)
    BY DEF Unsent
  <2> QED BY <1>2, <2>1 DEF IInv, OnePlace, Pending
<1>6. LoadedInTurn'
  BY <1>3 DEF IInv, LoadedInTurn
<1>7. StoreHasSource' /\ Whole'
  BY DEF IInv, StoreHasSource, Named, Whole, queueVars
<1>8. OutIsOfBusy'
  BY <1>2, <1>3 DEF OutIsOfBusy
<1>9. MisreadHasCause'
  BY DEF IInv, MisreadHasCause, TemplatesFor, queueVars
<1>10. DecodableIsDecoded'
  BY DEF DecodableIsDecoded
<1> QED BY <1>4, <1>5, <1>6, <1>7, <1>8, <1>9, <1>10 DEF IInv

\* The places of datagrams do not depend on how far the decoder is.
LEMMA DecoderPlaces ==
    ASSUME IInv, UNCHANGED <<sent, wire, queue, busy, fate>>,
           pos' = pos + 1, store' \in [Stateful -> [Tids -> Seq(Fields)]]
    PROVE  Typed' /\ OnePlace'
<1>1. Typed'
  BY DEF IInv, Typed
<1>2. OnePlace'
  BY DEF IInv, OnePlace, Pending, Queued, Unsent
<1> QED BY <1>1, <1>2

LEMMA AtSetFacts ==
    ASSUME IInv, NEW kinds, AtSet(kinds)
    PROVE  /\ busy \in Datagrams /\ pos \in DOMAIN Sets(busy) /\ fate[busy] = "none"
           /\ Set(busy, pos).kind \in kinds
<1> QED BY DEF IInv, Typed, OnePlace, Pending, AtSet

LEMMA LoadTemplateSafe == ASSUME IInv, LoadTemplate PROVE IInv'
<1> USE DEF LoadTemplate
<1> DEFINE s == Set(busy, pos)
<1>1. /\ busy \in Datagrams /\ pos \in DOMAIN Sets(busy) /\ fate[busy] = "none"
      /\ s.kind = "template"
  BY AtSetFacts
<1>2. s.tid \in Tids /\ s.read \in Seq(Fields)
  BY <1>1, SetShape
<1>3. pos \in Nat \ {0} /\ store \in [Stateful -> [Tids -> Seq(Fields)]]
  BY DEF IInv, Typed
<1>4. /\ store' = [store EXCEPT ![Version(busy)][s.tid] = s.read]
      /\ loaded' = loaded \cup {<<busy, pos>>} /\ pos' = pos + 1
      /\ UNCHANGED <<sent, wire, queue, busy, out, fate, entered>>
  BY DEF queueVars
<1>5. /\ store' \in [Stateful -> [Tids -> Seq(Fields)]]
      /\ \A v \in Stateful, t \in Tids :
            store'[v][t] = IF v = Version(busy) /\ t = s.tid THEN s.read ELSE store[v][t]
  <2> HIDE DEF s
  <2>1. \A v \in Stateful :
          store'[v] = IF v = Version(busy) THEN [store[v] EXCEPT ![s.tid] = s.read]
                      ELSE store[v]
    BY <1>3, <1>4
  <2>2. \A v \in Stateful : store[v] \in [Tids -> Seq(Fields)]
    BY <1>3
  <2>3. ASSUME NEW v \in Stateful PROVE store'[v] \in [Tids -> Seq(Fields)]
    <3>1. [store[v] EXCEPT ![s.tid] = s.read] \in [Tids -> Seq(Fields)]
      BY <1>2, <2>2
    <3> QED BY <2>1, <2>2, <3>1
  <2>4. store' \in [Stateful -> [Tids -> Seq(Fields)]]
    BY <1>3, <1>4, <2>3
  <2> QED BY <1>2, <2>1, <2>2, <2>4
<1>6. Typed' /\ OnePlace'
  BY <1>4, <1>5, DecoderPlaces
<1>7. LoadedInTurn'
  <2>1. \A x \in loaded : x[2] \in Nat
    BY SetShape DEF IInv, LoadedInTurn
  <2> QED BY <1>1, <1>3, <1>4, <2>1 DEF IInv, LoadedInTurn
<1>8. StoreHasSource'
  <2> SUFFICES ASSUME NEW v \in Stateful, NEW t \in Tids
               PROVE  \/ Named(v, t)' = {} /\ store'[v][t] = <<>>
                      \/ \E x \in Named(v, t)' : Set(x[1], x[2]).read = store'[v][t]
    BY DEF StoreHasSource
  <2>1. CASE v = Version(busy) /\ t = s.tid
    <3>1. <<busy, pos>> \in Named(v, t)'
      BY <1>4, <2>1 DEF Named
    <3>2. Set(<<busy, pos>>[1], <<busy, pos>>[2]).read = store'[v][t]
      BY <1>5, <2>1
    <3> QED BY <3>1, <3>2
  <2>2. CASE ~(v = Version(busy) /\ t = s.tid)
    <3>1. Named(v, t)' = Named(v, t)
      BY <1>4, <2>2 DEF Named
    <3>2. store'[v][t] = store[v][t]
      BY <1>5, <2>2
    <3> QED BY <3>1, <3>2 DEF IInv, StoreHasSource
  <2> QED BY <2>1, <2>2
<1>9. OutIsOfBusy' /\ Whole'
  BY <1>3, <1>4 DEF IInv, OutIsOfBusy, Whole
<1>10. MisreadHasCause'
  BY <1>4 DEF IInv, MisreadHasCause, TemplatesFor
<1>11. DecodableIsDecoded'
  <2> SUFFICES ASSUME NEW i \in 1 .. pos, busy # Idle, Set(busy, i).kind = "data",
                      Decodable(busy, i)'
               PROVE  \A k \in 1 .. RowsRead(busy, Len(Set(busy, i).flows)) :
                          \E r \in out : /\ r.set = i /\ Faithful(r)
                                         /\ r.src[1] = Set(busy, i).flows[k]
    BY <1>3, <1>4 DEF DecodableIsDecoded
  <2>1. i \in 1 .. (pos - 1)
    BY <1>1, <1>3
  <2>2. {x \in loaded' : Defines(x, busy, i) /\ (x[1] = busy => x[2] < i)}
          = {x \in loaded : Defines(x, busy, i) /\ (x[1] = busy => x[2] < i)}
    BY <1>3, <1>4, <2>1
  <2>3. Decodable(busy, i)
    BY <1>4, <2>2 DEF Decodable
  <2> QED BY <2>1, <2>3 DEF IInv, DecodableIsDecoded
<1> QED BY <1>6, <1>7, <1>8, <1>9, <1>10, <1>11 DEF IInv

LEMMA DecodeSetSafe == ASSUME IInv, DecodeSet PROVE IInv'
<1> USE DEF DecodeSet
<1> DEFINE fields == OnFile(busy, pos)
           new == Decoded(busy, pos, fields)
<1>1. /\ busy \in Datagrams /\ pos \in DOMAIN Sets(busy) /\ fate[busy] = "none"
      /\ Set(busy, pos).kind \in {"data", "counters", "skipped"}
  BY AtSetFacts
<1>2. Set(busy, pos).tid \in Tids /\ pos \in Nat \ {0} /\ Idle \notin Datagrams
  BY <1>1, SetShape, ExportAssumption
<1>3. /\ out' = out \cup new /\ pos' = pos + 1
      /\ UNCHANGED <<sent, wire, queue, busy, store, loaded, fate, entered>>
  BY DEF queueVars
<1>4. Version(busy) \in Stateful =>
        \/ Named(Version(busy), Set(busy, pos).tid) = {} /\ fields = <<>>
        \/ \E x \in Named(Version(busy), Set(busy, pos).tid) :
               Set(x[1], x[2]).read = fields
  BY <1>2 DEF IInv, StoreHasSource, OnFile
<1>5. Version(busy) \in Stateful /\ fields # <<>>
        => \E x \in loaded : /\ Set(x[1], x[2]).kind = "template"
                             /\ Version(x[1]) = Version(busy)
                             /\ Set(x[1], x[2]).tid = Set(busy, pos).tid
                             /\ Set(x[1], x[2]).read = fields
  BY <1>4 DEF IInv, LoadedInTurn, Named
<1>6. \A r \in new : /\ r.from = busy /\ r.set = pos
                     /\ \/ Faithful(r)
                        \/ Set(busy, pos).kind = "counters"
                        \/ \E x \in loaded : Contradicts(x, busy, pos)
  <2> HIDE DEF fields
  <2> QED BY <1>1, <1>5, DecodedExplained
<1> HIDE DEF new
<1>7. Typed' /\ OnePlace'
  BY <1>3, DecoderPlaces DEF IInv, Typed
<1>8. LoadedInTurn' /\ StoreHasSource' /\ Whole'
  <2>1. \A x \in loaded : x[2] \in Nat
    BY SetShape DEF IInv, LoadedInTurn
  <2>2. LoadedInTurn'
    BY <1>2, <1>3, <2>1 DEF IInv, LoadedInTurn
  <2>3. StoreHasSource'
    BY <1>3 DEF IInv, StoreHasSource, Named
  <2>4. Whole'
    BY <1>3 DEF IInv, Whole
  <2> QED BY <2>2, <2>3, <2>4
<1>9. OutIsOfBusy'
  BY <1>1, <1>2, <1>3, <1>6 DEF IInv, OutIsOfBusy
<1>10. MisreadHasCause'
  <2>1. \A r \in entered \cup out : TemplatesFor(r)' = TemplatesFor(r)
    BY <1>3 DEF TemplatesFor
  <2>2. \A r \in new : TemplatesFor(r)' = loaded
    BY <1>1, <1>3, <1>6 DEF TemplatesFor
  <2>3. ASSUME NEW r \in new
        PROVE  \/ Faithful(r) \/ Set(r.from, r.set).kind = "counters"
               \/ \E x \in loaded : Contradicts(x, r.from, r.set)
    BY <1>6
  <2> QED BY <1>3, <2>1, <2>2, <2>3 DEF IInv, MisreadHasCause
<1>11. DecodableIsDecoded'
  <2> SUFFICES ASSUME NEW i \in 1 .. pos, Set(busy, i).kind = "data", Decodable(busy, i),
                      NEW k \in 1 .. RowsRead(busy, Len(Set(busy, i).flows))
               PROVE  \E r \in out \cup new : /\ r.set = i /\ Faithful(r)
                                             /\ r.src[1] = Set(busy, i).flows[k]
    BY <1>2, <1>3 DEF DecodableIsDecoded, Decodable
  <2>1. CASE i # pos
    <3>1. i \in 1 .. (pos - 1) /\ busy # Idle
      BY <1>1, <1>2, <2>1
    <3> QED BY <3>1 DEF IInv, DecodableIsDecoded
  <2>2. CASE i = pos
    <3>1. Addresses(Set(busy, pos).layout)
      BY <2>2 DEF Decodable
    <3>2. (IF Version(busy) \in Stateful THEN fields ELSE FixedLayout) = Set(busy, pos).layout
      <4>1. CASE Version(busy) \in Stateful
        <5>1. PICK y \in loaded : Defines(y, busy, pos)
          BY <2>2, <4>1 DEF Decodable
        <5>2. y \in Named(Version(busy), Set(busy, pos).tid)
          BY <5>1 DEF Defines, Named
        <5>3. PICK x \in Named(Version(busy), Set(busy, pos).tid) :
                  Set(x[1], x[2]).read = fields
          BY <1>4, <4>1, <5>2
        <5>4. Defines(x, busy, pos) /\ (x[1] = busy => x[2] < pos)
          BY <1>1, <5>3 DEF IInv, LoadedInTurn, Named, Defines
        <5>5. ~Contradicts(x, busy, pos)
          BY <2>2, <4>1, <5>3, <5>4 DEF Decodable, Named
        <5> QED BY <4>1, <5>3, <5>4, <5>5 DEF Contradicts
      <4>2. CASE Version(busy) \notin Stateful
        BY <1>1, <2>2, <4>2, SetShape
      <4> QED BY <4>1, <4>2
    <3>3. new = Rows(busy, pos, Set(busy, pos).layout)
      BY <2>2, <3>2 DEF Decoded, new
    <3>4. PICK r \in new : Faithful(r) /\ r.src[1] = Set(busy, pos).flows[k]
      BY <1>1, <2>2, <3>1, <3>3, RowsFaithful
    <3> QED BY <1>6, <2>2, <3>4
  <2> QED BY <2>1, <2>2
<1> QED BY <1>7, <1>8, <1>9, <1>10, <1>11 DEF IInv

\* The decoder is done with its datagram, and the pipeline takes none, some or
\* all of its records.
LEMMA LeaveSafe ==
    ASSUME IInv, UNCHANGED <<sent, wire, queue, store, loaded>>,
           busy' = Idle, pos' = 1, out' = {},
           \/ busy = Idle /\ fate' = fate /\ entered' = entered
           \/ /\ busy # Idle
              /\ \E how \in {"failed", "ingested", "cancelled"} :
                    /\ fate' = [fate EXCEPT ![busy] = how]
                    /\ \/ how = "ingested" /\ entered' \subseteq entered \cup out
                       \/ entered' = entered
    PROVE  IInv'
<1>1. Idle \notin Datagrams
  BY ExportAssumption
<1>2. /\ \A x \in Datagrams : x # busy => fate'[x] = fate[x]
      /\ busy \in Datagrams => fate[busy] = "none" /\ fate'[busy] \in {"failed", "ingested", "cancelled"}
  BY <1>1 DEF IInv, Typed, OnePlace, Pending
<1>3. Typed'
  BY DEF IInv, Typed, Fates
<1>4. OnePlace'
  <2>1. \A x : (Unsent(x)' <=> Unsent(x)) /\ (Queued(x)' <=> Queued(x))
    <3>1. \A x : Unsent(x)' <=> Unsent(x)
      BY DEF Unsent
    <3>2. \A x : Queued(x)' <=> Queued(x)
      BY DEF Queued
    <3> QED BY <3>1, <3>2
  <2>2. ASSUME NEW x \in Datagrams, Pending(x)' PROVE Pending(x) /\ x # busy
    BY <1>1, <2>1, <2>2 DEF IInv, OnePlace, Pending
  <2>3. \A x \in Datagrams : Pending(x)' => fate'[x] = "none"
    BY <1>2, <2>2 DEF IInv, OnePlace
  <2> QED BY <1>1, <2>1, <2>3 DEF IInv, OnePlace
<1>5. LoadedInTurn'
  BY <1>1, <1>2 DEF IInv, LoadedInTurn
<1>6. StoreHasSource' /\ OutIsOfBusy'
  BY DEF IInv, StoreHasSource, Named, OutIsOfBusy
<1>7. \A r \in entered : r.from \in Datagrams /\ r.from # busy
                         /\ fate[r.from] \in {"ingested", "posted"}
  BY <1>1, <1>2 DEF IInv, Whole
<1>8. \A r \in entered' \ entered :
          r \in out /\ r.from = busy /\ busy \in Datagrams /\ fate'[busy] = "ingested"
  BY DEF IInv, Typed, OutIsOfBusy
<1>9. Whole'
  BY <1>2, <1>7, <1>8 DEF Whole
<1>10. MisreadHasCause'
  <2>1. \A r \in entered : TemplatesFor(r)' = TemplatesFor(r)
    BY <1>2, <1>7 DEF TemplatesFor
  <2>2. \A r \in entered' \ entered : TemplatesFor(r)' = loaded /\ TemplatesFor(r) = loaded
    BY <1>2, <1>8 DEF TemplatesFor
  <2> QED BY <1>8, <2>1, <2>2 DEF IInv, MisreadHasCause
<1>11. DecodableIsDecoded'
  BY DEF DecodableIsDecoded
<1> QED BY <1>3, <1>4, <1>5, <1>6, <1>9, <1>10, <1>11 DEF IInv

LEMMA EndOfDatagramSafe == ASSUME IInv, Fail \/ Ingest \/ Stop PROVE IInv'
<1>1. CASE Fail
  <2>1. busy # Idle /\ entered' = entered
    BY <1>1 DEF Fail, AtSet, queueVars
  <2> QED BY <1>1, <2>1, LeaveSafe DEF Fail, Leave
<1>2. CASE Ingest
  <2>1. entered' \subseteq entered \cup out
    BY <1>2 DEF Ingest, SubmitBatch, Fits
  <2> QED BY <1>2, <2>1, LeaveSafe DEF Ingest, Leave
<1>3. CASE Stop
  BY <1>3, LeaveSafe DEF Stop, queueVars
<1> QED BY <1>1, <1>2, <1>3

-----------------------------------------------------------------------------
(* The endpoint *)

\* A parser of its own has the template of the nearest set before.
LEMMA OwnTemplateSource ==
    ASSUME NEW d \in Datagrams, NEW i \in DOMAIN Sets(d), OwnTemplate(d, i) # <<>>
    PROVE  \E j \in DOMAIN Sets(d) :
               /\ Set(d, j).kind = "template" /\ Set(d, j).tid = Set(d, i).tid
               /\ Set(d, j).read = OwnTemplate(d, i)
<1> DEFINE defs == {j \in 1 .. i - 1 : Set(d, j).kind = "template"
                                     /\ Set(d, j).tid = Set(d, i).tid}
<1>1. i \in Nat \ {0} /\ \A j \in 1 .. i - 1 : j \in DOMAIN Sets(d)
  BY DatagramShape
<1>2. defs # {}
  BY DEF OwnTemplate
<1>3. IsFiniteSet(defs) /\ defs \in SUBSET Int
  <2>1. defs \subseteq 1 .. i - 1 /\ IsFiniteSet(1 .. i - 1)
    BY <1>1, FS_Interval
  <2>2. IsFiniteSet(defs)
    <3> HIDE DEF defs
    <3> QED BY <2>1, FS_Subset
  <2> QED BY <1>1, <2>1, <2>2
<1>4. PICK m \in defs : \A x \in defs : x <= m
  <2> HIDE DEF defs
  <2> QED BY <1>2, <1>3, LargestExists
<1> DEFINE last == CHOOSE j \in defs : \A k \in defs : k <= j
<1>5. last \in defs
  <2> HIDE DEF defs
  <2> QED BY <1>4
<1>6. OwnTemplate(d, i) = Set(d, last).read
  BY <1>2 DEF OwnTemplate
<1> QED BY <1>1, <1>5, <1>6

LEMMA PostSafe == ASSUME IInv, NEW d \in wire, Post(d) PROVE IInv'
<1> USE DEF Post
<1> DEFINE posted == UNION {Decoded(d, i, OwnTemplate(d, i)) : i \in Readable(d)}
           own == {<<d, j>> : j \in DOMAIN Sets(d)}
<1>1. d \in Datagrams /\ fate[d] = "none" /\ ~Unsent(d) /\ ~Queued(d) /\ d # busy
  BY DEF IInv, Typed, OnePlace, Pending
<1>2. /\ UNCHANGED <<sent, queue, busy, pos, out, store, loaded>> /\ wire' = wire \ {d}
      /\ \/ fate' = [fate EXCEPT ![d] = "failed"] /\ entered' = entered
         \/ /\ fate' = [fate EXCEPT ![d] = "posted"]
            /\ entered' \subseteq entered \cup posted
  <2>1. SubmitBatch(posted, Rank(posted)) => entered' \subseteq entered \cup posted
    <3> HIDE DEF posted
    <3> QED BY DEF SubmitBatch, Fits
  <2> QED BY <2>1 DEF queueVars, decoderVars
<1>3. ASSUME NEW r \in posted
      PROVE  /\ r.from = d
             /\ \/ Faithful(r) \/ Set(d, r.set).kind = "counters"
                \/ \E x \in own : Contradicts(x, d, r.set)
  <2>1. PICK i \in Readable(d) : r \in Decoded(d, i, OwnTemplate(d, i))
    OBVIOUS
  <2>2. i \in DOMAIN Sets(d)
    BY DEF Readable
  <2>3. OwnTemplate(d, i) # <<>> =>
          \E x \in own : /\ Set(x[1], x[2]).kind = "template"
                         /\ Version(x[1]) = Version(d)
                         /\ Set(x[1], x[2]).tid = Set(d, i).tid
                         /\ Set(x[1], x[2]).read = OwnTemplate(d, i)
    <3> SUFFICES ASSUME OwnTemplate(d, i) # <<>>
                 PROVE  \E x \in own : /\ Set(x[1], x[2]).kind = "template"
                                       /\ Version(x[1]) = Version(d)
                                       /\ Set(x[1], x[2]).tid = Set(d, i).tid
                                       /\ Set(x[1], x[2]).read = OwnTemplate(d, i)
      OBVIOUS
    <3>1. PICK j \in DOMAIN Sets(d) :
              /\ Set(d, j).kind = "template" /\ Set(d, j).tid = Set(d, i).tid
              /\ Set(d, j).read = OwnTemplate(d, i)
      BY <1>1, <2>2, OwnTemplateSource
    <3>2. <<d, j>> \in own /\ <<d, j>>[1] = d /\ <<d, j>>[2] = j
      OBVIOUS
    <3> HIDE DEF own
    <3> QED BY <3>1, <3>2
  <2>4. /\ r.from = d /\ r.set = i
        /\ \/ Faithful(r) \/ Set(d, i).kind = "counters"
           \/ \E x \in own : Contradicts(x, d, i)
    <3> HIDE DEF own
    <3> QED BY <1>1, <2>1, <2>2, <2>3, DecodedExplained
  <2> QED BY <2>4
<1> HIDE DEF posted, own
<1>4. /\ \A x \in Datagrams : x # d => fate'[x] = fate[x]
      /\ fate'[d] \in {"failed", "posted"}
  BY <1>1, <1>2 DEF IInv, Typed
<1>5. Typed'
  BY <1>1, <1>2 DEF IInv, Typed, Fates
<1>6. OnePlace'
  <2>1. \A x : (Unsent(x)' <=> Unsent(x)) /\ (Queued(x)' <=> Queued(x))
    <3>1. \A x : Unsent(x)' <=> Unsent(x)
      BY <1>2 DEF Unsent
    <3>2. \A x : Queued(x)' <=> Queued(x)
      BY <1>2 DEF Queued
    <3> QED BY <3>1, <3>2
  <2>2. ASSUME NEW x \in Datagrams, Pending(x)' PROVE Pending(x) /\ x # d
    BY <1>1, <1>2, <2>1, <2>2 DEF Pending
  <2>3. \A x \in Datagrams : Pending(x)' => fate'[x] = "none"
    BY <1>4, <2>2 DEF IInv, OnePlace
  <2> QED BY <1>2, <2>1, <2>3 DEF IInv, OnePlace
<1>7. LoadedInTurn'
  BY <1>2, <1>4 DEF IInv, LoadedInTurn
<1>8. StoreHasSource' /\ OutIsOfBusy'
  BY <1>2 DEF IInv, StoreHasSource, Named, OutIsOfBusy
<1>9. Whole'
  <2>1. \A r \in entered : r.from # d /\ r.from \in Datagrams
    BY <1>1 DEF IInv, Whole
  <2>2. \A r \in entered' \ entered : r.from = d /\ fate'[d] = "posted"
    BY <1>1, <1>2, <1>3 DEF IInv, Typed
  <2> QED BY <1>1, <1>4, <2>1, <2>2 DEF IInv, Whole
<1>10. MisreadHasCause'
  <2>1. \A r \in entered \cup out : r.from # d /\ (r.from \in Datagrams)
    BY <1>1 DEF IInv, Whole, OutIsOfBusy, Typed
  <2>2. \A r \in entered \cup out : TemplatesFor(r)' = TemplatesFor(r)
    BY <1>2, <1>4, <2>1 DEF TemplatesFor
  <2>3. \A r \in entered' \ entered : r \in posted /\ TemplatesFor(r)' = own
    BY <1>1, <1>2, <1>3 DEF IInv, Typed, TemplatesFor, own
  <2>4. \A r \in entered' \ entered :
          \/ Faithful(r) \/ Set(r.from, r.set).kind = "counters"
          \/ \E x \in TemplatesFor(r)' : Contradicts(x, r.from, r.set)
    BY <1>3, <2>3
  <2> QED BY <1>2, <2>2, <2>4 DEF IInv, MisreadHasCause
<1>11. DecodableIsDecoded'
  BY <1>2 DEF IInv, DecodableIsDecoded, Decodable
<1> QED BY <1>5, <1>6, <1>7, <1>8, <1>9, <1>10, <1>11 DEF IInv

-----------------------------------------------------------------------------
(* Theorems *)

LEMMA InitSafe == Init => IInv
<1> SUFFICES ASSUME Init PROVE IInv
  OBVIOUS
<1>1. Idle \notin Datagrams /\ DOMAIN queue = {} /\ queue \in Seq(Datagrams)
  BY ExportAssumption DEF Init
<1>2. Typed
  <2>1. store \in [Stateful -> [Tids -> Seq(Fields)]]
    BY DEF Init
  <2>2. fate \in [Datagrams -> Fates] /\ sent \in [Exporters -> Nat]
    BY DEF Init, Fates
  <2> QED BY <1>1, <2>1, <2>2 DEF Init, Typed
<1>3. OnePlace
  BY <1>1 DEF Init, OnePlace, Pending, Queued
<1>4. LoadedInTurn /\ StoreHasSource /\ OutIsOfBusy
  BY DEF Init, LoadedInTurn, StoreHasSource, Named, OutIsOfBusy
<1>5. Whole /\ MisreadHasCause /\ DecodableIsDecoded
  BY DEF Init, QueueInit, Whole, MisreadHasCause, DecodableIsDecoded
<1> QED BY <1>2, <1>3, <1>4, <1>5 DEF IInv

LEMMA StepSafe == IInv /\ [Next]_vars => IInv'
<1> SUFFICES ASSUME IInv, [Next]_vars PROVE IInv'
  OBVIOUS
<1>1. ASSUME NEW e \in Exporters, Send(e) PROVE IInv'
  BY <1>1, SendSafe
<1>2. ASSUME NEW d \in wire, Receive(d) PROVE IInv'
  BY <1>2, ReceiveSafe
<1>3. ASSUME NEW d \in wire, Post(d) PROVE IInv'
  BY <1>3, PostSafe
<1>4. CASE Take
  BY <1>4, TakeSafe
<1>5. CASE Decode
  BY <1>5, LoadTemplateSafe, DecodeSetSafe, EndOfDatagramSafe DEF Decode
<1>6. CASE Stop
  BY <1>6, EndOfDatagramSafe
<1>7. CASE Drain
  BY <1>7, DrainSafe
<1>8. CASE UNCHANGED vars
  <2>1. UNCHANGED <<decoderVars, entered, fate>>
    BY <1>8 DEF vars, queueVars
  <2>2. Decoding'
    BY <2>1, AsideSafe
  <2>3. Typed' /\ OnePlace'
    BY <1>8 DEF vars, decoderVars, IInv, Typed, OnePlace, Pending, Queued, Unsent
  <2> QED BY <2>2, <2>3 DEF IInv, Decoding
<1> QED BY <1>1, <1>2, <1>3, <1>4, <1>5, <1>6, <1>7, <1>8 DEF Next

LEMMA Invariance == Spec => []IInv
<1> QED BY InitSafe, StepSafe, PTL DEF Spec

\* What the template caches of netflow.py garble, in the listener or at the
\* endpoint, another's template of the same id or a misread one explains: no loss,
\* reordering or cut does.
THEOREM MisreadsHaveCauses == Spec => []MisreadHasCause
<1>1. IInv => MisreadHasCause
  BY DEF IInv
<1> QED BY Invariance, <1>1, PTL

\* _decode_data_set leaves out no flow of a set whose template is uncontested and read
\* as it was written, and the v5 loop none of the first DEFAULT_PCAP_BATCH_CAP.
THEOREM DecodableSetsAreDecoded == Spec => []DecodableIsDecoded
<1>1. IInv => DecodableIsDecoded
  BY DEF IInv
<1> QED BY Invariance, <1>1, PTL

\* The listener's loop and the endpoint submit the records of a datagram that
\* was decoded to its end, and nothing of one that raised.
THEOREM WholeDatagramsOnly == Spec => []OnlyWholeDatagrams
<1>1. IInv => OnlyWholeDatagrams
  BY DEF IInv, Whole, OnlyWholeDatagrams
<1> QED BY Invariance, <1>1, PTL

-----------------------------------------------------------------------------
(* The queues within their bounds *)

\* A batch whose records are told apart by their place in the datagram.
Numbered(B) ==
    /\ IsFiniteSet(B)
    /\ \A r \in B : r.set \in Nat /\ r.row \in Nat
    /\ \A q, r \in B : q.set = r.set /\ q.row = r.row => q = r

\* What any decoder can make of the exporters' datagrams.
Reports == UNION {Decoded(x[1], x[2], x[3]) : x \in Datagrams \X Nat \X Seq(Fields)}

\* The order of appending numbers the records of a batch.
LEMMA RankEnumerates ==
    ASSUME NEW B, Numbered(B)
    PROVE  Rank(B) \in Ranks(B)
<1> DEFINE Before(r) == {q \in B : Earlier(q, r)}
<1>1. Cardinality(B) \in Nat
  BY FS_CardinalityType DEF Numbered
<1>2. \A r \in B : r.set \in Nat /\ r.row \in Nat
  BY DEF Numbered
<1>3. ASSUME NEW r \in B
      PROVE  IsFiniteSet(Before(r)) /\ Cardinality(Before(r)) \in 0 .. Cardinality(B) - 1
  <2>1. Before(r) \in SUBSET B /\ Before(r) # B
    BY <1>2 DEF Earlier
  <2> HIDE DEF Before
  <2>2. IsFiniteSet(Before(r)) /\ Cardinality(Before(r)) <= Cardinality(B)
        /\ Cardinality(Before(r)) # Cardinality(B)
    BY <2>1, FS_Subset DEF Numbered
  <2>3. Cardinality(Before(r)) \in Nat
    BY <2>2, FS_CardinalityType
  <2> QED BY <1>1, <2>2, <2>3
<1>4. ASSUME NEW q \in B, NEW r \in B, Earlier(q, r)
      PROVE  Cardinality(Before(q)) # Cardinality(Before(r))
  <2>1. Before(q) \in SUBSET Before(r) /\ Before(q) # Before(r)
    BY <1>2, <1>4 DEF Earlier
  <2> HIDE DEF Before
  <2> QED BY <1>3, <2>1, FS_Subset
<1>5. \A q, r \in B : q = r \/ Earlier(q, r) \/ Earlier(r, q)
  BY <1>2 DEF Numbered, Earlier
<1>6. Rank(B) = [r \in B |-> Cardinality(Before(r))]
  BY DEF Rank
<1> HIDE DEF Before
<1> QED BY <1>3, <1>4, <1>5, <1>6 DEF Ranks

\* A batch takes no more room than there is.
LEMMA BatchFits ==
    ASSUME NEW B, IsFiniteSet(B), NEW rank \in Ranks(B), waiting \in 0 .. PipelineMax,
           SubmitBatch(B, rank)
    PROVE  waiting' \in 0 .. PipelineMax
<1> DEFINE F == Fits(B, rank)
           room == PipelineMax - waiting
<1>1. room \in Nat /\ waiting \in Nat /\ PipelineMax \in Nat
  BY QueueAssumption
<1>2. \A r \in B : rank[r] \in Nat
  <2>1. Cardinality(B) \in Nat
    BY FS_CardinalityType
  <2> QED BY <2>1 DEF Ranks
<1>3. \A r \in F : r \in B /\ rank[r] \in 0 .. room - 1
  BY <1>1, <1>2 DEF Fits
<1>4. \A q, r \in F : rank[q] = rank[r] => q = r
  BY <1>3 DEF Ranks
<1> HIDE DEF F, room
<1>5. [r \in F |-> rank[r]] \in Injection(F, 0 .. room - 1)
  BY <1>3, <1>4 DEF Injection, IsInjective
<1>6. IsFiniteSet(0 .. room - 1) /\ Cardinality(0 .. room - 1) = room
  <2>1. 0 \in Int /\ room - 1 \in Int
    BY <1>1
  <2>2. Cardinality(0 .. room - 1) = IF 0 > room - 1 THEN 0 ELSE (room - 1) - 0 + 1
    BY <2>1, FS_Interval
  <2> QED BY <1>1, <2>1, <2>2, FS_Interval
<1>7. Cardinality(F) <= room /\ Cardinality(F) \in Nat
  BY <1>5, <1>6, FS_Injection, FS_CardinalityType
<1>8. waiting' = waiting + Cardinality(F)
  BY DEF SubmitBatch, F
<1> QED BY <1>1, <1>7, <1>8 DEF room

LEMMA DecodedNumbered ==
    ASSUME NEW d \in Datagrams, NEW i \in DOMAIN Sets(d), NEW fields \in Seq(Fields)
    PROVE  /\ Numbered(Decoded(d, i, fields)) /\ Decoded(d, i, fields) \subseteq Reports
           /\ \A r \in Decoded(d, i, fields) : r.set = i
<1>1. i \in Nat
  BY SetShape
<1>2. Decoded(d, i, fields) \subseteq Reports
  <2>1. <<d, i, fields>> \in Datagrams \X Nat \X Seq(Fields)
    BY <1>1
  <2> QED BY <2>1 DEF Reports
<1>3. CASE Set(d, i).kind = "counters"
  <2>1. Decoded(d, i, fields) = {CounterRecord(d, i)}
    BY <1>3 DEF Decoded
  <2>2. CounterRecord(d, i).set = i /\ CounterRecord(d, i).row = 1
    BY DEF CounterRecord, RecordOf
  <2>3. IsFiniteSet({CounterRecord(d, i)})
    BY FS_Singleton
  <2>4. \A r \in Decoded(d, i, fields) : r = CounterRecord(d, i)
    BY <2>1
  <2> QED BY <1>1, <1>2, <2>1, <2>2, <2>3, <2>4 DEF Numbered
<1>4. CASE Set(d, i).kind = "data"
  <2> DEFINE f == IF Version(d) \in Stateful THEN fields ELSE FixedLayout
             n == RowsRead(d, Len(Body(Set(d, i))) \div Len(f))
             rec(row) == RecordOf(d, i, row,
                           Body(Set(d, i))[(row - 1) * Len(f) + LastIn(f, "src")],
                           Body(Set(d, i))[(row - 1) * Len(f) + LastIn(f, "dst")])
             R == {rec(row) : row \in 1 .. n}
  <2>1. f \in Seq(Fields)
    <3>1. FixedLayout \in Seq(Fields)
      BY DEF FixedLayout, Fields
    <3> QED BY <3>1
  <2>2. Decoded(d, i, fields) = Rows(d, i, f)
    BY <1>4 DEF Decoded
  <2>3. CASE ~Addresses(f)
    <3>1. Decoded(d, i, fields) = {}
      <4> HIDE DEF f
      <4> QED BY <2>2, <2>3 DEF Rows
    <3> QED BY <1>2, <3>1, FS_EmptySet DEF Numbered
  <2>4. CASE Addresses(f)
    <3>1. Decoded(d, i, fields) = R
      <4> HIDE DEF f
      <4> QED BY <2>2, <2>4 DEF Rows
    <3>2. n \in Nat
      <4>1. Len(f) \in Nat \ {0}
        <5> HIDE DEF f
        <5> QED BY <2>1, <2>4 DEF Addresses
      <4>2. Len(Body(Set(d, i))) \in Nat
        <5> DEFINE w == Len(Set(d, i).layout)
                   m == Len(Set(d, i).flows)
        <5>1. w \in Nat /\ m \in Nat
          BY SetShape
        <5>2. Body(Set(d, i)) = [k \in 1 .. m * w |->
                <<Set(d, i).flows[((k - 1) \div w) + 1], Set(d, i).layout[((k - 1) % w) + 1]>>]
          BY DEF Body
        <5> HIDE DEF w, m
        <5>3. m * w \in Nat
          BY <5>1
        <5> QED BY <5>2, <5>3
      <4> HIDE DEF f
      <4>3. Len(Body(Set(d, i))) \div Len(f) \in Nat
        BY <4>1, <4>2
      <4> QED BY <4>3, ExportAssumption DEF RowsRead
    <3> HIDE DEF n
    <3>3. \A row \in 1 .. n : rec(row).set = i /\ rec(row).row = row
      BY DEF RecordOf
    <3> HIDE DEF rec
    <3>4. [row \in 1 .. n |-> rec(row)] \in Surjection(1 .. n, R)
      BY DEF Surjection
    <3>5. IsFiniteSet(R)
      <4>1. IsFiniteSet(1 .. n)
        BY <3>2, FS_Interval
      <4> HIDE DEF R
      <4> QED BY <3>4, <4>1, FS_Surjection
    <3>6. Numbered(R) /\ \A r \in R : r.set = i
      BY <1>1, <3>2, <3>3, <3>5 DEF Numbered
    <3> HIDE DEF R
    <3> QED BY <1>2, <3>1, <3>6
  <2> HIDE DEF f, n, R
  <2> QED BY <2>3, <2>4
<1>5. CASE Set(d, i).kind \notin {"counters", "data"}
  <2>1. Decoded(d, i, fields) = {}
    BY <1>5 DEF Decoded
  <2> QED BY <1>2, <2>1, FS_EmptySet DEF Numbered
<1> QED BY <1>3, <1>4, <1>5

\* A template on file or in the datagram itself is a sequence of fields.
LEMMA TemplatesTyped ==
    ASSUME Typed, NEW d \in Datagrams, NEW i \in DOMAIN Sets(d)
    PROVE  OnFile(d, i) \in Seq(Fields) /\ OwnTemplate(d, i) \in Seq(Fields)
<1>1. OnFile(d, i) \in Seq(Fields)
  <2>1. Set(d, i).tid \in Tids
    BY SetShape
  <2>2. Version(d) \in Stateful => store[Version(d)][Set(d, i).tid] \in Seq(Fields)
    BY <2>1 DEF Typed
  <2> QED BY <2>2 DEF OnFile
<1>2. CASE OwnTemplate(d, i) = <<>>
  BY <1>1, <1>2
<1>3. CASE OwnTemplate(d, i) # <<>>
  <2>1. PICK j \in DOMAIN Sets(d) : Set(d, j).read = OwnTemplate(d, i)
    BY <1>3, OwnTemplateSource
  <2>2. Set(d, j).read \in Seq(Fields)
    BY SetShape
  <2> QED BY <1>1, <2>1, <2>2
<1> QED BY <1>2, <1>3

\* What the decoder holds, and what the endpoint submits, is a numbered batch.
LEMMA OutGrows ==
    ASSUME Typed, Numbered(out), out \subseteq Reports,
           \A r \in out : r.set < pos, DecodeSet
    PROVE  Numbered(out)' /\ (out \subseteq Reports)' /\ (\A r \in out : r.set < pos)'
<1> DEFINE new == Decoded(busy, pos, OnFile(busy, pos))
<1>1. /\ busy \in Datagrams /\ pos \in DOMAIN Sets(busy) /\ pos \in Nat
      /\ out' = out \cup new /\ pos' = pos + 1
  BY DEF DecodeSet, AtSet, Typed
<1>2. Numbered(new) /\ new \subseteq Reports /\ \A r \in new : r.set = pos
  <2>1. OnFile(busy, pos) \in Seq(Fields)
    BY <1>1, TemplatesTyped
  <2> QED BY <1>1, <2>1, DecodedNumbered
<1> HIDE DEF new
<1>3. IsFiniteSet(out \cup new)
  BY <1>2, FS_Union DEF Numbered
<1>4. \A q, r \in out \cup new : q.set = r.set /\ q.row = r.row => q = r
  BY <1>1, <1>2 DEF Numbered
<1>5. Reports' = Reports
  OBVIOUS
<1>6. \A r \in out \cup new : r.set \in Nat /\ r.row \in Nat /\ r.set < pos + 1
  BY <1>1, <1>2 DEF Numbered
<1> QED BY <1>1, <1>2, <1>3, <1>4, <1>5, <1>6 DEF Numbered

LEMMA PostedNumbered ==
    ASSUME Typed, NEW d \in Datagrams
    PROVE  LET posted == UNION {Decoded(d, i, OwnTemplate(d, i)) : i \in Readable(d)}
           IN  Numbered(posted) /\ posted \subseteq Reports
<1> DEFINE Part(i) == Decoded(d, i, OwnTemplate(d, i))
           parts == {Part(i) : i \in Readable(d)}
<1>1. \A i \in Readable(d) : i \in DOMAIN Sets(d)
  BY DEF Readable
<1>2. ASSUME NEW i \in Readable(d)
      PROVE  Numbered(Part(i)) /\ Part(i) \subseteq Reports /\ \A r \in Part(i) : r.set = i
  <2>1. OwnTemplate(d, i) \in Seq(Fields)
    BY <1>1, TemplatesTyped
  <2> QED BY <1>1, <2>1, DecodedNumbered
<1>3. IsFiniteSet(Readable(d))
  <2>1. DOMAIN Sets(d) = 1 .. Len(Sets(d)) /\ Len(Sets(d)) \in Nat
    BY DatagramShape
  <2>2. IsFiniteSet(1 .. Len(Sets(d)))
    BY <2>1, FS_Interval
  <2>3. Readable(d) \in SUBSET (1 .. Len(Sets(d)))
    BY <1>1, <2>1
  <2> QED BY <2>2, <2>3, FS_Subset
<1> HIDE DEF Part
<1>4. IsFiniteSet(parts)
  <2>1. [i \in Readable(d) |-> Part(i)] \in Surjection(Readable(d), parts)
    BY DEF Surjection
  <2> HIDE DEF parts
  <2> QED BY <1>3, <2>1, FS_Surjection
<1>5. IsFiniteSet(UNION parts)
  <2>1. \A T \in parts : IsFiniteSet(T)
    BY <1>2 DEF Numbered
  <2> HIDE DEF parts
  <2> QED BY <1>4, <2>1, FS_UNION
<1>6. \A r \in UNION parts : \E i \in Readable(d) : r \in Part(i)
  OBVIOUS
<1> HIDE DEF parts
<1>7. \A r \in UNION parts : r.set \in Nat /\ r.row \in Nat /\ r \in Reports
  BY <1>2, <1>6 DEF Numbered
<1>8. ASSUME NEW q \in UNION parts, NEW r \in UNION parts, q.set = r.set, q.row = r.row
      PROVE  q = r
  <2>1. PICK i \in Readable(d) : q \in Part(i)
    BY <1>6
  <2>2. PICK j \in Readable(d) : r \in Part(j)
    BY <1>6
  <2>3. i = j
    BY <1>2, <1>8, <2>1, <2>2
  <2> QED BY <1>2, <1>8, <2>1, <2>2, <2>3 DEF Numbered
<1>9. Numbered(UNION parts) /\ UNION parts \subseteq Reports
  BY <1>5, <1>7, <1>8 DEF Numbered
<1> QED BY <1>9 DEF parts, Part

Bounded ==
    /\ Numbered(out) /\ out \subseteq Reports /\ \A r \in out : r.set < pos
    /\ Len(queue) <= ListenerMax
    /\ waiting \in 0 .. PipelineMax
    /\ stopped \in BOOLEAN

LEMMA BatchIsStep ==
    ASSUME NEW B, Numbered(B), B \subseteq Reports, waiting \in 0 .. PipelineMax,
           SubmitBatch(B, Rank(B))
    PROVE  QueueNext(Reports) /\ waiting' \in 0 .. PipelineMax
<1>1. Rank(B) \in Ranks(B)
  BY RankEnumerates
<1>2. waiting' \in 0 .. PipelineMax
  BY <1>1, BatchFits DEF Numbered
<1> QED BY <1>1, <1>2 DEF QueueNext

\* Only Ingest, Post and Drain touch the pipeline's queue, and as its module says.
LEMMA FeedStep ==
    ASSUME Typed, Bounded, [Next]_vars
    PROVE  [QueueNext(Reports)]_queueVars /\ waiting' \in 0 .. PipelineMax
<1>1. CASE Ingest
  BY <1>1, BatchIsStep DEF Ingest, Bounded
<1>2. ASSUME NEW d \in wire, Post(d)
      PROVE  [QueueNext(Reports)]_queueVars /\ waiting' \in 0 .. PipelineMax
  <2> DEFINE posted == UNION {Decoded(d, i, OwnTemplate(d, i)) : i \in Readable(d)}
  <2>1. Numbered(posted) /\ posted \subseteq Reports
    BY PostedNumbered DEF Typed
  <2>2. UNCHANGED queueVars \/ SubmitBatch(posted, Rank(posted))
    BY <1>2 DEF Post
  <2> HIDE DEF posted
  <2> QED BY <2>1, <2>2, BatchIsStep DEF Bounded, queueVars
<1>3. CASE Drain
  BY <1>3, QueueAssumption DEF Drain, Consume, QueueNext, Bounded
<1>4. CASE UNCHANGED queueVars
  BY <1>4 DEF Bounded, queueVars
<1>5. ASSUME NEW e \in Exporters, Send(e) PROVE UNCHANGED queueVars
  BY <1>5 DEF Send
<1>6. ASSUME NEW d \in wire, Receive(d) PROVE UNCHANGED queueVars
  BY <1>6 DEF Receive
<1>7. Take \/ LoadTemplate \/ DecodeSet \/ Fail \/ Stop \/ UNCHANGED vars => UNCHANGED queueVars
  BY DEF Take, LoadTemplate, DecodeSet, Fail, Stop, vars
<1> QED BY <1>1, <1>2, <1>3, <1>4, <1>5, <1>6, <1>7 DEF Next, Decode

LEMMA BoundedStep ==
    ASSUME Typed, Bounded, [Next]_vars
    PROVE  Bounded'
<1>1. waiting' \in 0 .. PipelineMax
  BY FeedStep
<1>2. Numbered({}) /\ {} \subseteq Reports
  BY FS_EmptySet DEF Numbered
<1>3. ASSUME UNCHANGED <<out, pos, queue, stopped>> PROVE Bounded'
  BY <1>1, <1>3 DEF Bounded, Numbered
<1>4. ASSUME out' = {}, UNCHANGED queue, stopped' \in BOOLEAN PROVE Bounded'
  BY <1>1, <1>2, <1>4 DEF Bounded, Numbered
<1>5. ASSUME NEW e \in Exporters, Send(e) PROVE Bounded'
  BY <1>3, <1>5 DEF Send, decoderVars
<1>6. ASSUME NEW d \in wire, Post(d) PROVE Bounded'
  BY <1>3, <1>6 DEF Post, decoderVars
<1>7. ASSUME NEW d \in wire, Receive(d) PROVE Bounded'
  <2>1. d \in Datagrams /\ queue \in Seq(Datagrams)
    BY DEF Typed
  <2>2. UNCHANGED <<out, pos, stopped>>
    BY <1>7 DEF Receive, decoderVars
  <2>3. Len(queue') <= ListenerMax
    BY <1>7, <2>1, ExportAssumption DEF Receive, Bounded
  <2> QED BY <1>1, <2>2, <2>3 DEF Bounded, Numbered
<1>8. CASE Take
  <2>1. Len(queue') <= ListenerMax
    <3>1. queue \in Seq(Datagrams) /\ queue # <<>> /\ queue' = Tail(queue)
      BY <1>8 DEF Take, Typed
    <3>2. Len(queue') = Len(queue) - 1 /\ Len(queue) \in Nat
      BY <3>1
    <3> QED BY <3>2, ExportAssumption DEF Bounded
  <2>2. out' = {} /\ stopped' = stopped
    BY <1>8 DEF Take
  <2> QED BY <1>1, <1>2, <2>1, <2>2 DEF Bounded, Numbered
<1>9. CASE LoadTemplate
  <2>1. UNCHANGED <<out, queue, stopped>> /\ pos' = pos + 1
    BY <1>9 DEF LoadTemplate
  <2>2. \A r \in out : r.set < pos + 1
    BY DEF Bounded, Numbered, Typed
  <2> QED BY <1>1, <2>1, <2>2 DEF Bounded, Numbered
<1>10. CASE DecodeSet
  <2>1. UNCHANGED <<queue, stopped>>
    BY <1>10 DEF DecodeSet
  <2>2. Numbered(out)' /\ (out \subseteq Reports)' /\ (\A r \in out : r.set < pos)'
    BY <1>10, OutGrows DEF Bounded
  <2> QED BY <1>1, <2>1, <2>2 DEF Bounded
<1>11. CASE Fail \/ Ingest
  BY <1>4, <1>11 DEF Fail, Ingest, Leave, Bounded
<1>12. CASE Stop
  BY <1>4, <1>12 DEF Stop
<1>13. CASE Drain
  BY <1>3, <1>13 DEF Drain, decoderVars
<1>14. CASE UNCHANGED vars
  BY <1>3, <1>14 DEF vars, decoderVars
<1> QED BY <1>5, <1>6, <1>7, <1>8, <1>9, <1>10, <1>11, <1>12, <1>13, <1>14 DEF Next, Decode

LEMMA BoundedInvariance == Spec => [](Typed /\ Bounded)
<1>1. Init => Bounded
  <2> SUFFICES ASSUME Init PROVE Bounded
    OBVIOUS
  <2>1. out = {} /\ queue = <<>> /\ waiting = 0 /\ stopped = FALSE
    BY DEF Init, QueueInit
  <2>2. Numbered(out)
    BY <2>1, FS_EmptySet DEF Numbered
  <2>3. ListenerMax \in Nat /\ PipelineMax \in Nat
    BY ExportAssumption, QueueAssumption
  <2>4. Len(queue) <= ListenerMax /\ waiting \in 0 .. PipelineMax
    BY <2>1, <2>3
  <2> QED BY <2>1, <2>2, <2>4 DEF Bounded
<1>2. IInv => Typed
  BY DEF IInv
<1>3. Typed /\ Bounded /\ [Next]_vars => Bounded'
  BY BoundedStep
<1> QED BY Invariance, <1>1, <1>2, <1>3, PTL DEF Spec

\* Neither queue is ever overfilled, and the listener's decoder and queue keep their
\* shapes: a batch submits exactly as many records as submit finds room for.
THEOREM ExportTyped == Spec => []TypeOK
<1>1. IInv /\ Bounded => TypeOK
  <2> SUFFICES ASSUME IInv, Bounded PROVE TypeOK
    OBVIOUS
  <2>1. \A r \in out : r.from = busy
    BY DEF IInv, OutIsOfBusy
  <2>2. Typed
    BY DEF IInv
  <2> QED BY <2>1, <2>2 DEF Typed, Bounded, TypeOK
<1> QED BY Invariance, BoundedInvariance, <1>1, PTL

\* The listener and the endpoint treat the pipeline's queue as its module says: each of
\* their steps offers it one batch, in an order that numbers its records, or none.
\* DetectionPipeline is shown to implement that queue.
THEOREM ExportFeedsQueue == Spec => QueueInit /\ [][QueueNext(Reports)]_queueVars
<1>1. Init => QueueInit
  BY DEF Init
<1>2. Typed /\ Bounded /\ [Next]_vars => [QueueNext(Reports)]_queueVars
  BY FeedStep
<1> QED BY BoundedInvariance, <1>1, <1>2, PTL DEF Spec
=============================================================================
