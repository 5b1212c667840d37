----------------------------- MODULE FlowExport -----------------------------
(***************************************************************************)
(* Flow exports of routers on their way into the pipeline: UDP datagrams,  *)
(* the listener's bounded queue, the decoder in its worker thread with the *)
(* template caches of NetFlow v9 and IPFIX, and the endpoint that decodes  *)
(* a posted datagram with a parser of its own.                             *)
(*                                                                         *)
(* A datagram is a sequence of sets.  The body of a data set is a sequence *)
(* of cells; a cell is the flow and the field the exporter put there, so   *)
(* that decoding with the wrong template is decoding, into a record whose  *)
(* addresses come from somewhere else.  The samples of sFlow and the       *)
(* records of NetFlow v5 are data sets of a fixed layout, those of a v5    *)
(* datagram a single one.  Every field is one cell wide.                   *)
(*                                                                         *)
(* What the parser reads in a template is given with it.  It is the layout *)
(* of its data, but for an options template and for the enterprise fields  *)
(* of IPFIX, whose further words the parser takes for fields of their own. *)
(***************************************************************************)
EXTENDS PipelineQueue, Sequences

CONSTANTS
    Exporters,    \* routers that export to the monitor port
    Programme,    \* the datagrams each of them sends, in order
    Tids,         \* template ids
    ListenerMax,  \* maxsize of the listener's queue
    BatchCap,     \* DEFAULT_PCAP_BATCH_CAP, the most records read of a v5 datagram
    Idle          \* no datagram

Fields == {"src", "dst", "other"}
Stateful == {"v9", "ipfix"}
FixedLayout == <<"src", "dst">>

Datagrams == UNION {{<<e, n>> : n \in DOMAIN Programme[e]} : e \in Exporters}
Version(d) == Programme[d[1]][d[2]].version
Sets(d) == Programme[d[1]][d[2]].sets

\* A skipped set is an sFlow record too short for its format, or one cut inside its
\* sample together with the rest of that; a broken one does not fit the datagram.
Kinds == {"template", "data", "counters", "router", "skipped", "broken"}

ASSUME ExportAssumption ==
    /\ ListenerMax \in Nat /\ BatchCap \in Nat \ {0}
    /\ Idle \notin Datagrams
    /\ \A e \in Exporters : Programme[e] \in Seq(
         [version : {"v5", "sflow"} \cup Stateful,
          sets : Seq([kind : Kinds, tid : Tids, layout : Seq(Fields), read : Seq(Fields),
                      flows : Seq(Nat)])])
    /\ \A d \in Datagrams : Version(d) \notin Stateful =>
         \A i \in DOMAIN Sets(d) : Sets(d)[i].kind = "data" => Sets(d)[i].layout = FixedLayout
    /\ \A d \in Datagrams : Version(d) = "v5" => Len(Sets(d)) <= 1

VARIABLES
    sent,      \* how many datagrams each exporter has sent
    wire,      \* datagrams in flight
    queue,     \* FlowExportListener._queue
    busy,      \* the datagram the decoder is at, or Idle
    pos,       \* the set of it that is next
    out,       \* the records decoded from it so far
    store,     \* _templates of the two parsers; <<>> where there is none
    loaded,    \* history: the template sets that went into the store
    fate,      \* history: what became of each datagram
    stopped    \* stop() has been called

decoderVars == <<busy, pos, out, store, loaded>>
vars == <<sent, wire, queue, decoderVars, fate, stopped, queueVars>>

Fates == {"none", "dropped", "failed", "ingested", "posted", "cancelled"}

Init ==
    /\ sent = [e \in Exporters |-> 0]
    /\ wire = {} /\ queue = <<>>
    /\ busy = Idle /\ pos = 1 /\ out = {}
    /\ store = [v \in Stateful |-> [t \in Tids |-> <<>>]]
    /\ loaded = {}
    /\ fate = [d \in Datagrams |-> "none"]
    /\ stopped = FALSE
    /\ QueueInit

-----------------------------------------------------------------------------
(* Decoding *)

Set(d, i) == Sets(d)[i]

\* What the exporter wrote: its flows, each laid out field by field.
Body(s) ==
    LET width == Len(s.layout)
    IN [k \in 1 .. Len(s.flows) * width |->
          <<s.flows[((k - 1) \div width) + 1], s.layout[((k - 1) % width) + 1]>>]

\* A field that a template names twice is overwritten by its last occurrence.
LastIn(fields, what) ==
    CHOOSE p \in DOMAIN fields :
        fields[p] = what /\ \A q \in DOMAIN fields : fields[q] = what => q <= p

Addresses(fields) == {"src", "dst"} \subseteq {fields[p] : p \in DOMAIN fields}

RecordOf(d, i, row, src, dst) == [from |-> d, set |-> i, row |-> row, src |-> src, dst |-> dst]

\* How many of the n rows that fit into a set are decoded.
RowsRead(d, n) == IF Version(d) = "v5" /\ n > BatchCap THEN BatchCap ELSE n

\* Mutant: the loop over the rows stops short of the end of the body.
RowsShort(d, i, fields) ==
    LET body == Body(Set(d, i))
        width == Len(fields)
        cell(row, what) == body[(row - 1) * width + LastIn(fields, what)]
    IN IF Addresses(fields)
       THEN {RecordOf(d, i, row, cell(row, "src"), cell(row, "dst")) :
               row \in 1 .. RowsRead(d, (Len(body) - 1) \div width)}
       ELSE {}

\* _decode_data_set with _decode_data_record: as many rows as fit; a template
\* without both addresses yields no record, an unknown one no row.  Of a v5
\* datagram no more than the cap are read, however many fit.
Rows(d, i, fields) ==
    LET body == Body(Set(d, i))
        width == Len(fields)
        cell(row, what) == body[(row - 1) * width + LastIn(fields, what)]
    IN IF Addresses(fields)
       THEN {RecordOf(d, i, row, cell(row, "src"), cell(row, "dst")) :
               row \in 1 .. RowsRead(d, Len(body) \div width)}
       ELSE {}

\* The interface counters of sFlow become a record from and to 0.0.0.0.
CounterRecord(d, i) == RecordOf(d, i, 1, <<0, "none">>, <<0, "none">>)

\* What a set that is no template yields, given the fields on file for its id.
Decoded(d, i, fields) ==
    CASE Set(d, i).kind = "counters" -> {CounterRecord(d, i)}
      [] Set(d, i).kind = "data" ->
           Rows(d, i, IF Version(d) \in Stateful THEN fields ELSE FixedLayout)
      [] OTHER -> {}

\* The order in which records are appended.
Earlier(q, r) == q.set < r.set \/ (q.set = r.set /\ q.row < r.row)

Rank(records) == [r \in records |-> Cardinality({q \in records : Earlier(q, r)})]

-----------------------------------------------------------------------------
(* The network and the listener *)

\* An exporter sends its next datagram, which travels or is lost.
Send(e) ==
    LET d == <<e, sent[e] + 1>> IN
    /\ d \in Datagrams
    /\ sent' = [sent EXCEPT ![e] = @ + 1]
    /\ \/ wire' = wire \cup {d} /\ UNCHANGED fate
       \/ fate' = [fate EXCEPT ![d] = "dropped"] /\ UNCHANGED wire
    /\ UNCHANGED <<queue, decoderVars, stopped, queueVars>>

\* datagram_received and enqueue: a full queue rejects the datagram.
Receive(d) ==
    /\ d \in wire /\ ~stopped
    /\ wire' = wire \ {d}
    /\ \/ /\ Len(queue) < ListenerMax
          /\ queue' = Append(queue, d)
          /\ UNCHANGED fate
       \/ /\ Len(queue) >= ListenerMax
          /\ fate' = [fate EXCEPT ![d] = "dropped"]
          /\ UNCHANGED queue
    /\ UNCHANGED <<sent, decoderVars, stopped, queueVars>>

\* _process_loop takes the oldest datagram into a worker thread.
Take ==
    /\ busy = Idle /\ queue # <<>> /\ ~stopped
    /\ busy' = Head(queue) /\ queue' = Tail(queue)
    /\ pos' = 1 /\ out' = {}
    /\ UNCHANGED <<sent, wire, store, loaded, fate, stopped, queueVars>>

AtSet(kinds) == busy # Idle /\ pos \in DOMAIN Sets(busy) /\ Set(busy, pos).kind \in kinds

\* _load_template_set: the template of an id, whoever sent it, is replaced by what
\* the parser reads in this one.
LoadTemplate ==
    /\ AtSet({"template"})
    /\ LET s == Set(busy, pos) IN store' = [store EXCEPT ![Version(busy)][s.tid] = s.read]
    /\ loaded' = loaded \cup {<<busy, pos>>}
    /\ pos' = pos + 1
    /\ UNCHANGED <<sent, wire, queue, busy, out, fate, stopped, queueVars>>

OnFile(d, i) == IF Version(d) \in Stateful THEN store[Version(d)][Set(d, i).tid] ELSE <<>>

DecodeSet ==
    /\ AtSet({"data", "counters", "skipped"})
    /\ out' = out \cup Decoded(busy, pos, OnFile(busy, pos))
    /\ pos' = pos + 1
    /\ UNCHANGED <<sent, wire, queue, busy, store, loaded, fate, stopped, queueVars>>

Leave(how) ==
    /\ busy' = Idle /\ pos' = 1 /\ out' = {}
    /\ fate' = [fate EXCEPT ![busy] = how]
    /\ UNCHANGED <<sent, wire, queue, store, loaded, stopped>>

\* Mutant: what was decoded before the exception is submitted.
FailSubmitting ==
    /\ AtSet({"router"})
    /\ Leave("failed")
    /\ SubmitBatch(out, Rank(out))

\* Mutant: the exception ends the loop.
FailForGood ==
    /\ AtSet({"router"})
    /\ fate' = [fate EXCEPT ![busy] = "failed"]
    /\ UNCHANGED <<sent, wire, queue, decoderVars, stopped, queueVars>>

\* An extended router record has no protocol, which FlowRecord requires: the
\* exception takes the whole datagram with it.
Fail ==
    /\ AtSet({"router"})
    /\ Leave("failed")
    /\ UNCHANGED queueVars

\* The decoder returns at the end of the datagram or at a set that is cut
\* short, and the loop submits what it has.
Ingest ==
    /\ busy # Idle
    /\ pos \in DOMAIN Sets(busy) => Set(busy, pos).kind = "broken"
    /\ Leave("ingested")
    /\ SubmitBatch(out, Rank(out))

\* stop: the socket closes and the loop is cancelled, with the datagram it is at.
Stop ==
    /\ ~stopped
    /\ stopped' = TRUE
    /\ busy' = Idle /\ pos' = 1 /\ out' = {}
    /\ fate' = IF busy = Idle THEN fate ELSE [fate EXCEPT ![busy] = "cancelled"]
    /\ UNCHANGED <<sent, wire, queue, store, loaded, queueVars>>

-----------------------------------------------------------------------------
(* POST /traffic/netflow *)

\* The template a parser that has seen nothing else holds at set i of d.
OwnTemplate(d, i) ==
    LET defs == {j \in 1 .. i - 1 : Set(d, j).kind = "template" /\ Set(d, j).tid = Set(d, i).tid}
    IN IF defs = {} THEN <<>>
       ELSE Set(d, CHOOSE j \in defs : \A k \in defs : k <= j).read

\* The sets before the first that is cut short.
Readable(d) ==
    {i \in DOMAIN Sets(d) : \A j \in 1 .. i : Set(d, j).kind # "broken"}

\* Mutant: the endpoint decodes with the listener's templates.
PostToListener(d) ==
    LET records == UNION {Decoded(d, i, OnFile(d, i)) : i \in Readable(d)} IN
    /\ d \in wire /\ wire' = wire \ {d} /\ ~stopped
    /\ \A i \in Readable(d) : Set(d, i).kind # "router"
    /\ SubmitBatch(records, Rank(records))
    /\ fate' = [fate EXCEPT ![d] = "posted"]
    /\ UNCHANGED <<sent, queue, decoderVars, stopped>>

\* A relay posts a datagram instead: parse_flow_export with a new parser, then
\* submit_batch.  A record that raises is an error for the whole request.
Post(d) ==
    LET records == UNION {Decoded(d, i, OwnTemplate(d, i)) : i \in Readable(d)} IN
    /\ d \in wire /\ wire' = wire \ {d} /\ ~stopped
    /\ IF \E i \in Readable(d) : Set(d, i).kind = "router"
       THEN fate' = [fate EXCEPT ![d] = "failed"] /\ UNCHANGED queueVars
       ELSE /\ SubmitBatch(records, Rank(records))
            /\ fate' = [fate EXCEPT ![d] = "posted"]
    /\ UNCHANGED <<sent, queue, decoderVars, stopped>>

-----------------------------------------------------------------------------
Decode == LoadTemplate \/ DecodeSet \/ Fail \/ Ingest

Drain == Consume /\ UNCHANGED <<sent, wire, queue, decoderVars, fate, stopped>>

Next ==
    \/ \E e \in Exporters : Send(e)
    \/ \E d \in wire : Receive(d) \/ Post(d)
    \/ Take \/ Decode \/ Stop \/ Drain

Spec == Init /\ [][Next]_vars

\* The loop is resumed while there are datagrams and the thread makes progress.
FairSpec == Spec /\ WF_vars(Take) /\ WF_vars(Decode)

-----------------------------------------------------------------------------
(* Properties *)

\* Both queues stay within their bounds, and the decoder holds records only of
\* the datagram it is at.
TypeOK ==
    /\ sent \in [Exporters -> Nat]
    /\ wire \subseteq Datagrams
    /\ queue \in Seq(Datagrams) /\ Len(queue) <= ListenerMax
    /\ busy \in Datagrams \cup {Idle}
    /\ pos \in Nat \ {0}
    /\ \A r \in out : r.from = busy /\ r.set < pos
    /\ store \in [Stateful -> [Tids -> Seq(Fields)]]
    /\ fate \in [Datagrams -> Fates]
    /\ stopped \in BOOLEAN
    /\ waiting \in 0 .. PipelineMax

\* A record that says of one flow what the exporter said of it.
Faithful(r) == r.src[1] = r.dst[1] /\ r.src[2] = "src" /\ r.dst[2] = "dst"

\* Template set x speaks about data set i of d, and the parser reads something else
\* in it than the layout of the data.
Defines(x, d, i) ==
    /\ Set(x[1], x[2]).kind = "template"
    /\ Version(x[1]) = Version(d) /\ Set(x[1], x[2]).tid = Set(d, i).tid

Contradicts(x, d, i) == Defines(x, d, i) /\ Set(x[1], x[2]).read # Set(d, i).layout

\* The template sets a record can have been decoded with: those of its own
\* datagram when that was posted, any that ever reached the listener otherwise.
TemplatesFor(r) ==
    IF fate[r.from] = "posted"
    THEN {<<r.from, j>> : j \in DOMAIN Sets(r.from)}
    ELSE loaded

\* A record that mixes up flows or fields, in the pipeline or on its way there,
\* is explained by a template of the same id that is another's or is misread:
\* reordering, loss, a full queue or a cut datagram alone never garble a flow.
MisreadHasCause ==
    \A r \in entered \cup out :
        \/ Faithful(r)
        \/ Set(r.from, r.set).kind = "counters"
        \/ \E x \in TemplatesFor(r) : Contradicts(x, r.from, r.set)

\* The template of data set i has been loaded before it, and none contradicts it.
Decodable(d, i) ==
    /\ Addresses(Set(d, i).layout)
    /\ Version(d) \in Stateful =>
         LET known == {x \in loaded : Defines(x, d, i) /\ (x[1] = d => x[2] < i)}
         IN known # {} /\ \A x \in known : ~Contradicts(x, d, i)

\* No flow is left out for another reason than a template that is missing, contested
\* or misread, and the cap on v5: whatever else the datagram holds, each flow of a
\* decodable set, the first BatchCap in v5, is among the records to be submitted.
DecodableIsDecoded ==
    \A i \in 1 .. pos - 1 :
        (busy # Idle /\ Set(busy, i).kind = "data" /\ Decodable(busy, i)) =>
            \A k \in 1 .. RowsRead(busy, Len(Set(busy, i).flows)) :
                \E r \in out : /\ r.set = i /\ Faithful(r)
                               /\ r.src[1] = Set(busy, i).flows[k]

\* A datagram counted as failed, dropped or cancelled has left nothing behind in
\* the pipeline, not even the records decoded before the exception.
OnlyWholeDatagrams == \A r \in entered : fate[r.from] \in {"ingested", "posted"}

\* The loop serves its queue, which is first in first out, to the end: it takes
\* the next datagram as long as there is one, and it is done with each, one that
\* raises included, unless the listener stops.
QueueIsServed ==
    /\ busy # Idle ~> busy = Idle
    /\ queue # <<>> ~> (busy # Idle \/ stopped)

\* The module docstring of netflow.py: the parser caches the templates an exporter
\* sends and decodes that exporter's subsequent data sets from them.
DecodedAsExported ==
    \A r \in entered : Set(r.from, r.set).kind = "data" => Faithful(r)
=============================================================================
