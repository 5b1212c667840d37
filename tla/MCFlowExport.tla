---------------------------- MODULE MCFlowExport ----------------------------
(* Model-checking instances of FlowExport.                                 *)
EXTENDS FlowExport, TLC

CONSTANTS a, b, c, t1

Item(kind, layout, read, flows) ==
    [kind |-> kind, tid |-> t1, layout |-> layout, read |-> read, flows |-> flows]
Template(layout) == Item("template", layout, layout, <<>>)
Misread(layout, read) == Item("template", layout, read, <<>>)
Data(layout, flows) == Item("data", layout, <<>>, flows)
Marker(kind) == Item(kind, <<>>, <<>>, <<>>)
Datagram(version, sets) == [version |-> version, sets |-> sets]

Narrow == <<"src", "dst">>
Wide == <<"other", "dst", "src">>
Long == <<"other", "src", "dst", "other">>

\* Two routers that use one template id, one of them with data ahead of its
\* template, a set that is cut short and an enterprise field that shifts its
\* template; and a switch that samples with sFlow and exports v5 beyond the cap.
MCProgramme ==
    (a :> <<Datagram("v9", <<Template(Narrow), Data(Narrow, <<1, 2>>)>>),
            Datagram("v9", <<Data(Narrow, <<3>>)>>)>>) @@
    (b :> <<Datagram("v9", <<Data(Wide, <<4>>), Template(Wide), Data(Wide, <<5>>),
                             Misread(Long, <<"other", "other", "src", "dst">>), Data(Long, <<6>>),
                             Marker("broken"), Data(Wide, <<7>>)>>)>>) @@
    (c :> <<Datagram("sflow", <<Marker("skipped"), Marker("counters"),
                                Data(Narrow, <<8>>), Marker("router")>>),
            Datagram("v5", <<Data(Narrow, <<9, 10, 11>>)>>)>>)
=============================================================================
