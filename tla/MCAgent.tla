------------------------------ MODULE MCAgent -------------------------------
EXTENDS Agent

CONSTANTS GRU, SCL, LIM

Route(from, to) == [from |-> from, to |-> to]
Trips == {<<Route(GRU, SCL)>>, <<Route(GRU, SCL), Route(SCL, GRU)>>,
          <<Route(GRU, SCL), Route(SCL, LIM), Route(LIM, GRU)>>,
          <<Route(GRU, LIM), Route(LIM, GRU), Route(GRU, LIM)>>}
Says(legs, flight, amount, adt, chd, inf) ==
    [legs |-> legs, flight |-> flight, amount |-> amount, ADT |-> adt, CHD |-> chd, INF |-> inf]

\* Every trip with every kind of flight number (small, about to wrap, no int), with every
\* party, and with fares that make all seat tiers meet, or some
Varied == {Says(t, f, 351, 1, 0, 0) : t \in Trips, f \in {8, 9, 20}}
          \cup {Says(t, 1, 39, p[1], p[2], p[3]) : t \in Trips, p \in {<<1, 0, 0>>, <<0, 2, 0>>, <<2, 1, 1>>}}
Default == Says(<<Route(SCL, LIM)>>, 10, 100000, 1, 0, 0)
Ancillaries == <<"BAG", "SEAT", "MEAL">>

\* Lines that are no tool calls, and calls of every tool
Missing == -2
Garbage == -1
Line(kind, id, method, args) == [kind |-> kind, id |-> id, method |-> method, args |-> args]
Calls(args) == Line("message", TRUE, "tools/call", args)
NoArgs == [tool |-> "malformed"]
Search(from, to, dep, ret, adt, chd, inf, max) ==
    [tool |-> "ndc_search", from |-> from, to |-> to, dep |-> dep, ret |-> ret,
     ADT |-> adt, CHD |-> chd, INF |-> inf, max |-> max]
Tool(tool, id, order, max) == [tool |-> tool, id |-> id, order |-> order, max |-> max]
Order(id) == Tool("ndc_order_create", id, 0, 0)

Others == {Line("blank", FALSE, "", NoArgs), Line("garbled", TRUE, "", NoArgs),
           Line("endless", TRUE, "", NoArgs),
           Line("message", TRUE, "initialize", NoArgs), Line("message", TRUE, "resources/list", NoArgs),
           Line("message", FALSE, "tools/call", Order("held")),
           Calls(NoArgs), Calls([tool |-> "unknown"])}
\* Searches on both sides of every check
Searches ==
    {Calls(Search(GRU, to, 2, ret, 0, 0, 0, 1)) : to \in {GRU, LIM}, ret \in {Missing, Garbage, 1, 2, 3}}
    \cup {Calls(Search(GRU, SCL, 2, Missing, p[1], p[2], p[3], 0)) :
             p \in {<<-1, 2, 0>>, <<9, 0, 0>>, <<9, 1, 0>>, <<0, 1, 0>>, <<0, 0, 1>>, <<1, 0, 2>>, <<2, 0, 2>>}}
    \cup {Calls(Search(f, GRU, d, Missing, 1, 0, 0, -1)) :
             f \in {NoAirport, SCL}, d \in {Missing, Garbage, 0}}
ToolCalls ==
    {Calls(Tool(t, id, 0, max)) :
        t \in {"ndc_services", "ndc_seats"}, id \in {"held", "markup"}, max \in {-1, 2}}
    \cup {Calls(Tool("ndc_price", id, 0, 0)) : id \in {"held", "missing", "overlong"}}
    \cup {Calls(Order("held"))}
    \cup {Calls(Tool(t, "held", k, 0)) :
             t \in {"ndc_order_retrieve", "ndc_order_cancel"}, k \in {1, 2}}
\* A session of three lines, the first and the last about an order
OfOrders == {Calls(Order("held")), Calls(Tool("ndc_order_retrieve", "held", 1, 0)),
             Calls(Tool("ndc_order_cancel", "held", 1, 0)),
             Line("message", FALSE, "tools/call", Order("held"))}
Written == << OfOrders, Others \cup Searches \cup ToolCalls, OfOrders >>
Sessions == {Says(<<Route(GRU, SCL)>>, 1, 39, 1, 0, 0)}
================================================================================
