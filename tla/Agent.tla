--------------------------------- MODULE Agent ---------------------------------
(***************************************************************************)
(* The MCP server (client/cmd/ndc-mcp/main.go) over the Go client          *)
(* (client/ndc/client.go), in front of the mock: an agent writes lines of  *)
(* JSON-RPC to stdin, the server turns the tool calls among them into      *)
(* requests to the mock, one at a time, and writes the replies to stdout.  *)
(* The mock answers by the handlers of Documents, in JSON, and reads a     *)
(* search as Query has it.                                                 *)
(*                                                                         *)
(* A request can be lost, answered late or answered with what the client   *)
(* cannot use; a call that was given up may still be acted on.  Texts and  *)
(* the tool list are left out, and so are the checks of carrier codes.     *)
(* A day is a number, and one that does not look like a date is negative.  *)
(***************************************************************************)
EXTENDS Documents, Query

CONSTANTS
    Lines,            \* what the agent may write to stdin as its first line, its second and so on
    Agents,           \* what the offer identifiers of a session may say
    Held,             \* how many offers the mock may answer a search with
    DefaultMaxOffers  \* offers shown when the agent does not say how many

ASSUME AgentAssumption == Agents \subseteq Offered /\ DefaultMaxOffers \in Nat \ {0} /\ NoDay \in Int \ Nat
\* A search says how many travel in numbers (num in ndc-mcp/main.go).
ASSUME LinesAssumption ==
    \A l \in UNION Range(Lines) : l.args.tool = "ndc_search" => {l.args.ADT, l.args.CHD, l.args.INF} \subseteq Int

VARIABLES
    server,    \* the MCP server: none, idle, calling or ended
    lines,     \* the lines it has read
    replies,   \* the replies it has written
    sent,      \* the lines whose requests the mock may yet act on
    response   \* the mock's response to the request of a line, once it has acted

agentVars == <<server, lines, replies, sent, response>>
vars == <<docVars, agentVars>>

Current == Len(lines)

--------------------------------------------------------------------------------
(* client.go: what is refused before anything is sent *)

\* Nobody travelling means one adult.
party(a) == [ADT |-> IF a.ADT = 0 /\ a.CHD = 0 /\ a.INF = 0 THEN 1 ELSE a.ADT, CHD |-> a.CHD, INF |-> a.INF]

LimitsKept(a) ==
    /\ a.ADT >= 0 /\ a.CHD >= 0 /\ a.INF >= 0
    /\ a.ADT + a.CHD + a.INF <= 9
    /\ a.INF <= a.ADT

validateLoose(a) ==         \* fault: the two airports are not compared
    /\ a.from # NoAirport /\ a.to # NoAirport
    /\ a.dep \in Nat /\ a.ret \in Nat \cup {NoDay}
    /\ a.ret # NoDay => a.ret >= a.dep
    /\ LimitsKept(party(a))
validate(a) ==
    /\ a.from # NoAirport /\ a.to # NoAirport /\ a.from # a.to
    /\ a.dep \in Nat /\ a.ret \in Nat \cup {NoDay}
    /\ a.ret # NoDay => a.ret >= a.dep
    /\ LimitsKept(party(a))

buildAirShopping(a) ==
    LET there == [from |-> a.from, to |-> a.to, day |-> a.dep]
        back == [from |-> a.to, to |-> a.from, day |-> a.ret]
    IN  [legs |-> IF a.ret = NoDay THEN << there >> ELSE << there, back >>,
         passengers |-> party(a).ADT + party(a).CHD + party(a).INF,
         otherShopping |-> FALSE]

\* validateID: an identifier is there, is no longer than any the mock makes, and has no markup.
validID(a) == a.id \notin {"missing", "overlong", "markup"}

Accepted(a) == IF a.tool = "ndc_search" THEN validate(a) ELSE validID(a)

\* The first offers of a search, as many as the agent asked for
Shown(a, doc) ==
    LET max == IF a.max <= 0 THEN DefaultMaxOffers ELSE a.max
    IN  IF a.tool # "ndc_search" THEN doc
        ELSE [offers |-> SubSeq(doc.offers, 1, IF Len(doc.offers) > max THEN max ELSE Len(doc.offers)),
              truncated |-> Len(doc.offers) > max]

--------------------------------------------------------------------------------
(* main.go: the loop over stdin *)

Notification(l) == l.kind = "message" /\ ~l.id
Skipped(l) == l.kind = "blank" \/ Notification(l)
ToolCall(l) == l.kind = "message" /\ l.id /\ l.method = "tools/call"
Tools == {"ndc_search", "ndc_price", "ndc_services", "ndc_seats",
          "ndc_order_create", "ndc_order_retrieve", "ndc_order_cancel"}
KnownTool(l) == l.args.tool \in Tools

\* A line that is no message is answered without an id.
Reply(n, kind, body) == [id |-> IF kind = "parse error" THEN 0 ELSE n, kind |-> kind, body |-> body]
Write(kind, body) == replies' = Append(replies, Reply(Len(lines'), kind, body))

\* What is answered at once; a tool call that is sent is answered later.
Dispatched(l) ==
    IF l.kind = "garbled" THEN "parse error"
    ELSE CASE l.method \in {"initialize", "tools/list", "ping"} -> "result"
           [] ToolCall(l) /\ ~KnownTool(l) -> "invalid params"
           [] ToolCall(l) /\ KnownTool(l) -> "isError"
           [] OTHER -> "unknown method"

Sends(l) == ToolCall(l) /\ KnownTool(l) /\ Accepted(l.args)

\* The server reads a line, and answers it at once or turns to the mock for the answer.
Read(l) ==
    /\ server = "idle" /\ Current < Len(Lines) /\ l \in Lines[Current + 1]
    /\ lines' = Append(lines, l)
    /\ IF Sends(l)
       THEN /\ server' = "calling" /\ sent' = sent \cup {Len(lines')}
            /\ UNCHANGED replies
       ELSE /\ server' = IF l.kind = "endless" THEN "ended" ELSE "idle"
            /\ IF Skipped(l) \/ l.kind = "endless" THEN UNCHANGED replies
               ELSE Write(Dispatched(l), Nothing)
            /\ UNCHANGED sent
    /\ UNCHANGED <<docVars, response>>

\* stdin is closed.
Close ==
    /\ server = "idle" /\ server' = "ended"
    /\ UNCHANGED <<docVars, lines, replies, sent, response>>

--------------------------------------------------------------------------------
(* The mock acts on a request, whether or not anyone still waits for it *)

\* No reference for multi-city itineraries is loaded.
airshopping(a) ==
    LET rq == buildAirShopping(a)
        code == IF ~Readable(rq) THEN 400 ELSE IF multiCity(rq.legs) THEN 501 ELSE 200
    IN  \E n \in Held :
           Respond("airshopping", "json", "19.2", code, n, 0, Nothing, [offers |-> [k \in 1..n |-> k]])

\* lookup finds the order, or answers 404.
Unknown(k) ==
    /\ k \notin DOMAIN orders
    /\ Respond("lookup", "json", "19.2", 404, 0, k, Nothing, Nothing)

Handled(a) ==
    CASE a.tool = "ndc_search" -> airshopping(a) /\ UNCHANGED <<offer, orders>>
      [] a.tool = "ndc_price" -> OfferPrice("json", "19.2")
      [] a.tool = "ndc_services" -> ServiceList("json", "19.2", IF a.max > 0 THEN a.max ELSE 0)
      [] a.tool = "ndc_seats" -> SeatAvailability("json", "19.2", IF a.max > 0 THEN a.max ELSE 0)
      [] a.tool = "ndc_order_create" -> OrderCreate("json", "19.2")
      [] a.tool = "ndc_order_retrieve" ->
            \/ a.order \in DOMAIN orders /\ OrderRetrieve(a.order, "json", "19.2")
            \/ Unknown(a.order) /\ UNCHANGED <<offer, orders>>
      [] a.tool = "ndc_order_cancel" ->
            \/ a.order \in DOMAIN orders /\ OrderCancel(a.order, "json", "19.2")
            \/ Unknown(a.order) /\ UNCHANGED <<offer, orders>>

Act(n) ==
    /\ n \in sent
    /\ Handled(lines[n].args)
    /\ response' = [k \in DOMAIN response \cup {n} |-> IF k = n THEN answer' ELSE response[k]]
    /\ sent' = sent \ {n}
    /\ UNCHANGED <<server, lines, replies>>

\* Other clients of the mock change and cancel orders too.
Meanwhile(k) ==
    /\ server \in {"idle", "calling"}
    /\ Changed(k, "Changed") \/ Changed(k, "Cancelled")
    /\ UNCHANGED <<offer, answer, agentVars>>

--------------------------------------------------------------------------------
(* client.go: do.  The answer is in, or none comes in time *)

Answered(kind, body) ==
    /\ UNCHANGED <<docVars, lines>>
    /\ server' = "idle" /\ Write(kind, body)

ReceiveAny ==               \* fault: whichever answer is in is taken for this call's
    /\ server = "calling"
    /\ \E n \in DOMAIN response :
          IF response[n].code >= 400 THEN Answered("isError", [code |-> response[n].code])
          ELSE Answered("content", Shown(lines[n].args, response[n].doc))
    /\ UNCHANGED <<sent, response>>
Receive ==
    /\ server = "calling" /\ Current \in DOMAIN response
    /\ IF response[Current].code >= 400 THEN Answered("isError", [code |-> response[Current].code])
       ELSE Answered("content", Shown(lines[Current].args, response[Current].doc))
    /\ UNCHANGED <<sent, response>>

\* The connection fails or the timeout runs out, or the response breaks off, is beyond
\* maxResponse or no JSON: whatever it was, the agent is told that the call failed, and
\* the request may still be on its way.
GiveUpRetrying ==           \* fault: the request is sent once more
    /\ server = "calling"
    /\ \/ Current \notin sent /\ sent' = sent \cup {Current} /\ UNCHANGED <<docVars, server, lines, replies>>
       \/ Answered("isError", Nothing) /\ UNCHANGED sent
    /\ UNCHANGED response
GiveUpOnAnswer ==           \* fault: no timeout, only an answer ends a call
    /\ server = "calling" /\ Current \in DOMAIN response
    /\ Answered("isError", Nothing)
    /\ UNCHANGED <<sent, response>>
GiveUp ==
    /\ server = "calling"
    /\ Answered("isError", Nothing)
    /\ UNCHANGED <<sent, response>>

--------------------------------------------------------------------------------

\* The mock serves clients of its own, or an agent by way of the MCP server.
Init ==
    /\ FlowInit
    /\ server \in {"none"} \cup {s \in {"idle"} : offer \in Agents}
    /\ lines = <<>> /\ replies = <<>>
    /\ sent = {} /\ response = <<>>

Next ==
    \/ server = "none" /\ Flow /\ UNCHANGED agentVars
    \/ \E l \in UNION Range(Lines) : Read(l)
    \/ Close
    \/ \E n \in sent : Act(n)
    \/ \E k \in DOMAIN orders : Meanwhile(k)
    \/ Receive \/ GiveUp

\* The HTTP client has a timeout; the mock need not answer, and the agent need not write.
Spec == Init /\ [][Next]_vars /\ WF_vars(Receive \/ GiveUp)

--------------------------------------------------------------------------------
(* Properties *)

\* The lines that take a reply, and the place of each reply among them
Due == {n \in DOMAIN lines : ~Skipped(lines[n]) /\ lines[n].kind # "endless"}
Nth(n) == Cardinality({m \in Due : m <= n})

\* There is one reply for every request read, in the order of the requests, and none for
\* a notification.  A reply tells what became of its request: content is what the mock
\* answered this very one with, never an error or the late answer to a call that was given
\* up, and a call that the server refused is one the mock never sees.
RepliesMatch ==
    /\ Len(replies) = Cardinality(Due) - (IF server = "calling" THEN 1 ELSE 0)
    /\ \A n \in Due : Nth(n) \in DOMAIN replies =>
          LET reply == replies[Nth(n)]
          IN  /\ reply.id = IF lines[n].kind = "garbled" THEN 0 ELSE n
              /\ reply.kind = "content" =>
                    /\ n \in DOMAIN response /\ response[n].code < 400
                    /\ reply.body = Shown(lines[n].args, response[n].doc)
              /\ reply.kind \notin {"content", "isError"} => n \notin sent \cup DOMAIN response

Creates(n) == lines[n].args.tool = "ndc_order_create"

\* Nothing but an accepted tool call of a request with an id reaches the mock, and each
\* is acted on at most once, whoever else uses the mock and however late it acts: there
\* are as many orders as order calls it acted on (callTool in ndc-mcp/main.go).  An agent
\* that was told of a failure knows nothing, and may ask again and have a second order.
ActedOnce ==
    /\ \A n \in sent \cup DOMAIN response : Sends(lines[n])
    /\ server # "none" => Len(orders) = Cardinality({n \in DOMAIN response : Creates(n)})

\* The mock can read every search that the client lets through, and holds it for a one-way
\* trip or a return: it never answers 400 or 501 to one.  The checks of the client
\* (validate) and of the mock (parseQuery, pattern) are written apart.
SearchesServable ==
    \A n \in DOMAIN response : lines[n].args.tool = "ndc_search" => response[n].code = 200

\* Every line that takes a reply gets it, however long the mock takes and whatever else is read.
EveryLineAnswered ==
    \A n \in DOMAIN Lines : n \in Due ~> Nth(n) \in DOMAIN replies
================================================================================
