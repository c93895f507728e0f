--------------------------------- MODULE Proxy ---------------------------------
(***************************************************************************)
(* Proxy and record mode (proxy.go, withProxy in main.go).  An exchange is *)
(* one request: it is sent to the provider, whose answer is recorded and   *)
(* relayed; when there is no answer the synthetic handler answers instead. *)
(*                                                                         *)
(* Exchanges are goroutines.  Those of one process share its counter, and  *)
(* processes that record into one directory share the files in it.  A      *)
(* process may die between any two steps and start again with a counter of *)
(* zero; the files stay.                                                   *)
(***************************************************************************)
EXTENDS Integers, FiniteSets

CONSTANTS
    Process,      \* processes of the mock that record into the directory
    Exchanges,    \* requests
    Label,        \* of each exchange: its operation and route, the head of its file names
    OnDisk,       \* the names of captures an earlier run left in the directory
    Earlier,      \* the exchanges of that run
    MaxCrashes    \* bound: crashes

ASSUME EarlierAssumption == Earlier \notin Exchanges
ASSUME NamesAssumption == OnDisk \subseteq {Label[x] : x \in Exchanges} \X Nat
ASSUME ProcessAssumption == Process # {} /\ MaxCrashes \in Nat

VARIABLES
    response,  \* the -rs.xml files: whose they are, and whether they are whole
    request,   \* the -rq.xml files: whose they are
    seq,       \* the counter of each process
    crashes,   \* crashes so far
    at,        \* the process that serves each exchange
    pc,        \* where each exchange is
    served,    \* what the provider did with each exchange: nothing yet, or the answer it gave
    number,    \* the number each exchange drew last
    mode       \* X-Mock-Mode of each answer

files == <<response, request>>
vars == <<files, seq, crashes, at, pc, served, number, mode>>

Name(x) == <<Label[x], number[x]>>
\* The directory with a file of that name, a new one or one written over
Created(directory, name, content) ==
    [n \in DOMAIN directory \cup {name} |-> IF n = name THEN content ELSE directory[n]]
Serving == {"asking", "naming", "opening", "writing", "pairing", "relaying", "falling"}

--------------------------------------------------------------------------------

Init ==
    /\ response = [n \in OnDisk |-> [of |-> Earlier, whole |-> TRUE]]
    /\ request = [n \in OnDisk |-> Earlier]
    /\ seq = [p \in Process |-> 0]
    /\ crashes = 0
    /\ at = [x \in Exchanges |-> CHOOSE p \in Process : TRUE]
    /\ pc = [x \in Exchanges |-> "none"]
    /\ served = [x \in Exchanges |-> "no"]
    /\ number = [x \in Exchanges |-> 0]
    /\ mode = [x \in Exchanges |-> "none"]

\* A request reaches a process; withProxy reads it, or refuses what it cannot read,
\* and handle sends it on.
Ask(x, p) ==
    /\ pc[x] = "none"
    /\ at' = [at EXCEPT ![x] = p]
    /\ \E next \in {"asking", "refused"} : pc' = [pc EXCEPT ![x] = next]
    /\ UNCHANGED <<files, seq, crashes, served, number, mode>>

\* The provider acts on it, at once or after handle gave up.
Provide(x) ==
    /\ pc[x] \notin {"none", "refused"} /\ served[x] = "no"
    /\ \E answer \in {"ok", "error"} : served' = [served EXCEPT ![x] = answer]
    /\ UNCHANGED <<files, seq, crashes, at, pc, number, mode>>

\* The answer is in; only a 200 is recorded.
TakeAnswer(x) ==
    /\ pc[x] = "asking" /\ served[x] # "no"
    /\ pc' = [pc EXCEPT ![x] = IF served[x] = "ok" THEN "naming" ELSE "relaying"]
    /\ UNCHANGED <<files, seq, crashes, at, served, number, mode>>

\* The provider is unreachable, its answer breaks off, or the timeout runs out:
\* handle cannot tell whether the provider acted.
GiveUp(x) ==
    /\ pc[x] = "asking"
    /\ pc' = [pc EXCEPT ![x] = "falling"]
    /\ UNCHANGED <<files, seq, crashes, at, served, number, mode>>

\* record: seq.Add(1) draws the next number of the process.
DrawStill(x) ==         \* fault: the counter is read and not moved on
    /\ pc[x] = "naming"
    /\ number' = [number EXCEPT ![x] = seq[at[x]]]
    /\ pc' = [pc EXCEPT ![x] = "opening"]
    /\ UNCHANGED <<files, seq, crashes, at, served, mode>>
Draw(x) ==
    /\ pc[x] = "naming"
    /\ number' = [number EXCEPT ![x] = seq[at[x]] + 1]
    /\ seq' = [seq EXCEPT ![at[x]] = @ + 1]
    /\ pc' = [pc EXCEPT ![x] = "opening"]
    /\ UNCHANGED <<files, crashes, at, served, mode>>

\* The file is created only if there is none of that name; otherwise another number
\* is drawn.  Another error ends the recording.
OpenOver(x) ==          \* fault: O_TRUNC for O_EXCL
    /\ pc[x] = "opening"
    /\ pc' = [pc EXCEPT ![x] = "writing"]
    /\ response' = Created(response, Name(x), [of |-> x, whole |-> FALSE])
    /\ UNCHANGED <<request, seq, crashes, at, served, number, mode>>
Open(x) ==
    /\ pc[x] = "opening"
    /\ \/ /\ Name(x) \in DOMAIN response
          /\ pc' = [pc EXCEPT ![x] = "naming"]
          /\ UNCHANGED response
       \/ /\ Name(x) \notin DOMAIN response
          /\ pc' = [pc EXCEPT ![x] = "writing"]
          /\ response' = Created(response, Name(x), [of |-> x, whole |-> FALSE])
       \/ /\ pc' = [pc EXCEPT ![x] = "relaying"]
          /\ UNCHANGED response
    /\ UNCHANGED <<request, seq, crashes, at, served, number, mode>>

\* The response is written whole, or a write error leaves what there is of it.
WriteOn(x) ==           \* fault: a failed write is logged and no more
    /\ pc[x] = "writing"
    /\ pc' = [pc EXCEPT ![x] = "pairing"]
    /\ response' \in {response, [response EXCEPT ![Name(x)].whole = TRUE]}
    /\ UNCHANGED <<request, seq, crashes, at, served, number, mode>>
WriteOrFall(x) ==       \* fault: a failed recording is taken for a failed exchange
    /\ pc[x] = "writing"
    /\ \/ /\ pc' = [pc EXCEPT ![x] = "pairing"]
          /\ response' = [response EXCEPT ![Name(x)].whole = TRUE]
       \/ /\ pc' = [pc EXCEPT ![x] = "falling"]
          /\ UNCHANGED response
    /\ UNCHANGED <<request, seq, crashes, at, served, number, mode>>
Write(x) ==
    /\ pc[x] = "writing"
    /\ \/ /\ pc' = [pc EXCEPT ![x] = "pairing"]
          /\ response' = [response EXCEPT ![Name(x)].whole = TRUE]
       \/ /\ pc' = [pc EXCEPT ![x] = "relaying"]
          /\ UNCHANGED response
    /\ UNCHANGED <<request, seq, crashes, at, served, number, mode>>

\* The request goes beside it, over whatever is there; an error is ignored.
Pair(x) ==
    /\ pc[x] = "pairing"
    /\ pc' = [pc EXCEPT ![x] = "relaying"]
    /\ request' \in {request, Created(request, Name(x), x)}
    /\ UNCHANGED <<response, seq, crashes, at, served, number, mode>>

\* The provider's answer is relayed, or the synthetic handler answers.
Answer(x) ==
    /\ pc[x] \in {"relaying", "falling"}
    /\ pc' = [pc EXCEPT ![x] = "done"]
    /\ mode' = [mode EXCEPT ![x] = IF pc[x] = "relaying" THEN "proxy" ELSE "synthetic-fallback"]
    /\ UNCHANGED <<files, seq, crashes, at, served, number>>

\* A process dies and starts again.
Crash(p) ==
    /\ crashes < MaxCrashes
    /\ crashes' = crashes + 1
    /\ seq' = [seq EXCEPT ![p] = 0]
    /\ pc' = [x \in Exchanges |-> IF at[x] = p /\ pc[x] \in Serving THEN "lost" ELSE pc[x]]
    /\ UNCHANGED <<files, at, served, number, mode>>

Handle(x) == \/ TakeAnswer(x) \/ GiveUp(x) \/ Draw(x) \/ Open(x)
             \/ Write(x) \/ Pair(x) \/ Answer(x)

Next == \/ \E x \in Exchanges : Handle(x) \/ Provide(x) \/ \E p \in Process : Ask(x, p)
        \/ \E p \in Process : Crash(p)

\* The scheduler runs every goroutine and the timeout of proxyClient runs out; the
\* provider need not do anything.
Fairness == \A x \in Exchanges : WF_vars(Handle(x))

Spec == Init /\ [][Next]_vars /\ Fairness

--------------------------------------------------------------------------------
(* Properties *)

\* Every variable stays in its type.
TypeOK ==
    /\ DOMAIN response \subseteq {Label[x] : x \in Exchanges} \X Nat
    /\ \A n \in DOMAIN response : response[n] \in [of : Exchanges \cup {Earlier}, whole : BOOLEAN]
    /\ DOMAIN request \subseteq DOMAIN response
    /\ \A n \in DOMAIN request : request[n] \in Exchanges \cup {Earlier}
    /\ seq \in [Process -> Nat] /\ crashes \in 0..MaxCrashes
    /\ at \in [Exchanges -> Process]
    /\ pc \in [Exchanges -> Serving \cup {"none", "refused", "done", "lost"}]
    /\ served \in [Exchanges -> {"no", "ok", "error"}]
    /\ number \in [Exchanges -> Nat]
    /\ mode \in [Exchanges -> {"none", "proxy", "synthetic-fallback"}]

\* Captures are hard to redo: no step removes one or puts another exchange's response
\* in its place, nor damages one that is whole, whichever process made it and however
\* often the numbering restarts (record's comment in proxy.go).
CapturesKept ==
    [][\A n \in DOMAIN response :
          /\ n \in DOMAIN response' /\ response'[n].of = response[n].of
          /\ response[n].whole => response'[n].whole]_vars

\* A request on disk stands beside the whole response to that very request, so a pair
\* of files can be read as an exchange, also after a crash or a full disk.
PairsMatch ==
    \A n \in DOMAIN request :
        n \in DOMAIN response /\ response[n].whole /\ response[n].of = request[n]

\* A capture is the provider's 200, made once at most for an exchange, and the answer its
\* client was given or will be: once the provider's answer is in, a failing disk does not
\* make the synthetic handler act on the request a second time.  (A late answer may: it is
\* then neither relayed nor captured.)
CapturedIsRelayed ==
    \A n \in DOMAIN response : response[n].of # Earlier =>
        LET x == response[n].of
        IN  /\ served[x] = "ok"
            /\ pc[x] # "falling" /\ mode[x] # "synthetic-fallback"
            /\ \A m \in DOMAIN response : response[m].of = x => m = n

\* Every exchange is answered unless its process dies: the search for a free name ends,
\* while other exchanges and other processes take names too, and a provider that is
\* down holds nobody up.
EveryExchangeAnswered == \A x \in Exchanges : pc[x] = "asking" ~> pc[x] \in {"done", "lost"}
================================================================================
