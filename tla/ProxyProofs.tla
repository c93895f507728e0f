------------------------------- MODULE ProxyProofs -------------------------------
(***************************************************************************)
(* Proofs about Proxy, for any number of processes, exchanges and crashes  *)
(* and any captures on disk: the files of an exchange are its own and stay *)
(* so.  A file is written under a name that O_EXCL gave to one exchange;   *)
(* Owned says what that leaves in the directory while it is under way.     *)
(***************************************************************************)
EXTENDS Proxy, TLAPS

--------------------------------------------------------------------------------
(* The invariant *)

\* An exchange that writes has created the file it writes to; the request comes
\* after the whole response.
Owned ==
    \A x \in Exchanges : pc[x] \in {"writing", "pairing"} =>
        /\ Name(x) \in DOMAIN response
        /\ response[Name(x)].of = x
        /\ pc[x] = "pairing" => response[Name(x)].whole

\* An exchange that has come this far has no file yet.
Before == {"none", "refused", "asking", "naming", "opening", "falling"}
Unrecorded == \A n \in DOMAIN response : \A x \in Exchanges : response[n].of = x => pc[x] \notin Before

\* An exchange is recorded only once the provider's 200 is in.
Answered == \A x \in Exchanges : pc[x] \in {"naming", "opening", "writing", "pairing"} => served[x] = "ok"
Recorded == \A n \in DOMAIN response : \A x \in Exchanges : response[n].of = x => served[x] = "ok"

\* No exchange has two captures.
Once ==
    \A n, m \in DOMAIN response : \A x \in Exchanges : response[n].of = x /\ response[m].of = x => m = n

\* An exchange that is not done has no mode, and one with a capture does not fall back.
Moded ==
    /\ \A x \in Exchanges : pc[x] # "done" => mode[x] = "none"
    /\ \A n \in DOMAIN response : \A x \in Exchanges : response[n].of = x => mode[x] # "synthetic-fallback"

IInv == TypeOK /\ Owned /\ Unrecorded /\ Answered /\ Recorded /\ Once /\ Moded /\ PairsMatch

\* What a step may do to the directory
Kept ==
    \A n \in DOMAIN response :
        /\ n \in DOMAIN response' /\ response'[n].of = response[n].of
        /\ response[n].whole => response'[n].whole

--------------------------------------------------------------------------------
(* Types *)

LEMMA NameType == ASSUME TypeOK, NEW x \in Exchanges PROVE Name(x) \in {Label[y] : y \in Exchanges} \X Nat
  BY DEF Name, TypeOK

LEMMA InvInit == Init => IInv
  <1> SUFFICES ASSUME Init PROVE IInv
    OBVIOUS
  <1>1. (CHOOSE p \in Process : TRUE) \in Process
    BY ProcessAssumption
  <1>2. /\ DOMAIN response \subseteq {Label[x] : x \in Exchanges} \X Nat
        /\ \A n \in DOMAIN response : response[n] = [of |-> Earlier, whole |-> TRUE]
        /\ DOMAIN request = DOMAIN response /\ \A n \in DOMAIN request : request[n] = Earlier
    BY NamesAssumption DEF Init
  <1>3. TypeOK
    BY <1>1, <1>2, ProcessAssumption DEF Init, TypeOK
  <1>4. Owned /\ Answered
    BY DEF Init, Owned, Answered
  <1>5. Unrecorded /\ Recorded /\ Once /\ Moded
    BY <1>2, EarlierAssumption DEF Init, Unrecorded, Recorded, Once, Moded
  <1>6. PairsMatch
    BY <1>2 DEF PairsMatch
  <1> QED
    BY <1>3, <1>4, <1>5, <1>6 DEF IInv

--------------------------------------------------------------------------------
(* Each step keeps the invariant and the captures *)

\* Steps that leave the directory alone
LEMMA AskKeeps ==
    ASSUME IInv, NEW x \in Exchanges, NEW p \in Process, Ask(x, p) PROVE IInv' /\ Kept
  <1> USE DEF IInv, Ask, files
  <1>1. TypeOK'
    BY DEF TypeOK, Serving
  <1>2. \A y \in Exchanges : Name(y)' = Name(y)
    BY DEF Name
  <1>3. Owned' /\ Answered'
    BY <1>2 DEF TypeOK, Owned, Answered
  <1>4. Unrecorded' /\ Recorded' /\ Once' /\ Moded'
    BY DEF TypeOK, Unrecorded, Recorded, Once, Moded, Before
  <1>5. PairsMatch' /\ Kept
    BY DEF PairsMatch, Kept
  <1> QED
    BY <1>1, <1>3, <1>4, <1>5

LEMMA ProvideKeeps == ASSUME IInv, NEW x \in Exchanges, Provide(x) PROVE IInv' /\ Kept
  <1> USE DEF IInv, Provide, files
  <1>1. TypeOK'
    BY DEF TypeOK
  <1>2. \A y \in Exchanges : Name(y)' = Name(y)
    BY DEF Name
  <1>3. Owned' /\ Answered'
    BY <1>2 DEF TypeOK, Owned, Answered
  <1>4. Unrecorded' /\ Recorded' /\ Once' /\ Moded'
    BY DEF TypeOK, Unrecorded, Recorded, Once, Moded
  <1>5. PairsMatch' /\ Kept
    BY DEF PairsMatch, Kept
  <1> QED
    BY <1>1, <1>3, <1>4, <1>5

LEMMA TakeAnswerKeeps == ASSUME IInv, NEW x \in Exchanges, TakeAnswer(x) PROVE IInv' /\ Kept
  <1> USE DEF IInv, TakeAnswer, files
  <1>1. TypeOK'
    BY DEF TypeOK, Serving
  <1>2. \A y \in Exchanges : Name(y)' = Name(y)
    BY DEF Name
  <1>3. Owned' /\ Answered'
    BY <1>2 DEF TypeOK, Owned, Answered
  <1>4. Unrecorded' /\ Recorded' /\ Once' /\ Moded'
    BY DEF TypeOK, Unrecorded, Recorded, Once, Moded, Before
  <1>5. PairsMatch' /\ Kept
    BY DEF PairsMatch, Kept
  <1> QED
    BY <1>1, <1>3, <1>4, <1>5

LEMMA GiveUpKeeps == ASSUME IInv, NEW x \in Exchanges, GiveUp(x) PROVE IInv' /\ Kept
  <1> USE DEF IInv, GiveUp, files
  <1>1. TypeOK'
    BY DEF TypeOK, Serving
  <1>2. \A y \in Exchanges : Name(y)' = Name(y)
    BY DEF Name
  <1>3. Owned' /\ Answered'
    BY <1>2 DEF TypeOK, Owned, Answered
  <1>4. Unrecorded' /\ Recorded' /\ Once' /\ Moded'
    BY DEF TypeOK, Unrecorded, Recorded, Once, Moded, Before
  <1>5. PairsMatch' /\ Kept
    BY DEF PairsMatch, Kept
  <1> QED
    BY <1>1, <1>3, <1>4, <1>5

\* The name of the exchange that draws changes, and it owns no file under the old one.
LEMMA DrawKeeps == ASSUME IInv, NEW x \in Exchanges, Draw(x) PROVE IInv' /\ Kept
  <1> USE DEF IInv, Draw, files
  <1>1. TypeOK'
    BY DEF TypeOK, Serving
  <1>2. \A y \in Exchanges : y # x => Name(y)' = Name(y)
    BY DEF Name, TypeOK
  <1>3. Owned' /\ Answered'
    BY <1>2 DEF TypeOK, Owned, Answered
  <1>4. Unrecorded' /\ Recorded' /\ Once' /\ Moded'
    BY DEF TypeOK, Unrecorded, Recorded, Once, Moded, Before
  <1>5. PairsMatch' /\ Kept
    BY DEF PairsMatch, Kept
  <1> QED
    BY <1>1, <1>3, <1>4, <1>5

\* A name that is free becomes the exchange's own; nobody who writes has that name.
LEMMA OpenKeeps == ASSUME IInv, NEW x \in Exchanges, Open(x) PROVE IInv' /\ Kept
  <1> USE DEF IInv
  <1>0. /\ pc[x] = "opening"
        /\ UNCHANGED <<request, seq, crashes, at, served, number, mode>>
    BY DEF Open
  <1>1. \A y \in Exchanges : Name(y)' = Name(y)
    BY <1>0 DEF Name
  <1>2. CASE pc' = [pc EXCEPT ![x] = "naming"] /\ UNCHANGED response
    <2>1. TypeOK'
      BY <1>0, <1>2 DEF TypeOK, Serving
    <2>2. Owned' /\ Answered'
      BY <1>0, <1>1, <1>2 DEF TypeOK, Owned, Answered
    <2>3. Unrecorded' /\ Recorded' /\ Once' /\ Moded'
      BY <1>0, <1>2 DEF TypeOK, Unrecorded, Recorded, Once, Moded, Before
    <2>4. PairsMatch' /\ Kept
      BY <1>0, <1>2 DEF PairsMatch, Kept
    <2> QED
      BY <2>1, <2>2, <2>3, <2>4
  <1>3. CASE pc' = [pc EXCEPT ![x] = "relaying"] /\ UNCHANGED response
    <2>1. TypeOK'
      BY <1>0, <1>3 DEF TypeOK, Serving
    <2>2. Owned' /\ Answered'
      BY <1>0, <1>1, <1>3 DEF TypeOK, Owned, Answered
    <2>3. Unrecorded' /\ Recorded' /\ Once' /\ Moded'
      BY <1>0, <1>3 DEF TypeOK, Unrecorded, Recorded, Once, Moded, Before
    <2>4. PairsMatch' /\ Kept
      BY <1>0, <1>3 DEF PairsMatch, Kept
    <2> QED
      BY <2>1, <2>2, <2>3, <2>4
  <1>4. CASE /\ Name(x) \notin DOMAIN response
             /\ pc' = [pc EXCEPT ![x] = "writing"]
             /\ response' = Created(response, Name(x), [of |-> x, whole |-> FALSE])
    <2>1. PICK name : name = Name(x)
      OBVIOUS
    <2>2. /\ DOMAIN response' = DOMAIN response \cup {name}
          /\ response'[name] = [of |-> x, whole |-> FALSE]
          /\ \A n \in DOMAIN response : response'[n] = response[n]
          /\ name \notin DOMAIN response
      BY <1>4, <2>1 DEF Created
    <2>a. response'[name].of = x /\ \A n \in DOMAIN response' : n = name \/ n \in DOMAIN response
      BY <2>2
    <2>b. \A n \in DOMAIN response : response'[n] = response[n]
      BY <2>2
    <2>3. name \in {Label[y] : y \in Exchanges} \X Nat
      BY <2>1, NameType
    <2>4. TypeOK'
      <3>1. DOMAIN response' \subseteq {Label[y] : y \in Exchanges} \X Nat
        BY <2>2, <2>3 DEF TypeOK
      <3>2. \A n \in DOMAIN response' : response'[n] \in [of : Exchanges \cup {Earlier}, whole : BOOLEAN]
        <4>1. response'[name] \in [of : Exchanges \cup {Earlier}, whole : BOOLEAN]
          BY <2>2
        <4>2. \A n \in DOMAIN response : response'[n] \in [of : Exchanges \cup {Earlier}, whole : BOOLEAN]
          BY <2>2 DEF TypeOK
        <4> QED
          BY <4>1, <4>2, <2>2
      <3>3. DOMAIN request' \subseteq DOMAIN response' /\ \A n \in DOMAIN request' : request'[n] \in Exchanges \cup {Earlier}
        BY <1>0, <2>2 DEF TypeOK
      <3>4. pc' \in [Exchanges -> Serving \cup {"none", "refused", "done", "lost"}]
        BY <1>4 DEF TypeOK, Serving
      <3> QED
        BY <1>0, <3>1, <3>2, <3>3, <3>4 DEF TypeOK
    <2>5. \A n \in DOMAIN response : response[n].of # x
      BY <1>0 DEF Unrecorded, Before
    <2>6. \A n \in DOMAIN response' : response'[n].of = x => n = name
      BY <2>2, <2>5
    <2>7. Owned'
      <3>1. ASSUME NEW y \in Exchanges, y # x, pc'[y] \in {"writing", "pairing"}
            PROVE  /\ Name(y) \in DOMAIN response' /\ response'[Name(y)].of = y
                   /\ pc'[y] = "pairing" => response'[Name(y)].whole
        <4>1. pc[y] = pc'[y]
          BY <3>1, <1>4 DEF TypeOK
        <4> QED
          BY <3>1, <4>1, <2>2 DEF Owned
      <3>2. pc'[x] = "writing" /\ name \in DOMAIN response' /\ response'[name].of = x
        BY <1>4, <2>2 DEF TypeOK
      <3> QED
        BY <3>1, <3>2, <1>1, <2>1 DEF Owned
    <2>8. Answered' /\ Recorded'
      <3>1. served[x] = "ok" /\ served' = served
        BY <1>0 DEF Answered
      <3>2. Answered'
        BY <3>1, <1>4 DEF TypeOK, Answered
      <3>3. \A n \in DOMAIN response' : \/ n = name /\ response'[n].of = x
                                        \/ n \in DOMAIN response /\ response'[n] = response[n]
        BY <2>a, <2>b
      <3>4. Recorded'
        BY <3>1, <3>3 DEF Recorded
      <3> QED
        BY <3>2, <3>4
    <2>9. Unrecorded'
      <3> SUFFICES ASSUME NEW n \in DOMAIN response', NEW y \in Exchanges, response'[n].of = y
                   PROVE  pc'[y] \notin Before
        BY DEF Unrecorded
      <3>1. CASE n = name
        BY <3>1, <2>2, <1>4 DEF TypeOK, Before
      <3>2. CASE n # name
        <4>1. n \in DOMAIN response /\ response[n].of = y /\ y # x
          BY <3>2, <2>2, <2>5
        <4> QED
          BY <4>1, <1>4 DEF TypeOK, Unrecorded
      <3> QED
        BY <3>1, <3>2
    <2>10. Once'
      BY <2>2, <2>5, <2>6 DEF Once
    <2>11. Moded'
      <3>1. mode[x] = "none"
        BY <1>0 DEF Moded
      <3> QED
        <4>1. mode' = mode /\ \A y \in Exchanges : pc'[y] # "done" => pc[y] # "done"
          BY <1>0, <1>4 DEF TypeOK
        <4>2. \A n \in DOMAIN response' : \/ n = name /\ response'[n].of = x
                                          \/ n \in DOMAIN response /\ response'[n] = response[n]
          BY <2>a, <2>b
        <4> QED
          BY <3>1, <4>1, <4>2 DEF Moded
    <2>12. PairsMatch'
      BY <1>0, <2>2 DEF PairsMatch
    <2>13. Kept
      BY <2>2 DEF Kept
    <2> QED
      BY <2>4, <2>7, <2>8, <2>9, <2>10, <2>11, <2>12, <2>13
  <1> QED
    BY <1>2, <1>3, <1>4 DEF Open

\* Only the exchange's own file is written.
LEMMA WriteKeeps == ASSUME IInv, NEW x \in Exchanges, Write(x) PROVE IInv' /\ Kept
  <1> USE DEF IInv
  <1>0. /\ pc[x] = "writing" /\ UNCHANGED <<request, seq, crashes, at, served, number, mode>>
    BY DEF Write
  <1>1. \A y \in Exchanges : Name(y)' = Name(y)
    BY <1>0 DEF Name
  <1>2. PICK next \in {"pairing", "relaying"} : pc' = [pc EXCEPT ![x] = next]
    BY DEF Write
  <1>3. PICK name : name = Name(x)
    OBVIOUS
  <1>4. /\ DOMAIN response' = DOMAIN response
        /\ \A n \in DOMAIN response : /\ response'[n].of = response[n].of
                                      /\ response'[n] \in [of : Exchanges \cup {Earlier}, whole : BOOLEAN]
                                      /\ response[n].whole => response'[n].whole
        /\ next = "pairing" => response'[name].whole
    <2>0. name \in DOMAIN response
      BY <1>0, <1>3 DEF Owned
    <2>1. CASE pc' = [pc EXCEPT ![x] = "pairing"] /\ response' = [response EXCEPT ![Name(x)].whole = TRUE]
      <3>1. /\ DOMAIN response' = DOMAIN response
            /\ \A n \in DOMAIN response : n # name => response'[n] = response[n]
            /\ response'[name] = [response[name] EXCEPT !.whole = TRUE]
        BY <2>0, <2>1, <1>3
      <3>2. /\ response[name] \in [of : Exchanges \cup {Earlier}, whole : BOOLEAN]
            /\ response'[name] \in [of : Exchanges \cup {Earlier}, whole : BOOLEAN]
            /\ response'[name].of = response[name].of /\ response'[name].whole
        BY <2>0, <3>1 DEF TypeOK
      <3> QED
        BY <3>1, <3>2 DEF TypeOK
    <2>2. CASE pc' = [pc EXCEPT ![x] = "relaying"] /\ UNCHANGED response
      <3>1. next = "relaying"
        BY <2>2, <1>2 DEF TypeOK
      <3> QED
        BY <2>2, <3>1 DEF TypeOK
    <2> QED
      BY <2>1, <2>2 DEF Write
  <1>5. TypeOK'
    BY <1>0, <1>2, <1>4 DEF TypeOK, Serving
  <1>6. Owned'
    <2>1. ASSUME NEW y \in Exchanges, y # x, pc'[y] \in {"writing", "pairing"}
          PROVE  /\ Name(y) \in DOMAIN response' /\ response'[Name(y)].of = y
                 /\ pc'[y] = "pairing" => response'[Name(y)].whole
      <3>1. pc[y] = pc'[y]
        BY <2>1, <1>2 DEF TypeOK
      <3> QED
        BY <2>1, <3>1, <1>4 DEF Owned
    <2>2. name \in DOMAIN response' /\ response'[name].of = x /\ pc'[x] = next
      BY <1>0, <1>2, <1>3, <1>4 DEF TypeOK, Owned
    <2> QED
      BY <2>1, <2>2, <1>1, <1>3, <1>4 DEF Owned
  <1>7. Answered' /\ Recorded' /\ Once' /\ Moded'
    BY <1>0, <1>2, <1>4 DEF TypeOK, Answered, Recorded, Once, Moded
  <1>8. Unrecorded'
    BY <1>0, <1>2, <1>4 DEF TypeOK, Unrecorded, Before
  <1>9. PairsMatch' /\ Kept
    BY <1>0, <1>4 DEF PairsMatch, Kept
  <1> QED
    BY <1>5, <1>6, <1>7, <1>8, <1>9

\* The request goes beside the exchange's own response, which is whole.
LEMMA PairKeeps == ASSUME IInv, NEW x \in Exchanges, Pair(x) PROVE IInv' /\ Kept
  <1> USE DEF IInv
  <1>0. /\ pc[x] = "pairing" /\ pc' = [pc EXCEPT ![x] = "relaying"]
        /\ UNCHANGED <<response, seq, crashes, at, served, number, mode>>
    BY DEF Pair
  <1>1. \A y \in Exchanges : Name(y)' = Name(y)
    BY <1>0 DEF Name
  <1>2. PICK name : name = Name(x)
    OBVIOUS
  <1>3. name \in DOMAIN response /\ response[name].of = x /\ response[name].whole
    BY <1>0, <1>2 DEF Owned
  <1>4. \A n \in DOMAIN request' : \/ n = name /\ request'[n] = x
                                   \/ n \in DOMAIN request /\ request'[n] = request[n]
    BY <1>2 DEF Pair, Created
  <1>5. TypeOK'
    <2>1. DOMAIN request' \subseteq DOMAIN response /\ \A n \in DOMAIN request' : request'[n] \in Exchanges \cup {Earlier}
      BY <1>3, <1>4 DEF TypeOK
    <2> QED
      BY <1>0, <2>1 DEF TypeOK, Serving
  <1>6. PairsMatch'
    BY <1>0, <1>3, <1>4 DEF PairsMatch
  <1>7. Owned' /\ Answered'
    BY <1>0, <1>1 DEF TypeOK, Owned, Answered
  <1>8. Unrecorded' /\ Recorded' /\ Once' /\ Moded' /\ Kept
    BY <1>0 DEF TypeOK, Unrecorded, Recorded, Once, Moded, Before, Kept
  <1> QED
    BY <1>5, <1>6, <1>7, <1>8

\* An exchange that falls back has no capture.
LEMMA AnswerKeeps == ASSUME IInv, NEW x \in Exchanges, Answer(x) PROVE IInv' /\ Kept
  <1> USE DEF IInv, files
  <1>0. /\ pc[x] \in {"relaying", "falling"} /\ pc' = [pc EXCEPT ![x] = "done"]
        /\ mode' = [mode EXCEPT ![x] = IF pc[x] = "relaying" THEN "proxy" ELSE "synthetic-fallback"]
        /\ UNCHANGED <<response, request, seq, crashes, at, served, number>>
    BY DEF Answer
  <1>1. \A y \in Exchanges : Name(y)' = Name(y)
    BY <1>0 DEF Name
  <1>2. TypeOK'
    BY <1>0 DEF TypeOK
  <1>3. Owned' /\ Answered'
    BY <1>0, <1>1 DEF TypeOK, Owned, Answered
  <1>4. Unrecorded' /\ Recorded' /\ Once'
    BY <1>0 DEF TypeOK, Unrecorded, Recorded, Once, Before
  <1>5. Moded'
    <2>1. \A n \in DOMAIN response : response[n].of = x => pc[x] = "relaying"
      BY <1>0 DEF Unrecorded, Before
    <2> QED
      BY <1>0, <2>1 DEF TypeOK, Moded
  <1>6. PairsMatch' /\ Kept
    BY <1>0 DEF PairsMatch, Kept
  <1> QED
    BY <1>2, <1>3, <1>4, <1>5, <1>6

LEMMA CrashKeeps == ASSUME IInv, NEW p \in Process, Crash(p) PROVE IInv' /\ Kept
  <1> USE DEF IInv, Crash, files
  <1>1. TypeOK'
    <2>1. seq' \in [Process -> Nat] /\ crashes' \in 0..MaxCrashes
      BY ProcessAssumption DEF TypeOK
    <2>2. pc' \in [Exchanges -> Serving \cup {"none", "refused", "done", "lost"}]
      BY DEF TypeOK
    <2> QED
      BY <2>1, <2>2 DEF TypeOK
  <1>2. \A y \in Exchanges : Name(y)' = Name(y)
    BY DEF Name
  <1>3. \A y \in Exchanges : pc'[y] = pc[y] \/ (pc'[y] = "lost" /\ pc[y] # "done")
    <2>1. \A y \in Exchanges : pc'[y] = IF at[y] = p /\ pc[y] \in Serving THEN "lost" ELSE pc[y]
      OBVIOUS
    <2>2. \A y \in Exchanges : pc[y] \in Serving => pc[y] # "done"
      BY DEF Serving
    <2> QED
      BY <2>1, <2>2
  <1>4. Owned' /\ Answered'
    BY <1>2, <1>3 DEF TypeOK, Owned, Answered
  <1>5. Unrecorded' /\ Recorded' /\ Once' /\ Moded'
    BY <1>3 DEF TypeOK, Unrecorded, Recorded, Once, Moded, Before
  <1>6. PairsMatch' /\ Kept
    BY DEF PairsMatch, Kept
  <1> QED
    BY <1>1, <1>4, <1>5, <1>6

LEMMA InvStep == IInv /\ [Next]_vars => IInv' /\ Kept
  <1> SUFFICES ASSUME IInv, [Next]_vars PROVE IInv' /\ Kept
    OBVIOUS
  <1>1. CASE Next
    BY <1>1, AskKeeps, ProvideKeeps, TakeAnswerKeeps, GiveUpKeeps, DrawKeeps, OpenKeeps, WriteKeeps,
       PairKeeps, AnswerKeeps, CrashKeeps DEF Next, Handle
  <1>2. CASE UNCHANGED vars
    BY <1>2 DEF vars, files, IInv, TypeOK, Owned, Unrecorded, Answered, Recorded, Once, Moded, PairsMatch,
                Kept, Name
  <1> QED
    BY <1>1, <1>2

--------------------------------------------------------------------------------
(* The theorems *)

\* The invariant holds in every state of every behaviour.
THEOREM IInvCorrect == Spec => []IInv
  BY InvInit, InvStep, PTL DEF Spec

\* Every variable stays in its type.
THEOREM TypeCorrect == Spec => []TypeOK
  <1>1. IInv => TypeOK
    BY DEF IInv
  <1> QED
    BY <1>1, IInvCorrect, PTL

\* A request on disk stands beside the whole response to that very request (record in
\* proxy.go), after any crash and any write error.
THEOREM PairsCorrect == Spec => []PairsMatch
  <1>1. IInv => PairsMatch
    BY DEF IInv
  <1> QED
    BY <1>1, IInvCorrect, PTL

\* A capture is the provider's 200 to an exchange, made once, and the synthetic handler
\* does not act on that exchange (handle and withProxy).
THEOREM CapturedCorrect == Spec => []CapturedIsRelayed
  <1>1. IInv => CapturedIsRelayed
    <2> SUFFICES ASSUME IInv, NEW n \in DOMAIN response, response[n].of # Earlier,
                        NEW x, x = response[n].of
                 PROVE  /\ served[x] = "ok" /\ pc[x] # "falling" /\ mode[x] # "synthetic-fallback"
                        /\ \A m \in DOMAIN response : response[m].of = x => m = n
      BY DEF CapturedIsRelayed
    <2>1. x \in Exchanges
      BY DEF IInv, TypeOK
    <2> QED
      BY <2>1 DEF IInv, Unrecorded, Before, Recorded, Once, Moded
  <1> QED
    BY <1>1, IInvCorrect, PTL

\* No step removes a capture, gives its name to another, or damages one that is whole
\* (O_EXCL in record), however often the numbering restarts.
THEOREM CapturesCorrect == Spec => CapturesKept
  <1>1. IInv /\ [Next]_vars => [Kept]_vars
    BY InvStep
  <1>2. CapturesKept <=> [][Kept]_vars
    BY PTL DEF CapturesKept, Kept
  <1> QED
    BY <1>1, <1>2, IInvCorrect, PTL DEF Spec
================================================================================
