------------------------------ MODULE GateProofs ------------------------------
(***************************************************************************)
(* The kv_store call path for any nonces, limits and losses: a call is one *)
(* operation to its caller, and ends early only on its own timeout.  What  *)
(* ties a reply to its call is the nonce: a call is told what was done for *)
(* one of its own requests, however late the rest comes.                   *)
(***************************************************************************)
EXTENDS KvGate, TLAPS

\* A reply tells the truth about the call in progress.
Truthful(content) ==
    /\ content = "ok" /\ caller.kind = "write" => applied
    /\ content = "more" => caller.kind = "list"

\* The requests and replies under the nonces of the call belong to it.
OwnTraffic ==
    caller # Idle =>
        /\ caller.nonce \in caller.sent
        /\ caller.step = "sleep" => caller.kind = "write"
        /\ \A r \in requests : r.nonce \in caller.sent => r.kind = caller.kind
        /\ \A r \in replies : r.nonce \in caller.sent => Truthful(r.content)
        /\ Truthful(caller.got)

\* While no round has ended during a call, the only callback registered is
\* that of the call that waits, and the flag is lowered by its reply.
OneCallback ==
    roundEnds = 0 =>
        IF Waiting
        THEN IF inFlight THEN callbacks \subseteq {caller.nonce}
             ELSE callbacks = {} /\ caller.got # "none"
        ELSE callbacks = {}

-----------------------------------------------------------------------------
\* A call in progress is not idle.
LEMMA CallFields ==
    ASSUME TypeOK, caller # Idle
    PROVE  /\ caller \in Calls
           /\ caller.kind \in Kinds /\ caller.step \in {"wait", "sleep"}
           /\ caller.turn \in Nat \ {0} /\ caller.nonce \in Nonces
           /\ caller.got \in {"none", "ok", "more", "error"}
           /\ caller.sent \subseteq Nonces
BY DEF TypeOK, Calls

\* No call has the kind of the idle caller.
LEMMA CallNotIdle ==
    ASSUME NEW c \in Calls
    PROVE  c # Idle /\ c.kind # "idle"
BY DEF Calls, Kinds, Idle

\* A message sent: its nonce is in use nowhere else.
LEMMA SendFacts ==
    ASSUME TypeOK, NEW kind \in Kinds, NEW turn \in Nat \ {0}, NEW sent \in SUBSET Nonces,
           Send(kind, turn, sent)
    PROVE  \E n \in Unused :
              /\ n \in Nonces
              /\ callbacks' = callbacks \cup {n} /\ inFlight' = TRUE
              /\ requests' = requests \cup {[nonce |-> n, kind |-> kind]}
              /\ caller' = [kind |-> kind, step |-> "wait", turn |-> turn, nonce |-> n,
                            got |-> "none", sent |-> sent \cup {n}]
              /\ caller' \in Calls /\ caller' # Idle
<1>1. PICK n \in Unused :
        /\ callbacks' = callbacks \cup {n} /\ inFlight' = TRUE
        /\ requests' = requests \cup {[nonce |-> n, kind |-> kind]}
        /\ caller' = [kind |-> kind, step |-> "wait", turn |-> turn, nonce |-> n,
                      got |-> "none", sent |-> sent \cup {n}]
  BY DEF Send
<1>2. n \in Nonces
  BY DEF Unused
<1>3. caller' \in Calls
  BY <1>1, <1>2 DEF Calls
<1> QED
  BY <1>1, <1>2, <1>3, CallNotIdle

\* What the three actions that send have in common.
LEMMA Sends ==
    ASSUME TypeOK, OwnTraffic, StartCall \/ NextPage \/ NextAttempt
    PROVE  \E kind \in Kinds, turn \in Nat \ {0}, sent \in SUBSET Nonces :
              /\ Send(kind, turn, sent)
              /\ UNCHANGED <<replies, losses, roundEnds>>
              /\ \/ /\ caller = Idle /\ sent = {}
                    /\ applied' = FALSE /\ result' = "nothing"
                 \/ /\ caller # Idle /\ kind = caller.kind /\ sent = caller.sent
                    /\ caller.step = "wait" => ~ inFlight /\ caller.got = "more"
                    /\ UNCHANGED <<applied, result>>
<1>1. CASE StartCall
  <2>1. PICK kind \in Kinds : Send(kind, 1, {})
    BY <1>1 DEF StartCall
  <2>2. 1 \in Nat \ {0} /\ {} \in SUBSET Nonces
    OBVIOUS
  <2> QED
    BY <1>1, <2>1, <2>2 DEF StartCall
<1>2. CASE NextPage
  <2>1. caller # Idle /\ ~ inFlight /\ caller.got = "more"
        /\ Send("list", caller.turn + 1, caller.sent)
        /\ UNCHANGED <<replies, losses, roundEnds, applied, result>>
    BY <1>2 DEF NextPage, Waiting
  <2>2. caller.turn + 1 \in Nat \ {0} /\ caller.sent \in SUBSET Nonces
    BY <2>1, CallFields
  <2>3. caller.kind = "list" /\ "list" \in Kinds
    BY <2>1 DEF OwnTraffic, Truthful, Kinds
  <2> QED
    BY <2>1, <2>2, <2>3
<1>3. CASE NextAttempt
  <2>1. caller # Idle /\ caller.step = "sleep"
        /\ Send("write", caller.turn + 1, caller.sent)
        /\ UNCHANGED <<replies, losses, roundEnds, applied, result>>
    BY <1>3 DEF NextAttempt
  <2>2. caller.turn + 1 \in Nat \ {0} /\ caller.sent \in SUBSET Nonces
    BY <2>1, CallFields
  <2>3. caller.kind = "write" /\ "write" \in Kinds
    BY <2>1 DEF OwnTraffic, Kinds
  <2> QED
    BY <2>1, <2>2, <2>3
<1> QED
  BY <1>1, <1>2, <1>3

\* What follows a wait: the call is over, or a write sleeps.
LEMMA ConcludesFacts ==
    ASSUME TypeOK, Waiting, Concludes
    PROVE  /\ UNCHANGED <<requests, replies, losses, roundEnds>>
           /\ \/ /\ caller' = Idle /\ applied' = FALSE
                 /\ result' \in {"failed", "done", "partial"}
                 /\ result' = "done" => caller.got = "ok"
                 /\ result' = "partial" => caller.got = "more"
              \/ /\ caller' = [caller EXCEPT !.step = "sleep"]
                 /\ caller.kind = "write"
                 /\ UNCHANGED <<applied, result>>
BY DEF Concludes, Finish

\* A sleeping call.
LEMMA SleepFacts ==
    ASSUME NEW c \in Calls, NEW d, d = [c EXCEPT !.step = "sleep"]
    PROVE  /\ d \in Calls /\ d # Idle
           /\ d.step = "sleep" /\ d.kind = c.kind /\ d.nonce = c.nonce
           /\ d.sent = c.sent /\ d.got = c.got
<1>1. d \in Calls
  BY DEF Calls
<1> QED
  BY <1>1, CallNotIdle DEF Calls

\* A call that recorded a reply.
LEMMA RecordFacts ==
    ASSUME NEW c \in Calls, NEW v \in {"ok", "more", "error"}, NEW d,
           d = [c EXCEPT !.got = v]
    PROVE  /\ d \in Calls /\ d # Idle
           /\ d.step = c.step /\ d.kind = c.kind /\ d.nonce = c.nonce
           /\ d.sent = c.sent /\ d.got = v
<1>1. d \in Calls
  BY DEF Calls
<1> QED
  BY <1>1, CallNotIdle DEF Calls

\* What Handle does to the call: it records its own reply, or nothing.
LEMMA HandleFacts ==
    ASSUME TypeOK, NEW r \in replies, Handle(r)
    PROVE  /\ replies' = replies \ {r}
           /\ UNCHANGED <<requests, applied, result, losses, roundEnds>>
           /\ r.content \in {"ok", "more", "error"}
           /\ \/ /\ r.nonce \in callbacks /\ callbacks' = callbacks \ {r.nonce}
                 /\ inFlight' = FALSE
                 /\ \/ /\ Waiting /\ caller.nonce = r.nonce
                       /\ caller' = [caller EXCEPT !.got = r.content]
                    \/ ~ (Waiting /\ caller.nonce = r.nonce) /\ caller' = caller
              \/ r.nonce \notin callbacks /\ UNCHANGED <<callbacks, caller, inFlight>>
BY DEF Handle, Record, TypeOK

-----------------------------------------------------------------------------
\* Sending keeps the types.
LEMMA SendType ==
    ASSUME TypeOK, OwnTraffic, StartCall \/ NextPage \/ NextAttempt
    PROVE  TypeOK'
<1>1. PICK kind \in Kinds, turn \in Nat \ {0}, sent \in SUBSET Nonces :
        /\ Send(kind, turn, sent)
        /\ UNCHANGED <<replies, losses, roundEnds>>
        /\ applied' \in BOOLEAN
        /\ result' \in {"nothing", "failed", "done", "partial"}
  BY Sends DEF TypeOK
<1>2. PICK n \in Unused :
        /\ n \in Nonces
        /\ callbacks' = callbacks \cup {n} /\ inFlight' = TRUE
        /\ requests' = requests \cup {[nonce |-> n, kind |-> kind]}
        /\ caller' \in Calls
  BY <1>1, SendFacts
<1> QED
  BY <1>1, <1>2 DEF TypeOK

\* The conclusion of a wait keeps the types.
LEMMA ConcludesType ==
    ASSUME TypeOK, Waiting, Concludes, inFlight' \in BOOLEAN, callbacks' \subseteq Nonces
    PROVE  TypeOK'
<1>1. caller' \in Calls \cup {Idle}
  BY ConcludesFacts, CallFields, SleepFacts DEF Waiting
<1>2. applied' \in BOOLEAN /\ result' \in {"nothing", "failed", "done", "partial"}
  BY ConcludesFacts DEF TypeOK
<1> QED
  BY <1>1, <1>2, ConcludesFacts DEF TypeOK

\* The wire keeps the types.
LEMMA WireType ==
    ASSUME TypeOK, Wire
    PROVE  TypeOK'
<1>1. ASSUME NEW r \in requests, Serve(r)
      PROVE  TypeOK'
  <2>1. r.nonce \in Nonces
    BY DEF TypeOK
  <2>2. \A c \in {"ok", "more", "error"} :
          [nonce |-> r.nonce, content |-> c] \in
             [nonce : Nonces, content : {"ok", "more", "error"}]
    BY <2>1
  <2>3. replies' \subseteq [nonce : Nonces, content : {"ok", "more", "error"}]
    BY <1>1, <2>2 DEF Serve, TypeOK
  <2>4. applied' \in BOOLEAN
    BY <1>1 DEF Serve, TypeOK
  <2>5. requests' \subseteq requests
    BY <1>1 DEF Serve
  <2> QED
    BY <1>1, <2>3, <2>4, <2>5 DEF Serve, TypeOK
<1>2. ASSUME NEW r \in replies, Handle(r)
      PROVE  TypeOK'
  <2>1. caller' \in Calls \cup {Idle}
    <3>1. CASE caller' = caller
      BY <3>1 DEF TypeOK
    <3>2. CASE caller' # caller
      <4>1. /\ Waiting /\ caller' = [caller EXCEPT !.got = r.content]
            /\ r.content \in {"ok", "more", "error"}
        BY <1>2, <3>2, HandleFacts
      <4>2. caller \in Calls
        BY <4>1, CallFields DEF Waiting
      <4> QED
        BY <4>1, <4>2, RecordFacts
    <3> QED
      BY <3>1, <3>2
  <2> QED
    BY <1>2, <2>1, HandleFacts DEF TypeOK
<1>3. ASSUME NEW r \in replies, Lose(r)
      PROVE  TypeOK'
  BY <1>3, KvGateAssumption DEF Lose, TypeOK
<1> QED
  BY <1>1, <1>2, <1>3 DEF Wire

\* Every step keeps the types.
LEMMA GateTypeNext == TypeOK /\ OwnTraffic /\ [Next]_vars => TypeOK'
<1> SUFFICES ASSUME TypeOK, OwnTraffic, [Next]_vars PROVE TypeOK'
  OBVIOUS
<1>1. CASE StartCall \/ NextPage \/ NextAttempt
  BY <1>1, SendType
<1>2. CASE PollPasses
  BY <1>2, ConcludesType DEF PollPasses, TypeOK
<1>3. CASE Watchdog
  BY <1>3, ConcludesType DEF Watchdog, TypeOK
<1>4. CASE Wire
  BY <1>4, WireType
<1>5. CASE RoundEnds
  <2>1. roundEnds' \in 0 .. MaxRoundEnds
    BY <1>5, KvGateAssumption DEF RoundEnds, TypeOK
  <2>2. caller' \in Calls \cup {Idle} /\ applied' \in BOOLEAN
    BY <1>5 DEF RoundEnds
  <2> QED
    BY <1>5, <2>1, <2>2 DEF RoundEnds, TypeOK
<1>6. CASE UNCHANGED vars
  BY <1>6 DEF vars, TypeOK
<1> QED
  BY <1>1, <1>2, <1>3, <1>4, <1>5, <1>6 DEF Next, Behaviour

-----------------------------------------------------------------------------
\* A new request belongs to the call, under a nonce nothing else carries.
LEMMA SendOwn ==
    ASSUME TypeOK, OwnTraffic, StartCall \/ NextPage \/ NextAttempt
    PROVE  OwnTraffic'
<1>1. PICK kind \in Kinds, turn \in Nat \ {0}, sent \in SUBSET Nonces :
        /\ Send(kind, turn, sent)
        /\ UNCHANGED <<replies, losses, roundEnds>>
        /\ \/ caller = Idle /\ sent = {}
           \/ /\ caller # Idle /\ kind = caller.kind /\ sent = caller.sent
              /\ UNCHANGED <<applied, result>>
  BY Sends
<1>2. PICK n \in Unused :
        /\ requests' = requests \cup {[nonce |-> n, kind |-> kind]}
        /\ caller' = [kind |-> kind, step |-> "wait", turn |-> turn, nonce |-> n,
                      got |-> "none", sent |-> sent \cup {n}]
  BY <1>1 DEF Send
<1>a. (\A r \in requests : r.nonce # n) /\ (\A r \in replies : r.nonce # n)
  BY DEF Unused
<1>3. /\ caller'.kind = kind /\ caller'.step = "wait" /\ caller'.nonce = n
      /\ caller'.got = "none" /\ caller'.sent = sent \cup {n}
  BY <1>2
<1>4. \A r \in requests : r.nonce \in sent => r.kind = kind
  BY <1>1 DEF OwnTraffic
<1>5. \A r \in requests' : r.nonce \in sent \cup {n} => r.kind = kind
  BY <1>2, <1>a, <1>4
<1>6. \A r \in replies : r.nonce \in sent =>
         /\ r.content = "ok" /\ kind = "write" => applied'
         /\ r.content = "more" => kind = "list"
  BY <1>1 DEF OwnTraffic, Truthful
<1> QED
  BY <1>1, <1>2, <1>a, <1>3, <1>5, <1>6 DEF OwnTraffic, Truthful

\* The end of a wait leaves what the call knows.
LEMMA ConcludesOwn ==
    ASSUME TypeOK, OwnTraffic, Waiting, Concludes
    PROVE  OwnTraffic'
<1>1. UNCHANGED <<requests, replies>>
  BY ConcludesFacts
<1>2. CASE caller' = Idle
  BY <1>2 DEF OwnTraffic
<1>3. CASE caller' # Idle
  <2>1. caller' = [caller EXCEPT !.step = "sleep"] /\ caller.kind = "write"
        /\ applied' = applied
    BY <1>3, ConcludesFacts
  <2>2. caller # Idle /\ caller \in Calls
    BY CallFields DEF Waiting
  <2>3. /\ caller'.kind = caller.kind /\ caller'.nonce = caller.nonce
        /\ caller'.sent = caller.sent /\ caller'.got = caller.got
    BY <2>1, <2>2, SleepFacts
  <2> QED
    BY <1>1, <2>1, <2>2, <2>3 DEF OwnTraffic, Truthful
<1> QED
  BY <1>2, <1>3

\* The connection answers what it did; the handler and losses only take away.
LEMMA WireOwn ==
    ASSUME TypeOK, OwnTraffic, Wire
    PROVE  OwnTraffic'
<1>1. ASSUME NEW r \in requests, Serve(r), caller # Idle
      PROVE  OwnTraffic'
  <2>1. requests' \subseteq requests /\ caller' = caller
    BY <1>1 DEF Serve
  <2>a. applied => applied'
    BY <1>1, Zenon DEF Serve
  <2>2. PICK content \in {"ok", "more", "error"} :
          /\ replies' = replies \cup {[nonce |-> r.nonce, content |-> content]}
          /\ content = "ok" /\ r.kind = "write" /\ r.nonce \in caller.sent => applied'
          /\ content = "more" => r.kind = "list"
    BY <1>1 DEF Serve
  <2>3. r.nonce \in caller.sent => r.kind = caller.kind
    BY <1>1 DEF OwnTraffic
  <2>4. \A q \in replies' : q.nonce \in caller.sent =>
           /\ q.content = "ok" /\ caller.kind = "write" => applied'
           /\ q.content = "more" => caller.kind = "list"
    BY <1>1, <2>1, <2>a, <2>2, <2>3 DEF OwnTraffic, Truthful
  <2> QED
    BY <1>1, <2>1, <2>a, <2>4 DEF OwnTraffic, Truthful
<1>2. ASSUME NEW r \in requests, Serve(r), caller = Idle
      PROVE  OwnTraffic'
  BY <1>2 DEF Serve, OwnTraffic
<1>3. ASSUME NEW r \in replies, Handle(r)
      PROVE  OwnTraffic'
  <2>1. replies' \subseteq replies /\ requests' = requests /\ applied' = applied
    BY <1>3, HandleFacts
  <2>2. CASE caller' = caller
    BY <2>1, <2>2 DEF OwnTraffic, Truthful
  <2>3. CASE caller' # caller
    <3>1. /\ Waiting /\ caller.nonce = r.nonce /\ caller' = [caller EXCEPT !.got = r.content]
          /\ r.content \in {"ok", "more", "error"}
      BY <1>3, <2>3, HandleFacts
    <3>2. caller # Idle /\ caller \in Calls
      BY <3>1, CallFields DEF Waiting
    <3>3. /\ caller'.step = caller.step /\ caller'.kind = caller.kind
          /\ caller'.nonce = caller.nonce /\ caller'.sent = caller.sent
          /\ caller'.got = r.content
      BY <3>1, <3>2, RecordFacts
    <3>4. Truthful(r.content)
      BY <1>3, <3>1, <3>2 DEF OwnTraffic
    <3> QED
      BY <2>1, <3>2, <3>3, <3>4 DEF OwnTraffic, Truthful
  <2> QED
    BY <2>2, <2>3
<1>4. ASSUME NEW r \in replies, Lose(r)
      PROVE  OwnTraffic'
  BY <1>4 DEF Lose, OwnTraffic, Truthful
<1> QED
  BY <1>1, <1>2, <1>3, <1>4 DEF Wire

\* Every step keeps the call's traffic its own.
LEMMA OwnNext == TypeOK /\ OwnTraffic /\ [Next]_vars => OwnTraffic'
<1> SUFFICES ASSUME TypeOK, OwnTraffic, [Next]_vars PROVE OwnTraffic'
  OBVIOUS
<1>1. CASE StartCall \/ NextPage \/ NextAttempt
  BY <1>1, SendOwn
<1>2. CASE PollPasses \/ Watchdog
  BY <1>2, ConcludesOwn DEF PollPasses, Watchdog
<1>3. CASE Wire
  BY <1>3, WireOwn
<1>4. CASE RoundEnds
  BY <1>4 DEF RoundEnds, OwnTraffic
<1>5. CASE UNCHANGED vars
  BY <1>5 DEF vars, OwnTraffic, Truthful
<1> QED
  BY <1>1, <1>2, <1>3, <1>4, <1>5 DEF Next, Behaviour

\* The initial state satisfies all three.
LEMMA GateInit == Init => TypeOK /\ OwnTraffic /\ OneCallback
<1> SUFFICES ASSUME Init PROVE TypeOK /\ OwnTraffic /\ OneCallback
  OBVIOUS
<1>1. TypeOK
  <2>1. losses \in 0 .. MaxLosses /\ roundEnds \in 0 .. MaxRoundEnds
    BY KvGateAssumption DEF Init
  <2>2. inFlight \in BOOLEAN /\ applied \in BOOLEAN
    BY DEF Init
  <2>3. /\ callbacks = {} /\ requests = {} /\ replies = {} /\ caller = Idle
        /\ result = "nothing"
    BY DEF Init
  <2> QED
    BY <2>1, <2>2, <2>3 DEF TypeOK
<1>2. OwnTraffic /\ OneCallback
  BY DEF Init, OwnTraffic, OneCallback, Waiting
<1> QED
  BY <1>1, <1>2

\* While no round has ended during a call, every step keeps to one callback.
LEMMA OneCallbackNext ==
    TypeOK /\ OwnTraffic /\ OneCallback /\ [Next]_vars => OneCallback'
<1> SUFFICES ASSUME TypeOK, OwnTraffic, OneCallback, [Next]_vars, roundEnds' = 0
             PROVE  OneCallback'
  BY DEF OneCallback
<1>0. roundEnds = 0 /\ ~ RoundEnds
  <2>1. roundEnds \in Nat
    BY KvGateAssumption DEF TypeOK
  <2>2. ~ RoundEnds
    BY <2>1 DEF RoundEnds
  <2>3. roundEnds' = roundEnds
    <3>1. CASE StartCall \/ NextPage \/ NextAttempt
      BY <3>1 DEF StartCall, NextPage, NextAttempt
    <3>2. CASE PollPasses \/ Watchdog
      BY <3>2, ConcludesFacts DEF PollPasses, Watchdog
    <3>3. CASE Wire
      BY <3>3 DEF Wire, Serve, Handle, Lose
    <3>4. CASE UNCHANGED vars
      BY <3>4 DEF vars
    <3> QED
      BY <2>2, <3>1, <3>2, <3>3, <3>4 DEF Next, Behaviour
  <2> QED
    BY <2>2, <2>3
<1>1. CASE StartCall \/ NextPage \/ NextAttempt
  <2>1. callbacks = {}
    BY <1>0, <1>1 DEF OneCallback, StartCall, NextPage, NextAttempt, Waiting
  <2>2. PICK kind \in Kinds, turn \in Nat \ {0}, sent \in SUBSET Nonces :
          Send(kind, turn, sent)
    BY <1>1, Sends
  <2>3. PICK n \in Unused :
          /\ callbacks' = callbacks \cup {n} /\ inFlight' = TRUE
          /\ caller' = [kind |-> kind, step |-> "wait", turn |-> turn, nonce |-> n,
                        got |-> "none", sent |-> sent \cup {n}]
    BY <2>2 DEF Send
  <2>4. /\ caller'.kind = kind /\ caller'.step = "wait" /\ caller'.nonce = n
        /\ kind # "idle" /\ Idle.kind = "idle"
    BY <2>3 DEF Kinds, Idle
  <2>5. Waiting' /\ callbacks' \subseteq {caller'.nonce}
    BY <2>1, <2>3, <2>4 DEF Waiting
  <2> QED
    BY <2>3, <2>5 DEF OneCallback
<1>2. CASE PollPasses \/ Watchdog
  <2>1. Waiting /\ Concludes
    BY <1>2 DEF PollPasses, Watchdog
  <2>a. callbacks' = {}
    <3>1. CASE PollPasses
      BY <1>0, <3>1 DEF PollPasses, OneCallback
    <3>2. CASE Watchdog
      BY <1>0, <3>2 DEF Watchdog, OneCallback
    <3> QED
      BY <1>2, <3>1, <3>2
  <2>2. ~ Waiting'
    <3>1. CASE caller' = Idle
      BY <3>1 DEF Waiting
    <3>2. CASE caller' # Idle
      <4>1. caller' = [caller EXCEPT !.step = "sleep"]
        BY <2>1, <3>2, ConcludesFacts
      <4>2. caller \in Calls
        BY <2>1, CallFields DEF Waiting
      <4>3. caller'.step = "sleep"
        BY <4>1, <4>2, SleepFacts
      <4> QED
        BY <4>3 DEF Waiting
    <3> QED
      BY <3>1, <3>2
  <2> QED
    BY <2>a, <2>2 DEF OneCallback
<1>3. ASSUME NEW r \in replies, Handle(r)
      PROVE  OneCallback'
  <2>1. CASE r.nonce \notin callbacks
    BY <1>0, <1>3, <2>1 DEF Handle, OneCallback, Waiting
  <2>2. CASE r.nonce \in callbacks
    <3>1. Waiting /\ inFlight /\ callbacks \subseteq {caller.nonce}
      BY <1>0, <2>2 DEF OneCallback
    <3>2. /\ r.nonce = caller.nonce /\ callbacks' = {} /\ inFlight' = FALSE
          /\ caller' = [caller EXCEPT !.got = r.content]
          /\ r.content \in {"ok", "more", "error"}
      BY <1>3, <2>2, <3>1, HandleFacts
    <3>3. caller \in Calls /\ caller.step = "wait"
      BY <3>1, CallFields DEF Waiting
    <3>4. caller'.got = r.content /\ caller' # Idle /\ caller'.step = "wait"
      BY <3>2, <3>3, RecordFacts
    <3> QED
      BY <3>2, <3>4 DEF OneCallback, Waiting
  <2> QED
    BY <2>1, <2>2
<1>4. ASSUME \/ \E r \in requests : Serve(r)
             \/ \E r \in replies : Lose(r)
             \/ UNCHANGED vars
      PROVE  OneCallback'
  <2>1. UNCHANGED <<inFlight, callbacks, caller>>
    BY <1>4 DEF Serve, Lose, vars
  <2> QED
    BY <1>0, <2>1 DEF OneCallback, Waiting
<1> QED
  BY <1>0, <1>1, <1>2, <1>3, <1>4 DEF Next, Behaviour, Wire

\* The invariants hold in every state.
LEMMA GateInvariant == Spec => [](TypeOK /\ OwnTraffic /\ OneCallback)
<1> QED
  BY GateInit, GateTypeNext, OwnNext, OneCallbackNext, PTL DEF Spec

-----------------------------------------------------------------------------
\* Every step of the path is a step of the operation it implements, or none.
LEMMA OperationStep ==
    TypeOK /\ OwnTraffic /\ [Next]_vars => [Operation!OpNext]_(Operation!opVars)
<1> SUFFICES ASSUME TypeOK, OwnTraffic, [Next]_vars
             PROVE  Operation!OpNext \/ UNCHANGED <<caller.kind, applied, result>>
  BY DEF Operation!opVars
<1>0. caller # Idle => caller.kind # "idle"
  BY CallFields, CallNotIdle
<1>1. CASE StartCall \/ NextPage \/ NextAttempt
  <2>1. PICK kind \in Kinds, turn \in Nat \ {0}, sent \in SUBSET Nonces :
          /\ Send(kind, turn, sent)
          /\ \/ caller = Idle /\ applied' = FALSE /\ result' = "nothing"
             \/ kind = caller.kind /\ UNCHANGED <<applied, result>>
    BY <1>1, Sends
  <2>2. caller'.kind = kind
    BY <2>1 DEF Send
  <2>3. CASE caller = Idle /\ applied' = FALSE /\ result' = "nothing"
    BY <2>2, <2>3 DEF Operation!OpNext, Operation!Begin, Idle
  <2>4. CASE kind = caller.kind /\ UNCHANGED <<applied, result>>
    BY <2>2, <2>4
  <2> QED
    BY <2>1, <2>3, <2>4
<1>2. CASE PollPasses \/ Watchdog
  <2>1. Waiting /\ Concludes /\ caller # Idle /\ caller \in Calls
    BY <1>2, CallFields DEF PollPasses, Watchdog, Waiting
  <2>2. CASE caller' = Idle
    <3>1. /\ caller'.kind = "idle" /\ applied' = FALSE
          /\ result' \in {"failed", "done", "partial"}
          /\ result' = "done" => caller.got = "ok"
          /\ result' = "partial" => caller.got = "more"
      <4>1. caller' # [caller EXCEPT !.step = "sleep"]
        BY <2>1, <2>2, SleepFacts
      <4> QED
        BY <2>1, <2>2, <4>1, ConcludesFacts DEF Idle
    <3>2. /\ caller.got = "ok" /\ caller.kind = "write" => applied
          /\ caller.got = "more" => caller.kind = "list"
      BY <2>1 DEF OwnTraffic, Truthful
    <3>3. Operation!Return(result')
      BY <1>0, <2>1, <3>1, <3>2 DEF Operation!Return
    <3> QED
      BY <3>1, <3>3 DEF Operation!OpNext, Operation!Ends, Operation!Results
  <2>3. CASE caller' # Idle
    <3>1. caller' = [caller EXCEPT !.step = "sleep"] /\ UNCHANGED <<applied, result>>
      BY <2>1, <2>3, ConcludesFacts
    <3>2. caller'.kind = caller.kind
      BY <2>1, <3>1, SleepFacts
    <3> QED
      BY <3>1, <3>2
  <2> QED
    BY <2>2, <2>3
<1>3. ASSUME NEW r \in requests, Serve(r)
      PROVE  Operation!OpNext \/ UNCHANGED <<caller.kind, applied, result>>
  <2>1. caller' = caller /\ result' = result
    BY <1>3 DEF Serve
  <2>2. CASE applied' = applied
    BY <2>1, <2>2
  <2>3. CASE applied' # applied
    <3>1. applied' = (applied \/ (caller # Idle /\ r.kind = "write"
                                  /\ r.nonce \in caller.sent))
      BY <1>3, <2>3 DEF Serve
    <3>2. applied \in BOOLEAN
      BY DEF TypeOK
    <3>3. caller # Idle /\ r.kind = "write" /\ r.nonce \in caller.sent /\ applied' = TRUE
      BY <2>3, <3>1, <3>2, Zenon
    <3>4. caller.kind = "write"
      BY <3>3 DEF OwnTraffic
    <3> QED
      BY <2>1, <3>3, <3>4 DEF Operation!OpNext, Operation!Apply
  <2> QED
    BY <2>2, <2>3
<1>4. ASSUME NEW r \in replies, Handle(r)
      PROVE  UNCHANGED <<caller.kind, applied, result>>
  <2>1. CASE caller' = caller
    BY <1>4, <2>1, HandleFacts
  <2>2. CASE caller' # caller
    <3>1. /\ Waiting /\ caller' = [caller EXCEPT !.got = r.content]
          /\ r.content \in {"ok", "more", "error"}
      BY <1>4, <2>2, HandleFacts
    <3>2. caller \in Calls
      BY <3>1, CallFields DEF Waiting
    <3>3. caller'.kind = caller.kind
      BY <3>1, <3>2, RecordFacts
    <3> QED
      BY <1>4, <3>3, HandleFacts
  <2> QED
    BY <2>1, <2>2
<1>5. ASSUME (\E r \in replies : Lose(r)) \/ UNCHANGED vars
      PROVE  UNCHANGED <<caller.kind, applied, result>>
  BY <1>5 DEF Lose, vars
<1>6. CASE RoundEnds
  BY <1>0, <1>6
  DEF RoundEnds, Idle, Operation!OpNext, Operation!Ends, Operation!Abandon
<1> QED
  BY <1>1, <1>2, <1>3, <1>4, <1>5, <1>6 DEF Next, Behaviour, Wire

-----------------------------------------------------------------------------
(* The end of a call *)

\* A turn is one the call may take, and a write that sleeps has one left.
TurnInLimit ==
    caller # Idle => /\ caller.turn <= TurnsOf(caller.kind)
                     /\ caller.step = "sleep" =>
                            caller.kind = "write" /\ caller.turn < TurnsOf(caller.kind)

\* The three things that become of a call: it ends, it sleeps after a turn that
\* was not the last, it takes the next turn; and what others leave of it.
CallEnds == caller' = Idle

CallSleeps ==
    /\ Waiting /\ caller.kind = "write" /\ caller.turn < TurnsOf(caller.kind)
    /\ caller' \in Calls /\ caller'.step = "sleep"
    /\ caller'.kind = caller.kind /\ caller'.turn = caller.turn

CallGoesOn ==
    /\ caller.turn < TurnsOf(caller.kind)
    /\ caller' \in Calls /\ caller'.step = "wait"
    /\ caller'.kind = caller.kind /\ caller'.turn = caller.turn + 1

CallStays ==
    /\ caller' \in Calls /\ caller'.step = caller.step
    /\ caller'.kind = caller.kind /\ caller'.turn = caller.turn

\* A call has at least one turn.
LEMMA TurnsType ==
    ASSUME NEW kind \in Kinds
    PROVE  TurnsOf(kind) \in Nat \ {0}
BY KvGateAssumption DEF Kinds, TurnsOf

\* The behaviour's own steps end the call, or let it sleep or go on.
LEMMA OwnSteps ==
    ASSUME TypeOK, OwnTraffic, TurnInLimit, Behaviour
    PROVE  caller # Idle /\ (CallEnds \/ CallSleeps \/ CallGoesOn)
<1>1. CASE PollPasses \/ Watchdog
  <2>1. Waiting /\ Concludes /\ caller # Idle /\ caller \in Calls
    BY <1>1, CallFields DEF PollPasses, Watchdog, Waiting
  <2>2. CASE caller' = Idle
    BY <2>1, <2>2 DEF CallEnds
  <2>3. CASE caller' # Idle
    <3>1. /\ caller' = [caller EXCEPT !.step = "sleep"]
          /\ caller.kind = "write" /\ caller.turn < MaxAttempts
      BY <2>1, <2>3 DEF Concludes, Finish
    <3>2. /\ caller' \in Calls /\ caller'.step = "sleep"
          /\ caller'.kind = caller.kind /\ caller'.turn = caller.turn
      BY <2>1, <3>1 DEF Calls
    <3> QED
      BY <2>1, <3>1, <3>2 DEF CallSleeps, TurnsOf
  <2> QED
    BY <2>1, <2>2, <2>3
<1>2. CASE NextPage
  <2>1. /\ caller # Idle /\ caller.turn < MaxPages
        /\ Send("list", caller.turn + 1, caller.sent)
    BY <1>2 DEF NextPage, Waiting
  <2>2. /\ caller.turn + 1 \in Nat \ {0} /\ caller.sent \in SUBSET Nonces
        /\ caller.kind = "list" /\ "list" \in Kinds
    BY <1>2, <2>1, CallFields DEF NextPage, OwnTraffic, Truthful, Kinds
  <2>3. /\ caller' \in Calls /\ caller'.kind = "list" /\ caller'.step = "wait"
        /\ caller'.turn = caller.turn + 1
    BY <2>1, <2>2 DEF Send, Calls, Unused
  <2> QED
    BY <2>1, <2>2, <2>3 DEF CallGoesOn, TurnsOf
<1>3. CASE NextAttempt
  <2>1. /\ caller # Idle /\ caller.step = "sleep"
        /\ Send("write", caller.turn + 1, caller.sent)
    BY <1>3 DEF NextAttempt
  <2>2. /\ caller.turn + 1 \in Nat \ {0} /\ caller.sent \in SUBSET Nonces
        /\ caller.kind = "write" /\ "write" \in Kinds
        /\ caller.turn < TurnsOf(caller.kind)
    BY <2>1, CallFields DEF TurnInLimit, Kinds
  <2>3. /\ caller' \in Calls /\ caller'.kind = "write" /\ caller'.step = "wait"
        /\ caller'.turn = caller.turn + 1
    BY <2>1, <2>2 DEF Send, Calls, Unused
  <2> QED
    BY <2>1, <2>2, <2>3 DEF CallGoesOn
<1> QED
  BY <1>1, <1>2, <1>3 DEF Behaviour

\* The wire and the rounds end the call or leave it where it is.
LEMMA OthersSteps ==
    ASSUME TypeOK, caller # Idle, Wire \/ RoundEnds \/ UNCHANGED vars
    PROVE  CallEnds \/ CallStays
<1>1. caller \in Calls
  BY CallFields
<1>2. CASE caller' = Idle
  BY <1>2 DEF CallEnds
<1>3. CASE caller' = caller
  BY <1>1, <1>3 DEF CallStays
<1>4. ASSUME NEW r \in replies, Handle(r), caller' # caller
      PROVE  CallStays
  <2>1. caller' = [caller EXCEPT !.got = r.content] /\ r.content \in {"ok", "more", "error"}
    BY <1>4, HandleFacts
  <2>2. caller'.turn = caller.turn
    BY <1>1, <2>1 DEF Calls
  <2> QED
    BY <1>1, <2>1, <2>2, RecordFacts DEF CallStays
<1> QED
  BY <1>2, <1>3, <1>4 DEF Wire, Serve, Lose, RoundEnds, vars

\* Whatever becomes of a call, the turns stay within the limit and the way to
\* its end does not get longer; it gets shorter by the call's own steps.
LEMMA CallShortens ==
    ASSUME TypeOK, TurnInLimit, caller # Idle,
           CallEnds \/ CallSleeps \/ CallGoesOn \/ CallStays
    PROVE  /\ TurnInLimit'
           /\ StepsToEnd' <= StepsToEnd
           /\ CallEnds \/ CallSleeps \/ CallGoesOn => StepsToEnd' < StepsToEnd
           /\ caller' # Idle => StepsToEnd' > 0
<1> DEFINE n == TurnsOf(caller.kind)
<1>1. /\ caller.turn \in Nat \ {0} /\ n \in Nat \ {0} /\ caller.turn <= n
      /\ caller.step \in {"wait", "sleep"}
  BY CallFields, TurnsType DEF TurnInLimit
<1>2. /\ caller.step = "wait" => StepsToEnd = 2 * (n - caller.turn) + 2
      /\ caller.step = "sleep" => StepsToEnd = 2 * (n - caller.turn) + 1
  BY DEF StepsToEnd, Waiting
<1> HIDE DEF n
<1>3. StepsToEnd \in Nat /\ StepsToEnd > 0
  BY <1>1, <1>2
<1>4. CASE CallEnds
  BY <1>3, <1>4 DEF CallEnds, TurnInLimit, StepsToEnd
<1>5. ASSUME CallSleeps \/ CallGoesOn \/ CallStays
      PROVE  /\ caller' # Idle /\ TurnsOf(caller'.kind) = n
             /\ caller'.step = "wait" => StepsToEnd' = 2 * (n - caller'.turn) + 2
             /\ caller'.step = "sleep" => StepsToEnd' = 2 * (n - caller'.turn) + 1
  <2>1. caller' \in Calls /\ caller'.kind = caller.kind
    BY <1>5 DEF CallSleeps, CallGoesOn, CallStays
  <2>2. caller' # Idle /\ TurnsOf(caller'.kind) = n
    BY <2>1, CallNotIdle DEF n
  <2> QED
    BY <2>2 DEF StepsToEnd, Waiting
<1>6. CASE CallSleeps
  <2>1. /\ caller'.step = "sleep" /\ caller'.kind = "write" /\ caller.step = "wait"
        /\ caller'.turn = caller.turn /\ caller.turn < n
    BY <1>6 DEF CallSleeps, Waiting, n
  <2> QED
    BY <1>1, <1>2, <1>5, <1>6, <2>1 DEF TurnInLimit
<1>7. CASE CallGoesOn
  <2>1. caller'.step = "wait" /\ caller'.turn = caller.turn + 1 /\ caller.turn < n
    BY <1>7 DEF CallGoesOn, n
  <2> QED
    BY <1>1, <1>2, <1>5, <1>7, <2>1 DEF TurnInLimit
<1>8. CASE CallStays /\ ~ CallSleeps /\ ~ CallGoesOn /\ ~ CallEnds
  <2>1. /\ caller'.step = caller.step /\ caller'.turn = caller.turn
        /\ caller'.kind = caller.kind
    BY <1>8 DEF CallStays
  <2>2. TurnInLimit'
    BY <1>1, <1>5, <1>8, <2>1 DEF TurnInLimit, n
  <2> QED
    BY <1>1, <1>2, <1>3, <1>5, <1>8, <2>1, <2>2
<1> QED
  BY <1>4, <1>6, <1>7, <1>8

\* A call starts in its first turn.
LEMMA FirstTurn ==
    ASSUME TypeOK, StartCall
    PROVE  TurnInLimit'
<1>1. PICK kind \in Kinds : Send(kind, 1, {})
  BY DEF StartCall
<1>2. 1 \in Nat \ {0} /\ {} \in SUBSET Nonces
  OBVIOUS
<1>3. caller'.kind = kind /\ caller'.turn = 1 /\ caller'.step = "wait"
  BY <1>1 DEF Send
<1>4. TurnsOf(kind) \in Nat /\ TurnsOf(kind) >= 1
  BY TurnsType
<1> QED
  BY <1>3, <1>4 DEF TurnInLimit

\* Every step keeps the turns within their limit and brings the end nearer.
LEMMA TurnsNext ==
    TypeOK /\ OwnTraffic /\ TurnInLimit /\ [Next]_vars
        => /\ TurnInLimit'
           /\ caller # Idle =>
                 /\ StepsToEnd' <= StepsToEnd
                 /\ Behaviour => StepsToEnd' < StepsToEnd
                 /\ caller' # Idle => StepsToEnd' > 0
<1> SUFFICES ASSUME TypeOK, OwnTraffic, TurnInLimit, [Next]_vars
             PROVE  /\ TurnInLimit'
                    /\ caller # Idle =>
                          /\ StepsToEnd' <= StepsToEnd
                          /\ Behaviour => StepsToEnd' < StepsToEnd
                          /\ caller' # Idle => StepsToEnd' > 0
  OBVIOUS
<1>1. CASE StartCall
  BY <1>1, FirstTurn, OwnSteps DEF StartCall
<1>2. CASE Behaviour
  BY <1>2, OwnSteps, CallShortens
<1>3. CASE ~ Behaviour /\ (Wire \/ RoundEnds \/ UNCHANGED vars)
  <2>1. CASE caller = Idle
    <3>1. caller' = Idle
      BY <1>3, <2>1
      DEF Wire, Serve, Handle, Record, Waiting, Lose, RoundEnds, vars
    <3> QED
      BY <2>1, <3>1 DEF TurnInLimit
  <2>2. CASE caller # Idle
    BY <1>3, <2>2, OthersSteps, CallShortens
  <2> QED
    BY <2>1, <2>2
<1> QED
  BY <1>1, <1>2, <1>3 DEF Next

-----------------------------------------------------------------------------
\* Types of the call path, for any limits.
THEOREM GateTypes == Spec => []TypeOK
BY GateInvariant, PTL

\* base.py:778-787: while no round has ended during a call, a wait that ends
\* before its timeout has its own reply.
THEOREM OwnReplyOnly == Spec => WaitsForItsReply
<1>1. OneCallback /\ [Next]_vars =>
        [(PollPasses \/ NextPage) /\ roundEnds = 0 => caller.got # "none"]_vars
  BY DEF OneCallback, PollPasses, NextPage
<1> QED
  BY <1>1, GateInvariant, PTL DEF Spec, WaitsForItsReply

\* base.py:806-834: each call is one operation to its caller; what it reports
\* of a write is in the store.
THEOREM CallIsOperation ==
    Spec => Operation!OpInit /\ [][Operation!OpNext]_(Operation!opVars)
<1>1. Init => Operation!OpInit
  BY DEF Init, Operation!OpInit, Idle
<1> QED
  BY <1>1, OperationStep, GateInvariant, PTL DEF Spec

\* base.py:767-775, :836-887, :925-990: no call goes on for ever, for any limits
\* and whatever the connection does.  With the agent polling on, every call ends.
THEOREM CallsEnd == Spec => CallsAdvance
<1>1. Init => TurnInLimit
  BY DEF Init, TurnInLimit
<1>2. Spec => []TurnInLimit
  BY <1>1, GateInvariant, TurnsNext, PTL DEF Spec
<1>3. TypeOK /\ OwnTraffic /\ TurnInLimit /\ [Next]_vars
          => [caller # Idle =>
                 /\ StepsToEnd' <= StepsToEnd /\ (Behaviour => StepsToEnd' < StepsToEnd)
                 /\ caller' # Idle => StepsToEnd' > 0]_vars
  BY TurnsNext
<1> QED
  BY <1>2, <1>3, GateInvariant, PTL DEF Spec, CallsAdvance

=============================================================================
