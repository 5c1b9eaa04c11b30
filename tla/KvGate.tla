-------------------------------- MODULE KvGate --------------------------------
(***************************************************************************)
(* The path of one kv_store call: the helpers of behaviours/base.py        *)
(* register a callback under the nonce of a new dialogue, raise the one    *)
(* in_flight_req flag of the shared state and poll it; KvStoreHandler pops *)
(* the callback of the reply's nonce and lowers the flag; a watchdog lowers *)
(* it when no reply comes.  The flag says that a reply came, not whose.    *)
(*                                                                         *)
(* When a round ends the framework drops the waiting generator wherever it *)
(* is; nothing in the skill then pops its callback or lowers the flag.     *)
(***************************************************************************)
EXTENDS Integers, FiniteSets

CONSTANTS
    Nonces,        \* dialogue references; one is taken again once unused
    MaxAttempts,   \* MAX_KV_WRITE_ATTEMPTS
    MaxPages,      \* max_pages of a LIST walk
    MaxLosses,     \* bound: replies that never arrive
    MaxRoundEnds   \* bound: rounds that end during a call

ASSUME KvGateAssumption ==
    /\ IsFiniteSet(Nonces)
    /\ MaxAttempts \in Nat \ {0} /\ MaxPages \in Nat \ {0}
    /\ MaxLosses \in Nat /\ MaxRoundEnds \in Nat

VARIABLES
    inFlight,    \* in_flight_req
    callbacks,   \* the nonces in req_to_callback
    caller,      \* the call the behaviour is in
    requests,    \* requests the connection has not handled: nonce and kind
    replies,     \* replies on their way: nonce and content
    applied,     \* ghost: the row of the write in progress is stored
    result,      \* what the last call returned
    losses, roundEnds

vars == <<inFlight, callbacks, caller, requests, replies, applied, result,
          losses, roundEnds>>

Kinds == {"write", "read", "list"}

\* step: polling the flag, or asleep between two attempts.  turn: the
\* attempt, or the page.  got: what this turn's callback has recorded.  sent:
\* the nonces this call has used.
Calls == [kind : Kinds, step : {"wait", "sleep"}, turn : Nat \ {0}, nonce : Nonces,
          got : {"none", "ok", "more", "error"}, sent : SUBSET Nonces]

Idle == [kind |-> "idle"]

Init ==
    /\ inFlight = FALSE /\ callbacks = {}
    /\ caller = Idle
    /\ requests = {} /\ replies = {}
    /\ applied = FALSE /\ result = "nothing"
    /\ losses = 0 /\ roundEnds = 0

Waiting == caller # Idle /\ caller.step = "wait"

Unused ==
    Nonces \ (callbacks \cup {r.nonce : r \in requests} \cup {r.nonce : r \in replies})

\* Register the callback, raise the flag, put the message in the outbox.
Send(kind, turn, sent) ==
    \E n \in Unused :
        /\ callbacks' = callbacks \cup {n}
        /\ inFlight' = TRUE
        /\ requests' = requests \cup {[nonce |-> n, kind |-> kind]}
        /\ caller' = [kind |-> kind, step |-> "wait", turn |-> turn, nonce |-> n,
                      got |-> "none", sent |-> sent \cup {n}]

StartCall ==
    /\ caller = Idle
    /\ \E kind \in Kinds : Send(kind, 1, {})
    /\ applied' = FALSE /\ result' = "nothing"
    /\ UNCHANGED <<replies, losses, roundEnds>>

Finish(what) ==
    /\ caller' = Idle
    /\ applied' = FALSE
    /\ result' = what
    /\ UNCHANGED <<requests, replies, losses, roundEnds>>

\* What follows the wait of one turn, given what its callback recorded.
Concludes ==
    \/ /\ caller.got = "ok"
       /\ Finish("done")
    \/ /\ caller.kind = "write" /\ caller.got # "ok"
       /\ caller.turn < MaxAttempts
       /\ caller' = [caller EXCEPT !.step = "sleep"]
       /\ UNCHANGED <<requests, replies, applied, result, losses, roundEnds>>
    \/ /\ caller.kind = "write" => caller.turn = MaxAttempts
       /\ caller.got \in {"none", "error"}
       /\ Finish("failed")
    \/ /\ caller.got = "more" /\ caller.turn = MaxPages
       /\ Finish("partial")

\* The poll finds the flag lowered, whoever lowered it.
PollPasses ==
    /\ Waiting /\ ~ inFlight
    /\ Concludes
    /\ UNCHANGED <<inFlight, callbacks>>

\* Mutation: the walk asks for one page more than max_pages.
NextPageMore ==
    /\ Waiting /\ ~ inFlight
    /\ caller.got = "more" /\ caller.turn <= MaxPages
    /\ Send("list", caller.turn + 1, caller.sent)
    /\ UNCHANGED <<replies, applied, result, losses, roundEnds>>

\* The same, and the walk goes on.
NextPage ==
    /\ Waiting /\ ~ inFlight
    /\ caller.got = "more" /\ caller.turn < MaxPages
    /\ Send("list", caller.turn + 1, caller.sent)
    /\ UNCHANGED <<replies, applied, result, losses, roundEnds>>

\* Mutation: the watchdog leaves its callback registered.
WatchdogKeeps ==
    /\ Waiting /\ inFlight
    /\ inFlight' = FALSE
    /\ UNCHANGED callbacks
    /\ Concludes

\* mech_cache_kv_request_timeout has passed and the flag is still up.
Watchdog ==
    /\ Waiting /\ inFlight
    /\ inFlight' = FALSE
    /\ callbacks' = callbacks \ {caller.nonce}
    /\ Concludes

NextAttempt ==
    /\ caller # Idle /\ caller.step = "sleep"
    /\ Send("write", caller.turn + 1, caller.sent)
    /\ UNCHANGED <<replies, applied, result, losses, roundEnds>>

\* The connection serves a request, or fails it.
Serve(r) ==
    /\ r \in requests
    /\ requests' = requests \ {r}
    /\ \/ /\ replies' = replies \cup {[nonce |-> r.nonce, content |-> "ok"]}
          /\ applied' = (applied \/ (caller # Idle /\ r.kind = "write"
                                     /\ r.nonce \in caller.sent))
       \/ /\ r.kind = "list"
          /\ replies' = replies \cup {[nonce |-> r.nonce, content |-> "more"]}
          /\ UNCHANGED applied
       \/ /\ replies' = replies \cup {[nonce |-> r.nonce, content |-> "error"]}
          /\ UNCHANGED applied
    /\ UNCHANGED <<inFlight, callbacks, caller, result, losses, roundEnds>>

\* Mutation: the cursor of the last page stays null.
RecordNull(r) ==
    IF Waiting /\ caller.nonce = r.nonce
    THEN [caller EXCEPT !.got = IF r.content = "ok" THEN "null" ELSE r.content]
    ELSE caller

\* Mutation: any reply is handed to the call that waits.
RecordAny(r) == IF Waiting /\ inFlight THEN [caller EXCEPT !.got = r.content] ELSE caller

\* The callback's dict is read by the call it was made for, if that still
\* waits for this nonce.
Record(r) ==
    IF Waiting /\ caller.nonce = r.nonce THEN [caller EXCEPT !.got = r.content]
    ELSE caller

\* KvStoreHandler.handle: a nonce without a callback changes nothing.
Handle(r) ==
    /\ r \in replies
    /\ replies' = replies \ {r}
    /\ \/ /\ r.nonce \in callbacks
          /\ callbacks' = callbacks \ {r.nonce}
          /\ caller' = Record(r)
          /\ inFlight' = FALSE
       \/ /\ r.nonce \notin callbacks
          /\ UNCHANGED <<callbacks, caller, inFlight>>
    /\ UNCHANGED <<requests, applied, result, losses, roundEnds>>

Lose(r) ==
    /\ r \in replies
    /\ losses < MaxLosses
    /\ losses' = losses + 1
    /\ replies' = replies \ {r}
    /\ UNCHANGED <<inFlight, callbacks, caller, requests, applied, result, roundEnds>>

\* The generator is dropped; its callback and the flag are left behind.
RoundEnds ==
    /\ caller # Idle
    /\ roundEnds < MaxRoundEnds
    /\ roundEnds' = roundEnds + 1
    /\ caller' = Idle
    /\ applied' = FALSE
    /\ UNCHANGED <<inFlight, callbacks, requests, replies, result, losses>>

Behaviour == PollPasses \/ NextPage \/ Watchdog \/ NextAttempt

Wire ==
    \/ \E r \in requests : Serve(r)
    \/ \E r \in replies : Handle(r) \/ Lose(r)

Next == StartCall \/ Behaviour \/ Wire \/ RoundEnds

Spec == Init /\ [][Next]_vars

\* The agent polls on, and the connection's loop and the handler run.
FairSpec == Spec /\ WF_vars(Behaviour) /\ WF_vars(Wire)

-----------------------------------------------------------------------------
TypeOK ==
    /\ inFlight \in BOOLEAN
    /\ callbacks \subseteq Nonces
    /\ caller \in Calls \cup {Idle}
    /\ requests \subseteq [nonce : Nonces, kind : Kinds]
    /\ replies \subseteq [nonce : Nonces, content : {"ok", "more", "error"}]
    /\ applied \in BOOLEAN
    /\ result \in {"nothing", "failed", "done", "partial"}
    /\ losses \in 0 .. MaxLosses /\ roundEnds \in 0 .. MaxRoundEnds

\* A call is an atomic operation to its caller, whatever replies are late,
\* lost or meant for another: a write that reports success is in the store
\* (base.py:817), and every call ends (base.py:767-775).
Operation == INSTANCE KvOperation WITH op <- caller.kind

OperationSpec == Operation!OpSpec

\* base.py:778-787: popping the callback on a timeout keeps a late reply
\* from ending another call's wait, so a call ends without a reply of its own
\* only on its own timeout.  Nothing pops it when the round ends during a
\* call; this holds as long as none does.
WaitsForItsReply ==
    [][(PollPasses \/ NextPage) /\ roundEnds = 0 => caller.got # "none"]_vars

\* The turns a call may take, and its own steps to its end at the latest.
TurnsOf(kind) ==
    CASE kind = "write" -> MaxAttempts [] kind = "list" -> MaxPages [] kind = "read" -> 1

StepsToEnd ==
    IF caller = Idle THEN 0
    ELSE 2 * (TurnsOf(caller.kind) - caller.turn) + (IF Waiting THEN 2 ELSE 1)

\* base.py:767-775, :836-887, :925-990: a call cannot go on for ever, whatever
\* the connection answers, loses or delays.  Each of its own steps brings its
\* end nearer, nothing sets it back, and it sends no more than its limit.
CallsAdvance ==
    [][caller # Idle =>
          /\ StepsToEnd' <= StepsToEnd /\ (Behaviour => StepsToEnd' < StepsToEnd)
          /\ caller' # Idle => StepsToEnd' > 0]_vars

=============================================================================
