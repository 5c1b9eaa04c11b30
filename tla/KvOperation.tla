----------------------------- MODULE KvOperation -----------------------------
(***************************************************************************)
(* What a behaviour may rely on when it calls _send_kv_write, _send_kv_read *)
(* or _send_kv_list: the call is one operation, which may take effect at   *)
(* any time while it lasts; a write that returns True has taken effect; the *)
(* end of the round may cut it short; it does not last for ever.           *)
(***************************************************************************)
CONSTANT Kinds      \* the calls: write, read, list

VARIABLES
    op,         \* the call in progress, or "idle"
    applied,    \* the row of the write in progress is in the store
    result      \* what the last call returned

opVars == <<op, applied, result>>

Results == {"nothing", "failed", "done", "partial"}

OpTypeOK ==
    /\ op \in Kinds \cup {"idle"}
    /\ applied \in BOOLEAN
    /\ result \in Results

OpInit == op = "idle" /\ applied = FALSE /\ result = "nothing"

Begin ==
    /\ op = "idle"
    /\ op' \in Kinds
    /\ applied' = FALSE /\ result' = "nothing"

Apply ==
    /\ op = "write"
    /\ applied' = TRUE
    /\ UNCHANGED <<op, result>>

Return(what) ==
    /\ op # "idle"
    /\ what = "done" /\ op = "write" => applied
    /\ what = "partial" => op = "list"
    /\ op' = "idle" /\ applied' = FALSE /\ result' = what

\* The round ends: the call never returns.
Abandon ==
    /\ op # "idle"
    /\ op' = "idle" /\ applied' = FALSE /\ UNCHANGED result

Ends == Abandon \/ \E what \in Results \ {"nothing"} : Return(what)

OpNext == Begin \/ Apply \/ Ends

OpSpec == OpInit /\ [][OpNext]_opVars /\ WF_opVars(Ends)

=============================================================================
