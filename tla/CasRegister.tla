---------------------------- MODULE CasRegister ----------------------------
(***************************************************************************)
(* What the conditional writes of an object store promise, for one key: a  *)
(* register with a compare-and-swap. A swap that succeeds has exchanged    *)
(* the value it expected, one that conflicts has met another value, and an *)
(* unsupported one has done nothing. A swap whose answer was lost may have *)
(* been applied, and be applied again, each time to the expected value.    *)
(***************************************************************************)
CONSTANTS
    Client,
    Content     \* what the register may hold

VARIABLES
    reg,        \* the register
    op,         \* each client's running call: what it is, and what it has done
    answer      \* each client's last answer

regVars == <<reg, op, answer>>

Call == [kind : {"swap", "write", "read"}, from : Content, to : Content,
         missed : {FALSE}, applied : {FALSE}]
NoCall == [kind |-> "none"]

RegInit ==
    /\ reg \in Content
    /\ op = [c \in Client |-> NoCall]
    /\ answer = [c \in Client |-> "none"]

BeginCall(c) ==
    /\ op[c] = NoCall
    /\ op'[c] \in Call
    /\ op' = [op EXCEPT ![c] = op'[c]]
    /\ answer' = [answer EXCEPT ![c] = "none"]
    /\ UNCHANGED reg

EndCall(c, ans) ==
    /\ op[c] # NoCall
    /\ op' = [op EXCEPT ![c] = NoCall]
    /\ answer' = [answer EXCEPT ![c] = ans]

\* The swap takes place and is reported.
Swap(c) ==
    /\ op[c].kind = "swap" /\ reg = op[c].from
    /\ reg' = op[c].to
    /\ EndCall(c, "Success")

\* The swap takes place and nobody is told.
SwapLost(c) ==
    /\ op[c].kind = "swap" /\ reg = op[c].from
    /\ reg' = op[c].to
    /\ op' = [op EXCEPT ![c].applied = TRUE]
    /\ UNCHANGED answer

Miss(c) ==
    /\ op[c].kind = "swap" /\ reg # op[c].from
    /\ op' = [op EXCEPT ![c].missed = TRUE]
    /\ UNCHANGED <<reg, answer>>

\* A swap that missed answers in the same step or later.
MissNow(c) ==
    /\ op[c].kind = "swap" /\ reg # op[c].from
    /\ EndCall(c, "Conflict")
    /\ UNCHANGED reg

Conflict(c) ==
    /\ op[c].kind = "swap" /\ op[c].missed
    /\ EndCall(c, "Conflict")
    /\ UNCHANGED reg

Unsupported(c) ==
    /\ op[c].kind = "swap" /\ ~op[c].applied
    /\ EndCall(c, "Unsupported")
    /\ UNCHANGED reg

\* Unconditional writes, which are also all a delete and a failed call may do.
Write(c) ==
    /\ op[c].kind = "write"
    /\ reg' = op[c].to
    /\ UNCHANGED <<op, answer>>

WriteNow(c) ==
    /\ op[c].kind = "write"
    /\ reg' = op[c].to
    /\ EndCall(c, "Ok")

EndOther(c) ==
    /\ \/ op[c].kind # "swap" /\ EndCall(c, "Ok")
       \/ EndCall(c, "Err")
    /\ UNCHANGED reg

\* An error whose write took effect.
EndWritten(c) ==
    /\ \/ op[c].kind = "write"
       \/ op[c].kind = "swap" /\ reg = op[c].from
    /\ reg' = op[c].to
    /\ EndCall(c, "Err")

RegNext ==
    \E c \in Client :
        \/ BeginCall(c) \/ Swap(c) \/ SwapLost(c) \/ Miss(c) \/ MissNow(c)
        \/ Conflict(c) \/ Unsupported(c)
        \/ Write(c) \/ WriteNow(c) \/ EndOther(c) \/ EndWritten(c)

RegSpec == RegInit /\ [][RegNext]_regVars

=============================================================================
