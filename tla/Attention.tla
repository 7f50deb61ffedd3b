----------------------------- MODULE Attention -----------------------------
(***************************************************************************)
(* What a call of the attention kernel promises: the state after the       *)
(* recurrence over the positions of the call in order, however they are    *)
(* grouped into blocks.                                                    *)
(***************************************************************************)
EXTENDS Softmax

CONSTANTS Calls,  \* the calls: see FlashAttn
          Block   \* positions the blocked kernels take at a time (8)

VARIABLES call, next, state

attnvars == <<call, next, state>>

Init == /\ call \in Calls
        /\ next = call.start
        /\ state = [M |-> call.M, S |-> Before(call.M), VKQ |-> Before(call.M)]

After(n) ==
    LET st[i \in 0 .. n] ==
            IF i = 0 THEN state
            ELSE Position(st[i - 1], Score(call, next + i - 1), next + i - 1)
    IN st[n]

Attend(n) == /\ next + n <= call.end
             /\ next' = next + n
             /\ state' = After(n)
             /\ UNCHANGED call

Next == \E n \in 1 .. Block : Attend(n)

Spec == Init /\ [][Next]_attnvars
=============================================================================
