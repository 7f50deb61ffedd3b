------------------------------ MODULE Softmax ------------------------------
(***************************************************************************)
(* Single-query attention, one KV position after the other: the recurrence *)
(* the comments of the kernels call exact.  A position the mask sets to    *)
(* minus infinity is skipped; a score above the running maximum rescales   *)
(* what was accumulated; any other one is weighed by the exponential of    *)
(* its distance to the maximum.                                            *)
(*                                                                         *)
(* The sum of the weights S and the row VKQ are the sequences of the       *)
(* multiplications and additions that made them, which no two different    *)
(* roundings share: additions of an exact zero and multiplications by an   *)
(* exact one change nothing and are left out, and a multiplication by zero *)
(* leaves nothing of what came before.  The values of V are finite.        *)
(***************************************************************************)
EXTENDS Integers, Sequences

CONSTANT NegInf   \* the score of a masked position, the maximum of none

ASSUME NegInfAssumption == NegInf \in Int /\ NegInf <= -1000

(* expf flushes to zero below -103.97; the kernels clamp at -200 first.    *)
Zero(e) == e < -103

Clamp(e) == IF e < -200 THEN -200 ELSE e

Mul(log, e) == CASE Zero(e) -> <<>>
                 [] e = 0 -> log
                 [] OTHER -> Append(log, <<"mul", e>>)

Add(log, e, p) == IF Zero(e) THEN log ELSE Append(log, <<"add", e, p>>)

(* What the calls before this one accumulated is position 0.               *)
Before(M) == IF M = NegInf THEN <<>> ELSE << <<"add", 0, 0>> >>

Positions(call) == call.start .. call.end - 1

Score(call, p) == IF call.mask # 0 /\ call.mv[p] = NegInf THEN NegInf
                  ELSE call.dot[p] + (IF call.mask = 0 THEN 0 ELSE call.mv[p])

(* One position of the recurrence.                                         *)
Position(st, s, p) ==
    CASE s = NegInf -> st
      [] s # NegInf /\ s > st.M ->
            [M |-> s,
             S |-> Add(Mul(st.S, st.M - s), 0, p),
             VKQ |-> Add(Mul(st.VKQ, st.M - s), 0, p)]
      [] OTHER ->
            [M |-> st.M,
             S |-> Add(st.S, s - st.M, p),
             VKQ |-> Add(st.VKQ, s - st.M, p)]
=============================================================================
