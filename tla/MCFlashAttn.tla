---------------------------- MODULE MCFlashAttn ----------------------------
(* Small instance of FlashAttn.  Two kinds of calls: all scores of up to   *)
(* five positions in a memory that fits them, and one of each pointer at   *)
(* the end of memory.                                                      *)
EXTENDS FlashAttn

MCSize == 2000
MCNegInf == -1000

Fit(len, dv) == [l0 |-> 0, Q |-> 100, K |-> 200, nbk |-> 20, V |-> 400, nbv |-> 2 * dv,
                 mask |-> 90, SM |-> 120, VKQ |-> 1500,
                 start |-> 1, end |-> 1 + len, DK |-> 8, DV |-> dv, M |-> 1,
                 dot |-> [p \in 1 .. len |-> p % 3], mv |-> [p \in 1 .. len |-> 0]]

(* Scores: below, at and above the maximum before, one so high that what   *)
(* came before vanishes, and masked ones.                                  *)
ScoreCalls ==
    UNION {{[Fit(len, 64) EXCEPT !.M = m, !.dot = d,
                !.mv = [p \in 1 .. len |-> IF d[p] = 3 THEN NegInf ELSE 0]] :
               m \in {NegInf, 1}, d \in [1 .. len -> {0, 2, 3, 150}]} : len \in 0 .. 5}

At(last, len) == {a \in {last - len, last - len + 1} : a >= 0}

PointerCalls ==
    UNION {LET c == Fit(len, dv) IN
           {[c EXCEPT !.l0 = a] : a \in At(MCSize, 96)}
           \cup {[c EXCEPT !.Q = a] : a \in At(MCSize, 16)}
           \cup {[c EXCEPT !.Q = a, !.DK = 24] : a \in At(MCSize, 48)}
           \cup {[c EXCEPT !.SM = a] : a \in At(MCSize, 8)}
           \cup {[c EXCEPT !.VKQ = a] : a \in At(MCSize, 4 * dv)}
           \cup {[c EXCEPT !.K = a] : a \in At(MCSize, len * 20 + 16)}
           \cup {[c EXCEPT !.V = a] : a \in At(MCSize, 2 * dv * (len + 1))}
           \cup {[c EXCEPT !.mask = a] : a \in At(MCSize, 2 * len + 2)}
           \cup {[c EXCEPT !.mask = 0]} :
              len \in 0 .. 4, dv \in {8, 24, 64, 128}}

MCCalls == ScoreCalls \cup PointerCalls
=============================================================================
