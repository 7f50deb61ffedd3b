--------------------------- MODULE Autoregressive ---------------------------
(***************************************************************************)
(* What a generation promises, however it batches its work: token after    *)
(* token, each sampled after exactly the prompt and the tokens before it,  *)
(* within the budget, and none once the call has ended.                    *)
(***************************************************************************)
EXTENDS Integers, Sequences

CONSTANTS Token, Prompt, Budgets

VARIABLES open,     \* a call runs
          request,  \* its prompt and budget
          text      \* its tokens, each with the text it was sampled after

autoVars == <<open, request, text>>

Tokens(t) == [j \in DOMAIN t |-> t[j].tok]

Init == open = FALSE /\ request = [prompt |-> <<>>, budget |-> 0] /\ text = <<>>

Begin == /\ ~open
         /\ open' = TRUE
         /\ request' \in [prompt : Prompt, budget : Budgets]
         /\ text' = <<>>

Sample(tok) == /\ open
               /\ Len(text) < request.budget
               /\ text' = Append(text, [tok |-> tok, after |-> request.prompt \o Tokens(text)])
               /\ open' \in BOOLEAN
               /\ UNCHANGED request

End == open /\ open' = FALSE /\ UNCHANGED <<request, text>>

Next == Begin \/ (\E tok \in Token : Sample(tok)) \/ End

Spec == Init /\ [][Next]_autoVars
=============================================================================
