------------------------------ MODULE MCSlots ------------------------------
(* Slots on small instances.                                               *)
EXTENDS Slots

CONSTANTS a, b      \* tokens

MCToken == {a, b}

\* Prompts that start with the whole system prompt, are it, or share a part,
\* and one no window holds.
MCPrompt == {<<a, b, a>>, <<a, a>>, <<b>>, <<b, b, b, b, b, b, b>>}

MCStreamPrompt == {<<a, b>>, <<a, b, a>>}

MCSystemPrompt == {<<a, b>>}

\* Two, so that one replaces the other.
MCSystemPrompts == {<<a, b>>, <<b>>}

\* A system prompt every task's prompt goes beyond.
MCSystemShared == {<<a>>}

MCLeftover == {<<b, a, b>>}

\* Budgets: none, less than the window, what the window leaves.
MCNPredict == {0, 2, -1}

MCSampled == {b}
=============================================================================
