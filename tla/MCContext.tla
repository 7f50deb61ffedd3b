----------------------------- MODULE MCContext -----------------------------
(* Context on small instances.                                             *)
EXTENDS Context

CONSTANTS a, b      \* tokens

MCToken == {a, b}
MCNone == {}

\* Prompts that part at once; texts of eval share a prefix with the first.
MCGenPrompt == {<<a, b, b>>, <<b, a>>}
MCGenPredict == {2, -1, 0}
MCGenCounts == {0, 2}

\* One that fills half the window, and one no window holds.
MCGuardPrompt == {<<b, a>>, <<a, b, b, a>>}
MCShortPrompt == {<<a>>}

MCEvalText == {<<a, b>>}
MCScoreText == {<<b, a>>}

\* One batch of one row holds the first, not the second.
MCEmbedText == {<<b>>}
MCEmbedLong == {<<b>>, <<a, b>>}

MCSpecLeft == {<<b>>}

\* One task, with a prompt of one token.
MCPrompt == {<<a>>}
MCNPredict == {2}
MCNoBudget == {0}
MCSystemPrompt == {<<a>>}
MCTaskPrompt == {<<a, b>>}
MCSampled == {b}
=============================================================================
