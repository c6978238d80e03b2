------------------------------- MODULE Greedy -------------------------------
(***************************************************************************)
(* What a collected run promises about its text: every prompt is continued *)
(* by the target model's own greedy (temperature 0) decoding, in chunks of *)
(* at least one token, and prompts are delivered one at a time, in order.  *)
(* Neither a draft tree nor a gate appears here: speculation may change    *)
(* how fast the text is produced, never the text.                          *)
(***************************************************************************)
EXTENDS Integers, Sequences

CONSTANTS
  Prompts,     \* the prompts, as token sequences
  Argmax(_)    \* the target model's greedy next token after a context

VARIABLES
  gen,         \* tokens generated so far for the current prompt
  delivered    \* the finished continuations, one per prompt

Prefix(s, t) == Len(s) <= Len(t) /\ \A i \in 1..Len(s) : s[i] = t[i]

\* Every token of s is the greedy choice after the context and its elders.
GreedyFrom(context, s) ==
  \A i \in 1..Len(s) : s[i] = Argmax(context \o SubSeq(s, 1, i - 1))

Current == Prompts[Len(delivered) + 1]

Init == gen = <<>> /\ delivered = <<>>

Decode ==
  /\ Len(delivered) < Len(Prompts)
  /\ Len(gen') > Len(gen) /\ Prefix(gen, gen') /\ GreedyFrom(Current, gen')
  /\ UNCHANGED delivered

Deliver ==
  /\ Len(delivered) < Len(Prompts) /\ gen # <<>>
  /\ delivered' = Append(delivered, gen)
  /\ gen' = <<>>

Next == Decode \/ Deliver

Spec == Init /\ [][Next]_<<gen, delivered>>
=============================================================================
