---------------------------- MODULE MCModeDecoder ----------------------------
(* Bounded inputs for ModeDecoder: up to MaxTokens flag tokens of at most  *)
(* MaxTokenBytes bytes each, over signs, a flag letter and the two bytes   *)
(* of U+00E9.                                                              *)
EXTENDS ModeDecoder

MaxTokenBytes == 3
Bytes == {"+", "-", "i", LeadByte, ContByte}

\* parseLine never yields an empty argument.
Tokens == {t \in BoundedSeq(Bytes, MaxTokenBytes) : t # <<>>}

\* Every byte string a peer can send.
AnyInputs == BoundedSeq(Tokens, MaxTokens)

\* Well-formed UTF-8 tokens only.
ValidInputs == BoundedSeq({t \in Tokens : ValidUtf8(t)}, MaxTokens)
=============================================================================
