---------------------------- MODULE MCDictionary ----------------------------
EXTENDS Dictionary

\* "aAaAbc", in which tokens are alike, and zeros around a one, a built-in value.
Letters == <<97, 65, 97, 65, 98, 99>>
Binary == <<0, 1, 0, 0>>
MCInputs == {Letters, Binary}
MCEffects == [f \in MCInputs |-> {DOMAIN f, {1, Len(f)}}]
MCInterestingTokens == {<<0, 1, 0, 0>>}

\* Nothing; tokens of three and four bytes, one of them "AAB", the longer one first.
MCDictionaries == {<<>>, <<<<120, 121, 122, 120>>, <<65, 65, 66>>>>}
=============================================================================
